----------------------- MODULE ConfluenceReviewProofs -----------------------
(***************************************************************************)
(* Proofs about ConfluenceReview, for any jobs, pages, calls and bounds:   *)
(* what claims and proposals cite is stored for good, proposals rest on    *)
(* claims about their very baseline, and a candidate of a session that     *)
(* makes one call at a time never goes back.                               *)
(***************************************************************************)
EXTENDS ConfluenceReview, TLAPS

(* What a call carries from one step to the next agrees with what is       *)
(* stored, however much has been stored since.                             *)
Sound(s) ==
  /\ s.step = "idle" <=> s.job = None
  /\ s.step \in {"attach", "record", "create"} => s.on \in Baseline
  /\ s.step \in {"fetch", "attach"} => \A p \in s.todo : candidate[s.job][p] # -1
  /\ s.step = "attach" =>
       /\ s.on.version <= page[s.on.page].version
       /\ s.job \notin Parallel => candidate[s.job][s.on.page] <= s.on.version
  /\ s.step \in {"record", "create"} => snapshot[s.on.page][s.on.version] = s.on.body
  /\ s.step = "create" =>
       /\ s.evidence # {} /\ s.evidence \subseteq claims
       /\ OccursOnce[s.on.body] # {}

CallsSound == \A c \in Call : Sound(call[c])

OneAtATime ==
  \A j \in Job \ Parallel : \A c, d \in Call : call[c].job = j /\ call[d].job = j => c = d

(* TypeOK without what Sound says of calls.                                *)
StoreOK ==
  /\ page \in [Page -> [version : Version, body : Body]]
  /\ scope \in [Job -> [Page -> {"exact", "root", "none"}]]
  /\ active \in [Job -> BOOLEAN]
  /\ snapshot \in [Page -> [Version -> Body \cup {None}]]
  /\ \A p \in Page, v \in Version : snapshot[p][v] # None => v <= page[p].version
  /\ candidate \in [Job -> [Page -> -1..MaxVersion]]
  /\ \A j \in Job, p \in Page : candidate[j][p] > 0 => snapshot[p][candidate[j][p]] # None
  /\ claims \subseteq Claim
  /\ \A x \in proposals : x.evidence \subseteq claims /\ x.evidence # {}
  /\ call \in [Call -> CallState]
  /\ events \in 0..MaxEvents

Inv ==
  /\ StoreOK
  /\ BaselinesAreStored
  /\ ProposalsAreSupported
  /\ CallsSound
  /\ OneAtATime

(* Nothing stored is ever lost or replaced.                                *)
PagesGrow == \A p \in Page : page[p].version <= page'[p].version

SnapshotsStay ==
  \A p \in Page, v \in Version : snapshot[p][v] # None => snapshot'[p][v] = snapshot[p][v]

CandidatesStay == \A j \in Job, p \in Page : candidate[j][p] # -1 => candidate'[j][p] # -1

USE PositionAssumption, BodyAssumption, ParallelAssumption, NoneAssumption, BoundsAssumption

-----------------------------------------------------------------------------
(* The constructors of call states.                                        *)

LEMMA SearchingFields ==
  ASSUME NEW step, NEW j, NEW todo, NEW on
  PROVE  LET s == Searching(step, j, todo, on)
         IN  s.step = step /\ s.job = j /\ s.todo = todo /\ s.on = on /\ s.evidence = {}
BY DEF Searching

LEMMA SearchingTyped ==
  ASSUME NEW step \in Step, NEW j \in Job, NEW todo \in SUBSET Page,
         NEW on \in Baseline \cup {NoBaseline}
  PROVE  Searching(step, j, todo, on) \in CallState
BY DEF Searching, CallState

LEMMA WritingFields ==
  ASSUME NEW step, NEW j, NEW on, NEW ids
  PROVE  LET s == Writing(step, j, on, ids)
         IN  s.step = step /\ s.job = j /\ s.todo = {} /\ s.on = on /\ s.evidence = ids
BY DEF Writing

LEMMA WritingTyped ==
  ASSUME NEW step \in Step, NEW j \in Job \cup {None}, NEW on \in Baseline \cup {NoBaseline},
         NEW ids \in SUBSET Claim
  PROVE  Writing(step, j, on, ids) \in CallState
BY DEF Writing, CallState

LEMMA IdleIsSound == Idle \in CallState /\ Idle.step = "idle" /\ Idle.job = None /\ Sound(Idle)
BY WritingFields, WritingTyped DEF Idle, Sound, Step

(* A baseline has a page, and the absence of one does not.                 *)
LEMMA NoBaselineIsNone == NoBaseline \notin Baseline
BY DEF NoBaseline, Baseline

LEMMA InvTyped == Inv => TypeOK
BY NoBaselineIsNone DEF Inv, StoreOK, TypeOK, CallsSound, Sound

(* The job of a call that is under way, and the page it is at.             *)
LEMMA CallTyped ==
  ASSUME StoreOK, CallsSound, NEW c \in Call
  PROVE  /\ call[c] \in CallState /\ Sound(call[c])
         /\ call[c].step # "idle" => call[c].job \in Job
         /\ call[c].on \in Baseline =>
              /\ call[c].on.page \in Page
              /\ call[c].on.version \in Version
              /\ call[c].on.body \in Body
BY DEF StoreOK, CallState, CallsSound, Sound, Baseline

-----------------------------------------------------------------------------
LEMMA VersionsAreNumbers ==
  ASSUME StoreOK, StoreOK', NEW p \in Page
  PROVE  page[p].version \in Nat /\ page'[p].version \in Nat
<1>1. page[p].version \in Version /\ page'[p].version \in Version
  BY DEF StoreOK
<1> QED BY <1>1 DEF Version

(* A candidate is never ahead of its page, and points to a stored body.    *)
LEMMA CandidatesFollowPages ==
  ASSUME StoreOK, NEW j \in Job, NEW p \in Page
  PROVE  candidate[j][p] <= page[p].version /\ page[p].version <= page[p].version
<1>1. candidate[j][p] \in -1..MaxVersion /\ page[p].version \in 1..MaxVersion
  BY DEF StoreOK, Version
<1>2. CASE candidate[j][p] > 0
  <2>1. candidate[j][p] \in Version
    BY <1>1, <1>2 DEF Version
  <2> QED BY <1>1, <1>2, <2>1 DEF StoreOK
<1>3. CASE ~(candidate[j][p] > 0)
  BY <1>1, <1>3
<1> QED BY <1>2, <1>3

LEMMA SnapshotLoaded ==
  ASSUME StoreOK, NEW j \in Job, NEW p \in Page, candidate[j][p] > 0
  PROVE  LET on == RequireSnapshot(j, p)
         IN  on \in Baseline /\ snapshot[on.page][on.version] = on.body
<1>1. candidate[j][p] \in Version
  BY DEF StoreOK, Version
<1>2. snapshot[p][candidate[j][p]] \in Body
  BY <1>1 DEF StoreOK
<1> QED BY <1>1, <1>2 DEF RequireSnapshot, Baseline

(* What a call carries stays sound while the store grows around it.        *)
LEMMA Grows ==
  ASSUME StoreOK, StoreOK', NEW s \in CallState, Sound(s),
         PagesGrow, SnapshotsStay, CandidatesStay, claims \subseteq claims',
         s.step = "attach" /\ s.job \notin Parallel => candidate'[s.job] = candidate[s.job]
  PROVE  Sound(s)'
<1>1. s.step # "idle" => s.job \in Job
  BY DEF Sound, CallState
<1>2. s.step \in {"fetch", "attach"} => \A p \in s.todo : candidate'[s.job][p] # -1
  BY <1>1 DEF Sound, CallState, CandidatesStay
<1>3. ASSUME s.step = "attach"
      PROVE  s.on.version <= page'[s.on.page].version
  <2>1. s.on.page \in Page /\ s.on.version \in Nat
    BY <1>3 DEF Sound, Baseline, Version
  <2>2. page[s.on.page].version \in Nat /\ page'[s.on.page].version \in Nat
    BY <2>1, VersionsAreNumbers
  <2> QED BY <1>3, <2>1, <2>2 DEF Sound, PagesGrow
<1>4. s.step = "attach" /\ s.job \notin Parallel => candidate'[s.job][s.on.page] <= s.on.version
  BY DEF Sound
<1>5. s.step \in {"record", "create"} => snapshot'[s.on.page][s.on.version] = s.on.body
  BY DEF Sound, Baseline, SnapshotsStay
<1> QED BY <1>2, <1>3, <1>4, <1>5 DEF Sound

(* A call that does not move stays sound.                                  *)
LEMMA StaysSound ==
  ASSUME StoreOK, StoreOK', CallsSound, NEW d \in Call, call'[d] = call[d],
         PagesGrow, SnapshotsStay, CandidatesStay, claims \subseteq claims',
         call[d].step = "attach" /\ call[d].job \notin Parallel =>
           candidate'[call[d].job] = candidate[call[d].job]
  PROVE  Sound(call[d])'
<1>1. PICK s : s = call[d] OBVIOUS
<1>2. s \in CallState /\ Sound(s)
  BY <1>1, CallTyped
<1>3. Sound(s)'
  BY <1>1, <1>2, Grows
<1> QED BY <1>1, <1>3 DEF Sound

(* One call becomes sound, and the others stay as they are.                *)
LEMMA MovesSound ==
  ASSUME StoreOK, StoreOK', CallsSound, NEW c \in Call, NEW s, Becomes(c, s), Sound(s)',
         PagesGrow, SnapshotsStay, CandidatesStay, claims \subseteq claims',
         \A d \in Call \ {c} : call[d].step = "attach" /\ call[d].job \notin Parallel =>
           candidate'[call[d].job] = candidate[call[d].job]
  PROVE  CallsSound'
<1>1. call'[c] = s /\ \A d \in Call \ {c} : call'[d] = call[d]
  BY DEF Becomes, StoreOK
<1>2. Sound(call[c])'
  BY <1>1 DEF Sound
<1>3. ASSUME NEW d \in Call \ {c} PROVE Sound(call[d])'
  BY <1>1, StaysSound
<1> QED BY <1>2, <1>3 DEF CallsSound

LEMMA QuietSound ==
  ASSUME StoreOK, StoreOK', CallsSound, UNCHANGED <<candidate, call>>,
         PagesGrow, SnapshotsStay, claims \subseteq claims'
  PROVE  CallsSound'
<1>1. CandidatesStay
  BY DEF CandidatesStay
<1>2. ASSUME NEW d \in Call PROVE Sound(call[d])'
  BY <1>1, StaysSound
<1> QED BY <1>2 DEF CallsSound

(* Who may take up a job leaves every other job to one call.               *)
LEMMA MovesAlone ==
  ASSUME StoreOK, OneAtATime, NEW c \in Call, NEW s, Becomes(c, s),
         s.job \in Job \ Parallel /\ s.job # call[c].job => \A d \in Call : call[d].job # s.job
  PROVE  OneAtATime'
<1>1. call'[c] = s /\ \A d \in Call \ {c} : call'[d] = call[d]
  BY DEF Becomes, StoreOK
<1> QED BY <1>1 DEF OneAtATime

(* Records stay right while snapshots stay; their bodies are no None.      *)
LEMMA RecordsStay ==
  ASSUME StoreOK, SnapshotsStay, UNCHANGED records, BaselinesAreStored, ProposalsAreSupported
  PROVE  BaselinesAreStored' /\ ProposalsAreSupported'
<1>1. ProposalsAreSupported'
  BY DEF ProposalsAreSupported, records
<1>2. \A x \in claims \cup proposals : x.on # NoBaseline => x.on \in Baseline
  BY DEF StoreOK, ProposalsAreSupported, Claim
<1>3. BaselinesAreStored'
  BY <1>2 DEF BaselinesAreStored, records, Baseline, SnapshotsStay
<1> QED BY <1>1, <1>3

-----------------------------------------------------------------------------
(* Three kinds of steps: around the calls, of a call alone, and of a call  *)
(* and the candidates or snapshots.                                        *)

LEMMA QuietInv ==
  ASSUME Inv, StoreOK', UNCHANGED <<candidate, call, records>>, PagesGrow, SnapshotsStay
  PROVE  Inv'
<1>1. CallsSound'
  BY QuietSound DEF Inv, records
<1>2. OneAtATime'
  BY DEF Inv, OneAtATime
<1> QED BY <1>1, <1>2, RecordsStay DEF Inv

LEMMA MoveInv ==
  ASSUME Inv, StoreOK', NEW c \in Call, NEW s, Becomes(c, s), Sound(s)', UNCHANGED records,
         PagesGrow, SnapshotsStay, CandidatesStay,
         \A d \in Call \ {c} : call[d].step = "attach" /\ call[d].job \notin Parallel =>
           candidate'[call[d].job] = candidate[call[d].job],
         s.job \in Job \ Parallel /\ s.job # call[c].job => \A d \in Call : call[d].job # s.job
  PROVE  Inv'
<1>1. CallsSound'
  BY MovesSound DEF Inv, records
<1>2. OneAtATime'
  BY MovesAlone DEF Inv
<1> QED BY <1>1, <1>2, RecordsStay DEF Inv

LEMMA BecomesTyped ==
  ASSUME StoreOK, NEW c \in Call, NEW s \in CallState, Becomes(c, s)
  PROVE  call' \in [Call -> CallState]
BY DEF StoreOK, Becomes

LEMMA StoreUnchanged ==
  ASSUME StoreOK, UNCHANGED <<confluence, candidate, snapshot, records>>,
         call' \in [Call -> CallState], events' \in 0..MaxEvents
  PROVE  StoreOK' /\ PagesGrow /\ SnapshotsStay /\ CandidatesStay
<1>1. StoreOK'
  BY DEF StoreOK, confluence, records
<1>2. PagesGrow
  BY <1>1, VersionsAreNumbers DEF PagesGrow, confluence
<1> QED BY <1>1, <1>2 DEF SnapshotsStay, CandidatesStay

LEMMA CallMoves ==
  ASSUME Inv, NEW c \in Call, NEW s \in CallState, Becomes(c, s), Sound(s),
         UNCHANGED <<confluence, candidate, snapshot, records>>, events' \in 0..MaxEvents,
         s.job \in Job \ Parallel /\ s.job # call[c].job => \A d \in Call : call[d].job # s.job
  PROVE  Inv'
<1>1. StoreOK' /\ PagesGrow /\ SnapshotsStay /\ CandidatesStay
  BY BecomesTyped, StoreUnchanged DEF Inv
<1>2. Sound(s)'
  BY DEF Sound, confluence, records
<1> QED BY <1>1, <1>2, MoveInv

-----------------------------------------------------------------------------
(* The invariant holds at first.                                           *)
LEMMA InitInv == Init => Inv
<1> SUFFICES ASSUME Init PROVE Inv OBVIOUS
<1>1. StoreOK
  BY IdleIsSound DEF Init, StoreOK, Version
<1>2. BaselinesAreStored /\ ProposalsAreSupported
  BY DEF Init, BaselinesAreStored, ProposalsAreSupported
<1>3. CallsSound
  BY IdleIsSound DEF Init, CallsSound
<1>4. OneAtATime
  BY IdleIsSound DEF Init, OneAtATime
<1> QED BY <1>1, <1>2, <1>3, <1>4 DEF Inv

-----------------------------------------------------------------------------
(* Around the sessions.                                                    *)

LEMMA CountsEvent ==
  ASSUME StoreOK, events < MaxEvents, events' = events + 1
  PROVE  events' \in 0..MaxEvents
BY DEF StoreOK

LEMMA NextVersion ==
  ASSUME NEW v \in Version, v < MaxVersion
  PROVE  v + 1 \in Version /\ v <= v + 1 /\ \A w \in Version : w <= v => w <= v + 1
BY DEF Version

LEMMA PageMoves ==
  ASSUME Inv, NEW p \in Page, NEW v \in Version, NEW b \in Body, Happens,
         page' = [page EXCEPT ![p] = [version |-> v, body |-> b]],
         page[p].version <= v, \A w \in Version : w <= page[p].version => w <= v,
         UNCHANGED <<scope, active, call>>
  PROVE  Inv'
<1>1. page' \in [Page -> [version : Version, body : Body]]
  BY DEF Inv, StoreOK
<1>2. page'[p].version = v /\ \A q \in Page \ {p} : page'[q] = page[q]
  BY DEF Inv, StoreOK
<1>3. \A q \in Page, w \in Version : snapshot'[q][w] # None => w <= page'[q].version
  BY <1>2 DEF Inv, StoreOK, Happens
<1>4. StoreOK'
  BY <1>1, <1>3, CountsEvent DEF Inv, StoreOK, Happens, records
<1>5. PagesGrow
  BY <1>2, <1>4, VersionsAreNumbers DEF PagesGrow, Inv
<1>6. SnapshotsStay
  BY DEF SnapshotsStay, Happens
<1> QED BY <1>4, <1>5, <1>6, QuietInv DEF Happens, records

LEMMA PeoplePublishInv ==
  ASSUME Inv, NEW p \in Page, NEW b \in Body, PeoplePublish(p, b)
  PROVE  Inv'
<1>1. page[p].version \in Version /\ page[p].version < MaxVersion
  BY DEF Inv, StoreOK, PeoplePublish
<1>2. page' = [page EXCEPT ![p] = [version |-> page[p].version + 1, body |-> b]]
  BY DEF Inv, StoreOK, PeoplePublish
<1> QED BY <1>1, <1>2, NextVersion, PageMoves DEF PeoplePublish

LEMMA VersionChangesInv ==
  ASSUME Inv, NEW p \in Page, NEW b \in Body, VersionChanges(p, b)
  PROVE  Inv'
<1>1. page[p].version \in Version /\ page[p].version <= page[p].version
  BY VersionsAreNumbers DEF Inv, StoreOK, Version
<1>2. page' = [page EXCEPT ![p] = [version |-> page[p].version, body |-> b]]
  BY DEF Inv, StoreOK, VersionChanges
<1> QED BY <1>1, <1>2, PageMoves DEF VersionChanges

LEMMA ScopeOrActivityInv ==
  ASSUME Inv, Happens, UNCHANGED <<page, call>>,
         scope' \in [Job -> [Page -> {"exact", "root", "none"}]], active' \in [Job -> BOOLEAN]
  PROVE  Inv'
<1>1. StoreOK'
  BY CountsEvent DEF Inv, StoreOK, Happens, records
<1>2. PagesGrow
  BY <1>1, VersionsAreNumbers DEF PagesGrow, Inv
<1>3. SnapshotsStay
  BY DEF SnapshotsStay, Happens
<1> QED BY <1>1, <1>2, <1>3, QuietInv DEF Happens, records

LEMMA ScopeChangesInv ==
  ASSUME Inv, NEW j \in Job, NEW p \in Page, NEW kind \in {"exact", "root", "none"},
         ScopeChanges(j, p, kind)
  PROVE  Inv'
BY ScopeOrActivityInv DEF ScopeChanges, Inv, StoreOK

LEMMA ActivityChangesInv ==
  ASSUME Inv, NEW j \in Job, ActivityChanges(j)
  PROVE  Inv'
BY ScopeOrActivityInv DEF ActivityChanges, Inv, StoreOK

-----------------------------------------------------------------------------
(* Steps of a call alone.                                                  *)

(* A job that a call takes up is free, if its session makes one at a time. *)
LEMMA FreeJobs ==
  ASSUME NEW c \in Call, NEW j \in Job, Free(c, j)
  PROVE  j \in Job \ Parallel => \A d \in Call : call[d].job # j
BY DEF Free

LEMMA FailInv ==
  ASSUME Inv, NEW c \in Call, Fail(c)
  PROVE  Inv'
<1>1. UNCHANGED <<confluence, candidate, snapshot, records>> /\ events' \in 0..MaxEvents
  BY CountsEvent DEF Fail, Happens, Inv
<1>2. PICK s : s = Idle OBVIOUS
<1>3. s \in CallState /\ Sound(s) /\ Becomes(c, s) /\ s.job \notin Job
  BY <1>2, IdleIsSound DEF Fail
<1> QED BY <1>1, <1>3, CallMoves

LEMMA BeginSearchInv ==
  ASSUME Inv, NEW c \in Call, NEW j \in Job, BeginSearch(c, j)
  PROVE  Inv'
<1>1. PICK s : s = Searching("materialize", j, Exact(j), NoBaseline) OBVIOUS
<1>2. s \in CallState
  BY <1>1, SearchingTyped DEF Exact, Step
<1>3. s.step = "materialize" /\ s.job = j
  BY <1>1, SearchingFields
<1>4. Sound(s)
  BY <1>3 DEF Sound
<1>5. Becomes(c, s) /\ UNCHANGED <<confluence, candidate, snapshot, records, events>>
  BY <1>1 DEF BeginSearch
<1>6. events' \in 0..MaxEvents
  BY <1>5 DEF Inv, StoreOK
<1> QED BY <1>2, <1>3, <1>4, <1>5, <1>6, FreeJobs, CallMoves DEF BeginSearch

LEMMA FetchPageInv ==
  ASSUME Inv, NEW c \in Call, FetchPage(c)
  PROVE  Inv'
<1>1. call[c].step = "fetch" /\ call[c].job \in Job /\ Sound(call[c]) /\ call[c] \in CallState
  BY CallTyped DEF FetchPage, Inv
<1>2. PICK p \in call[c].todo :
        Becomes(c, Searching("attach", call[c].job, call[c].todo,
                             [page |-> p, version |-> page[p].version, body |-> page[p].body]))
  BY DEF FetchPage
<1>3. PICK j, todo, on, s :
        /\ j = call[c].job /\ todo = call[c].todo
        /\ on = [page |-> p, version |-> page[p].version, body |-> page[p].body]
        /\ s = Searching("attach", j, todo, on)
  OBVIOUS
<1>4. p \in Page /\ todo \in SUBSET Page /\ j \in Job
  BY <1>1, <1>2, <1>3 DEF CallState
<1>5. on \in Baseline /\ on.page = p /\ on.version = page[p].version
  BY <1>3, <1>4 DEF Inv, StoreOK, Baseline
<1>6. s \in CallState
  BY <1>3, <1>4, <1>5, SearchingTyped DEF Step
<1>7. s.step = "attach" /\ s.job = j /\ s.todo = todo /\ s.on = on
  BY <1>3, SearchingFields
<1>8. on.version <= page[on.page].version /\ candidate[j][on.page] <= on.version
  BY <1>4, <1>5, CandidatesFollowPages DEF Inv
<1>9. \A q \in todo : candidate[j][q] # -1
  BY <1>1, <1>3 DEF Sound
<1>10. Sound(s)
  BY <1>4, <1>5, <1>7, <1>8, <1>9, NoneAssumption DEF Sound
<1>11. Becomes(c, s) /\ UNCHANGED <<confluence, candidate, snapshot, records, events>>
  BY <1>2, <1>3 DEF FetchPage
<1>12. events' \in 0..MaxEvents
  BY <1>11 DEF Inv, StoreOK
<1> QED BY <1>3, <1>6, <1>7, <1>10, <1>11, <1>12, CallMoves

LEMMA LoadForEvidenceInv ==
  ASSUME Inv, NEW c \in Call, NEW j \in Job, NEW p \in Page, LoadForEvidence(c, j, p)
  PROVE  Inv'
<1>1. RequireSnapshot(j, p) \in Baseline
      /\ snapshot[RequireSnapshot(j, p).page][RequireSnapshot(j, p).version]
           = RequireSnapshot(j, p).body
  BY SnapshotLoaded DEF LoadForEvidence, Inv
<1>2. PICK on, s : on = RequireSnapshot(j, p) /\ s = Writing("record", j, on, {})
  OBVIOUS
<1>3. s \in CallState
  BY <1>1, <1>2, WritingTyped DEF Step
<1>4. s.step = "record" /\ s.job = j /\ s.on = on
  BY <1>2, WritingFields
<1>5. Sound(s)
  BY <1>1, <1>2, <1>4 DEF Sound
<1>6. Becomes(c, s) /\ UNCHANGED <<confluence, candidate, snapshot, records, events>>
  BY <1>2 DEF LoadForEvidence
<1>7. events' \in 0..MaxEvents
  BY <1>6 DEF Inv, StoreOK
<1> QED BY <1>3, <1>4, <1>5, <1>6, <1>7, FreeJobs, CallMoves DEF LoadForEvidence

LEMMA LoadForProposalInv ==
  ASSUME Inv, NEW c \in Call, NEW j \in Job, NEW p \in Page, LoadForProposal(c, j, p)
  PROVE  Inv'
<1>1. RequireSnapshot(j, p) \in Baseline
      /\ snapshot[RequireSnapshot(j, p).page][RequireSnapshot(j, p).version]
           = RequireSnapshot(j, p).body
  BY SnapshotLoaded DEF LoadForProposal, Inv
<1>2. PICK ids \in (SUBSET claims) \ {{}} :
        Becomes(c, Writing("create", j, RequireSnapshot(j, p), ids))
  BY DEF LoadForProposal
<1>3. PICK on, s : on = RequireSnapshot(j, p) /\ s = Writing("create", j, on, ids)
  OBVIOUS
<1>4. ids \in SUBSET Claim /\ ids # {} /\ ids \subseteq claims
  BY <1>2 DEF Inv, StoreOK
<1>5. s \in CallState
  BY <1>1, <1>3, <1>4, WritingTyped DEF Step
<1>6. s.step = "create" /\ s.job = j /\ s.on = on /\ s.evidence = ids
  BY <1>3, WritingFields
<1>7. Sound(s)
  BY <1>1, <1>3, <1>4, <1>6 DEF Sound, LoadForProposal
<1>8. Becomes(c, s) /\ UNCHANGED <<confluence, candidate, snapshot, records, events>>
  BY <1>2, <1>3 DEF LoadForProposal
<1>9. events' \in 0..MaxEvents
  BY <1>8 DEF Inv, StoreOK
<1> QED BY <1>5, <1>6, <1>7, <1>8, <1>9, FreeJobs, CallMoves DEF LoadForProposal

-----------------------------------------------------------------------------
(* Steps that write claims and proposals.                                  *)

(* A call that ends, with records that are right.                          *)
LEMMA WritesInv ==
  ASSUME Inv, NEW c \in Call, Becomes(c, Idle),
         UNCHANGED <<confluence, candidate, snapshot, events>>,
         claims \subseteq claims', claims' \subseteq Claim,
         \A x \in proposals' : x.evidence \subseteq claims' /\ x.evidence # {},
         BaselinesAreStored', ProposalsAreSupported'
  PROVE  Inv'
<1>1. PICK s : s = Idle OBVIOUS
<1>2. s \in CallState /\ Becomes(c, s) /\ s.job \notin Job /\ s.step = "idle" /\ s.job = None
  BY <1>1, IdleIsSound
<1>3. StoreOK'
  BY <1>2, BecomesTyped DEF Inv, StoreOK, confluence
<1>4. PagesGrow
  BY <1>3, VersionsAreNumbers DEF PagesGrow, confluence, Inv
<1>5. SnapshotsStay /\ CandidatesStay
  BY DEF SnapshotsStay, CandidatesStay
<1>6. Sound(s)'
  BY <1>2 DEF Sound
<1>7. CallsSound'
  BY <1>2, <1>3, <1>4, <1>5, <1>6, MovesSound DEF Inv
<1>8. OneAtATime'
  BY <1>2, MovesAlone DEF Inv
<1> QED BY <1>3, <1>7, <1>8 DEF Inv

LEMMA RecordEvidenceInv ==
  ASSUME Inv, NEW c \in Call, RecordEvidence(c)
  PROVE  Inv'
<1>1. /\ call[c].job \in Job /\ call[c].on \in Baseline
      /\ snapshot[call[c].on.page][call[c].on.version] = call[c].on.body
  BY CallTyped DEF RecordEvidence, Inv, Sound
<1>2. PICK claim : claim = [job |-> call[c].job, on |-> call[c].on] OBVIOUS
<1>3. claim \in Claim /\ claim.on = call[c].on
  BY <1>1, <1>2 DEF Claim
<1>4. claims' = claims \/ claims' = claims \cup {claim}
  BY <1>2 DEF RecordEvidence
<1>5. UNCHANGED <<confluence, candidate, snapshot, proposals, events>> /\ Becomes(c, Idle)
  BY DEF RecordEvidence
<1>6. claims \subseteq claims' /\ claims' \subseteq Claim
  BY <1>3, <1>4 DEF Inv, StoreOK
<1>7. \A x \in proposals' : x.evidence \subseteq claims' /\ x.evidence # {}
  BY <1>5, <1>6 DEF Inv, StoreOK
<1>8. BaselinesAreStored'
  BY <1>1, <1>3, <1>4, <1>5 DEF Inv, BaselinesAreStored
<1>9. ProposalsAreSupported'
  BY <1>5, <1>6 DEF Inv, ProposalsAreSupported
<1> QED BY <1>5, <1>6, <1>7, <1>8, <1>9, WritesInv

LEMMA CreateProposalInv ==
  ASSUME Inv, NEW c \in Call, CreateProposal(c)
  PROVE  Inv'
<1>1. /\ call[c].on \in Baseline
      /\ snapshot[call[c].on.page][call[c].on.version] = call[c].on.body
      /\ call[c].evidence # {} /\ call[c].evidence \subseteq claims
      /\ OccursOnce[call[c].on.body] # {}
  BY CallTyped DEF CreateProposal, Inv, Sound
<1>2. PICK proposal : proposal = [job |-> call[c].job, on |-> call[c].on,
                                  evidence |-> call[c].evidence]
  OBVIOUS
<1>3. /\ proposal.job = call[c].job /\ proposal.on = call[c].on
      /\ proposal.evidence = call[c].evidence
  BY <1>2
<1>4. \/ proposals' = proposals
      \/ /\ proposals' = proposals \cup {proposal}
         /\ OfJob(proposal.evidence, proposal.job)
         /\ CitesBaseline(proposal.evidence, proposal.on)
  BY <1>2 DEF CreateProposal
<1>5. UNCHANGED <<confluence, candidate, snapshot, claims, events>> /\ Becomes(c, Idle)
  BY DEF CreateProposal
<1>6. claims \subseteq claims' /\ claims' \subseteq Claim
  BY <1>5 DEF Inv, StoreOK
<1>7. \A x \in proposals' : x.evidence \subseteq claims' /\ x.evidence # {}
  BY <1>1, <1>3, <1>4, <1>5 DEF Inv, StoreOK
<1>8. BaselinesAreStored'
  BY <1>1, <1>3, <1>4, <1>5 DEF Inv, BaselinesAreStored
<1>9. ProposalsAreSupported'
  BY <1>1, <1>3, <1>4, <1>5 DEF Inv, ProposalsAreSupported, OfJob, CitesBaseline
<1> QED BY <1>5, <1>6, <1>7, <1>8, <1>9, WritesInv

(* The claims and proposals about the repository have no baseline.         *)
LEMMA QuietWritesInv ==
  ASSUME Inv, UNCHANGED <<confluence, candidate, snapshot, call, events>>,
         claims \subseteq claims', claims' \subseteq Claim,
         \A x \in proposals' : x.evidence \subseteq claims' /\ x.evidence # {},
         BaselinesAreStored', ProposalsAreSupported'
  PROVE  Inv'
<1>1. StoreOK'
  BY DEF Inv, StoreOK, confluence
<1>2. PagesGrow
  BY <1>1, VersionsAreNumbers DEF PagesGrow, confluence, Inv
<1>3. SnapshotsStay
  BY DEF SnapshotsStay
<1>4. CallsSound'
  BY <1>1, <1>2, <1>3, QuietSound DEF Inv
<1>5. OneAtATime'
  BY DEF Inv, OneAtATime
<1> QED BY <1>1, <1>4, <1>5 DEF Inv

LEMMA RecordRepositoryEvidenceInv ==
  ASSUME Inv, NEW j \in Job, RecordRepositoryEvidence(j)
  PROVE  Inv'
<1>1. PICK claim : claim = [job |-> j, on |-> NoBaseline] OBVIOUS
<1>2. claim \in Claim /\ claim.on = NoBaseline
  BY <1>1 DEF Claim
<1>3. claims' = claims \cup {claim} /\ UNCHANGED <<confluence, candidate, snapshot, proposals, call, events>>
  BY <1>1 DEF RecordRepositoryEvidence
<1>4. claims \subseteq claims' /\ claims' \subseteq Claim
  BY <1>2, <1>3 DEF Inv, StoreOK
<1>5. \A x \in proposals' : x.evidence \subseteq claims' /\ x.evidence # {}
  BY <1>3, <1>4 DEF Inv, StoreOK
<1>6. BaselinesAreStored'
  BY <1>2, <1>3 DEF Inv, BaselinesAreStored
<1>7. ProposalsAreSupported'
  BY <1>3, <1>4 DEF Inv, ProposalsAreSupported
<1> QED BY <1>3, <1>4, <1>5, <1>6, <1>7, QuietWritesInv

LEMMA CreateRepositoryProposalInv ==
  ASSUME Inv, NEW j \in Job, CreateRepositoryProposal(j)
  PROVE  Inv'
<1>1. PICK ids \in (SUBSET claims) \ {{}} :
        /\ OfJob(ids, j)
        /\ proposals' = proposals \cup {[job |-> j, on |-> NoBaseline, evidence |-> ids]}
  BY DEF CreateRepositoryProposal
<1>2. PICK proposal : proposal = [job |-> j, on |-> NoBaseline, evidence |-> ids] OBVIOUS
<1>3. proposal.job = j /\ proposal.on = NoBaseline /\ proposal.evidence = ids
  BY <1>2
<1>4. UNCHANGED <<confluence, candidate, snapshot, claims, call, events>>
  BY DEF CreateRepositoryProposal
<1>5. claims \subseteq claims' /\ claims' \subseteq Claim
  BY <1>4 DEF Inv, StoreOK
<1>6. \A x \in proposals' : x.evidence \subseteq claims' /\ x.evidence # {}
  BY <1>1, <1>2, <1>3, <1>4 DEF Inv, StoreOK
<1>7. BaselinesAreStored'
  BY <1>1, <1>2, <1>3, <1>4 DEF Inv, BaselinesAreStored
<1>8. ProposalsAreSupported'
  BY <1>1, <1>2, <1>3, <1>4 DEF Inv, ProposalsAreSupported, OfJob
<1> QED BY <1>4, <1>5, <1>6, <1>7, <1>8, QuietWritesInv

-----------------------------------------------------------------------------
(* Steps of a search that change candidates and snapshots.                 *)

LEMMA FetchingFields ==
  ASSUME NEW j \in Job, NEW todo \in SUBSET Page
  PROVE  LET s == Fetching(j, todo)
         IN  /\ s \in CallState
             /\ \/ s.step = "idle" /\ s.job = None
                \/ s.step = "fetch" /\ s.job = j /\ s.todo = todo
<1>1. CASE todo = {}
  <2>1. Fetching(j, todo) = Idle
    BY <1>1 DEF Fetching
  <2> QED BY <2>1, IdleIsSound
<1>2. CASE todo # {}
  BY <1>2, SearchingFields, SearchingTyped DEF Fetching, Step
<1> QED BY <1>1, <1>2

(* No other call of a session that makes one at a time is under way.       *)
LEMMA OthersElsewhere ==
  ASSUME Inv, NEW c \in Call, call[c].job \in Job, NEW d \in Call \ {c},
         call[d].step = "attach", call[d].job \notin Parallel
  PROVE  call[d].job \in Job /\ call[d].job # call[c].job
<1>1. call[d].job \in Job
  BY CallTyped DEF Inv
<1> QED BY <1>1 DEF Inv, OneAtATime

LEMMA MaterializeCandidatesInv ==
  ASSUME Inv, NEW c \in Call, MaterializeCandidates(c)
  PROVE  Inv' /\ \A j \in Job, p \in Page : candidate[j][p] <= candidate'[j][p]
<1>1. call[c].job \in Job
  BY CallTyped DEF MaterializeCandidates, Inv
<1>2. PICK j, todo, upserted, s :
        /\ j = call[c].job
        /\ upserted = [p \in Page |-> IF p \in call[c].todo /\ candidate[j][p] = -1
                                        THEN 0 ELSE candidate[j][p]]
        /\ todo = {p \in Page : upserted[p] # -1}
        /\ s = Fetching(j, todo)
  OBVIOUS
<1>3. j \in Job /\ todo \in SUBSET Page
  BY <1>1, <1>2
<1>4. candidate' = [candidate EXCEPT ![j] = upserted] /\ Becomes(c, s)
  BY <1>2 DEF MaterializeCandidates
<1>5. UNCHANGED <<confluence, snapshot, records, events>>
  BY DEF MaterializeCandidates
<1>6. \A p \in Page : candidate[j][p] \in -1..MaxVersion
  BY <1>3 DEF Inv, StoreOK
<1>7. /\ upserted \in [Page -> -1..MaxVersion]
      /\ \A p \in Page : \/ upserted[p] = candidate[j][p]
                         \/ upserted[p] = 0 /\ candidate[j][p] = -1
  BY <1>2, <1>6
<1>8. /\ candidate'[j] = upserted
      /\ \A k \in Job \ {j} : candidate'[k] = candidate[k]
      /\ candidate' \in [Job -> [Page -> -1..MaxVersion]]
  BY <1>3, <1>4, <1>7 DEF Inv, StoreOK
<1>9. \A k \in Job, p \in Page :
        \/ candidate'[k][p] = candidate[k][p]
        \/ candidate'[k][p] = 0 /\ candidate[k][p] = -1
  BY <1>7, <1>8
<1>10. s \in CallState
       /\ \/ s.step = "idle" /\ s.job = None
          \/ s.step = "fetch" /\ s.job = j /\ s.todo = todo
  <2>1. s = Fetching(j, todo)
    BY <1>2
  <2> QED BY <1>3, <2>1, FetchingFields
<1>11. ASSUME NEW k \in Job, NEW p \in Page, candidate'[k][p] > 0
       PROVE  snapshot'[p][candidate'[k][p]] # None
  <2>1. candidate'[k][p] = candidate[k][p]
    BY <1>9, <1>11
  <2>2. snapshot[p][candidate[k][p]] # None
    BY <1>11, <2>1 DEF Inv, StoreOK
  <2> QED BY <1>5, <2>1, <2>2
<1>12. call' \in [Call -> CallState]
  BY <1>4, <1>10, BecomesTyped DEF Inv
<1>13. StoreOK'
  BY <1>5, <1>8, <1>11, <1>12 DEF Inv, StoreOK, confluence, records
<1>14. PagesGrow
  BY <1>5, <1>13, VersionsAreNumbers DEF PagesGrow, confluence, Inv
<1>15. SnapshotsStay /\ CandidatesStay
  BY <1>5, <1>9 DEF SnapshotsStay, CandidatesStay
<1>16. Sound(s)'
  <2>1. \A p \in todo : candidate'[j][p] # -1
    BY <1>2, <1>8
  <2> QED BY <1>3, <1>10, <2>1, NoneAssumption DEF Sound
<1>17. ASSUME NEW d \in Call \ {c}, call[d].step = "attach", call[d].job \notin Parallel
       PROVE  candidate'[call[d].job] = candidate[call[d].job]
  <2>1. call[d].job \in Job /\ call[d].job # call[c].job
    BY <1>1, <1>17, OthersElsewhere
  <2> QED BY <1>2, <1>8, <2>1
<1>18. s.job \in Job => s.job = call[c].job
  BY <1>2, <1>10, NoneAssumption
<1>19. UNCHANGED records
  BY <1>5
<1>20. Inv'
  BY <1>4, <1>13, <1>14, <1>15, <1>16, <1>17, <1>18, <1>19, MoveInv
<1>21. ASSUME NEW k \in Job, NEW p \in Page PROVE candidate[k][p] <= candidate'[k][p]
  <2>1. candidate[k][p] \in -1..MaxVersion /\ candidate'[k][p] \in -1..MaxVersion
    BY <1>8 DEF Inv, StoreOK
  <2> QED BY <1>9, <2>1
<1> QED BY <1>20, <1>21

LEMMA AttachSnapshotInv ==
  ASSUME Inv, NEW c \in Call, AttachSnapshot(c)
  PROVE  /\ Inv'
         /\ \A j \in Job \ Parallel, p \in Page : candidate[j][p] <= candidate'[j][p]
<1>1. PICK j, todo, on : j = call[c].job /\ todo = call[c].todo /\ on = call[c].on
  OBVIOUS
<1>2. /\ call[c].step = "attach" /\ call[c] \in CallState /\ Sound(call[c])
      /\ j \in Job /\ todo \in SUBSET Page
  BY <1>1, CallTyped DEF AttachSnapshot, Inv, CallState
<1>3. /\ on \in Baseline /\ on.page \in Page /\ on.version \in Version /\ on.body \in Body
      /\ on.version <= page[on.page].version
      /\ j \notin Parallel => candidate[j][on.page] <= on.version
      /\ \A p \in todo : candidate[j][p] # -1
  BY <1>1, <1>2 DEF Sound, Baseline
<1>4. UNCHANGED <<confluence, records, events>>
  BY DEF AttachSnapshot
<1>5. CASE Becomes(c, Idle) /\ UNCHANGED <<snapshot, candidate>>
  <2>1. PICK s : s = Idle OBVIOUS
  <2>2. s \in CallState /\ Sound(s) /\ Becomes(c, s) /\ s.job \notin Job
    BY <1>5, <2>1, IdleIsSound
  <2>3. events' \in 0..MaxEvents
    BY <1>4 DEF Inv, StoreOK
  <2>4. Inv'
    BY <1>4, <1>5, <2>2, <2>3, CallMoves
  <2>5. ASSUME NEW k \in Job, NEW p \in Page PROVE candidate[k][p] <= candidate'[k][p]
    <3>1. candidate[k][p] \in -1..MaxVersion
      BY DEF Inv, StoreOK
    <3> QED BY <1>5, <3>1
  <2> QED BY <2>4, <2>5
<1>6. CASE /\ snapshot[on.page][on.version] \in {None, on.body}
           /\ snapshot' = [snapshot EXCEPT ![on.page][on.version] = on.body]
           /\ candidate' = [candidate EXCEPT ![j][on.page] = on.version]
           /\ Attached(c)
  <2>1. PICK s : s = Fetching(j, todo \ {on.page}) OBVIOUS
  <2>2. Becomes(c, s)
    BY <1>1, <1>6, <2>1 DEF Attached
  <2>3. s \in CallState
        /\ \/ s.step = "idle" /\ s.job = None
           \/ s.step = "fetch" /\ s.job = j /\ s.todo = todo \ {on.page}
    <3>1. PICK rest \in SUBSET Page : rest = todo \ {on.page}
      BY <1>2
    <3>2. j \in Job /\ s = Fetching(j, rest)
      BY <1>2, <2>1, <3>1
    <3>3. /\ s \in CallState
          /\ \/ s.step = "idle" /\ s.job = None
             \/ s.step = "fetch" /\ s.job = j /\ s.todo = rest
      BY <3>2, FetchingFields
    <3> QED BY <3>1, <3>3
  <2>4. /\ snapshot' \in [Page -> [Version -> Body \cup {None}]]
        /\ snapshot'[on.page][on.version] = on.body
        /\ \A p \in Page, v \in Version :
             p # on.page \/ v # on.version => snapshot'[p][v] = snapshot[p][v]
    BY <1>3, <1>6 DEF Inv, StoreOK
  <2>5. on.version \in -1..MaxVersion /\ on.version # -1
    BY <1>3 DEF Version
  <2>6. /\ candidate' \in [Job -> [Page -> -1..MaxVersion]]
        /\ candidate'[j][on.page] = on.version
        /\ \A k \in Job, p \in Page :
             k # j \/ p # on.page => candidate'[k][p] = candidate[k][p]
        /\ \A k \in Job \ {j} : candidate'[k] = candidate[k]
    BY <1>2, <1>3, <1>6, <2>5 DEF Inv, StoreOK
  <2>7. SnapshotsStay
    BY <1>6, <2>4 DEF SnapshotsStay
  <2>8. CandidatesStay
    BY <2>5, <2>6 DEF CandidatesStay
  <2>9. \A p \in Page, v \in Version : snapshot'[p][v] # None => v <= page'[p].version
    BY <1>3, <1>4, <2>4 DEF Inv, StoreOK, confluence
  <2>10. ASSUME NEW k \in Job, NEW p \in Page, candidate'[k][p] > 0
         PROVE  snapshot'[p][candidate'[k][p]] # None
    <3>1. CASE k = j /\ p = on.page
      BY <1>3, <2>4, <2>6, <3>1, NoneAssumption
    <3>2. CASE k # j \/ p # on.page
      <4>1. candidate'[k][p] = candidate[k][p]
        BY <2>6, <3>2
      <4>2. candidate[k][p] \in Version
        BY <2>10, <4>1 DEF Inv, StoreOK, Version
      <4>3. snapshot[p][candidate[k][p]] # None
        BY <2>10, <4>1 DEF Inv, StoreOK
      <4> QED BY <2>7, <4>1, <4>2, <4>3 DEF SnapshotsStay
    <3> QED BY <3>1, <3>2
  <2>11. call' \in [Call -> CallState]
    BY <2>2, <2>3, BecomesTyped DEF Inv
  <2>12. StoreOK'
    BY <1>4, <2>4, <2>6, <2>9, <2>10, <2>11 DEF Inv, StoreOK, confluence, records
  <2>13. PagesGrow
    BY <1>4, <2>12, VersionsAreNumbers DEF PagesGrow, confluence, Inv
  <2>14. Sound(s)'
    <3>1. \A p \in todo \ {on.page} : candidate'[j][p] # -1
      BY <1>2, <1>3, <2>8 DEF CandidatesStay
    <3> QED BY <1>2, <2>3, <3>1, NoneAssumption DEF Sound
  <2>15. ASSUME NEW d \in Call \ {c}, call[d].step = "attach", call[d].job \notin Parallel
         PROVE  candidate'[call[d].job] = candidate[call[d].job]
    <3>1. call[d].job \in Job /\ call[d].job # call[c].job
      BY <1>1, <1>2, <2>15, OthersElsewhere
    <3> QED BY <1>1, <2>6, <3>1
  <2>16. s.job \in Job => s.job = call[c].job
    BY <1>1, <2>3, NoneAssumption
  <2>17. UNCHANGED records
    BY <1>4
  <2>18. Inv'
    BY <2>2, <2>7, <2>8, <2>12, <2>13, <2>14, <2>15, <2>16, <2>17, MoveInv
  <2>19. ASSUME NEW k \in Job \ Parallel, NEW p \in Page
         PROVE  candidate[k][p] <= candidate'[k][p]
    <3>1. candidate[k][p] \in -1..MaxVersion
      BY DEF Inv, StoreOK
    <3>2. (k = j /\ p = on.page) \/ candidate'[k][p] = candidate[k][p]
      BY <2>6
    <3> QED BY <1>3, <2>6, <3>1, <3>2
  <2> QED BY <2>18, <2>19
<1> QED BY <1>1, <1>5, <1>6 DEF AttachSnapshot

-----------------------------------------------------------------------------
(* Every step keeps the invariant, and takes no candidate back.            *)

LEMMA CandidatesUnchanged ==
  ASSUME Inv, UNCHANGED candidate
  PROVE  \A j \in Job \ Parallel, p \in Page : candidate[j][p] <= candidate'[j][p]
<1>1. ASSUME NEW j \in Job \ Parallel, NEW p \in Page PROVE candidate[j][p] <= candidate'[j][p]
  <2>1. candidate[j][p] \in -1..MaxVersion
    BY DEF Inv, StoreOK
  <2> QED BY <2>1
<1> QED BY <1>1

LEMMA StepInv ==
  ASSUME Inv, [Next]_vars
  PROVE  Inv' /\ \A j \in Job \ Parallel, p \in Page : candidate[j][p] <= candidate'[j][p]
<1>1. CASE UNCHANGED vars
  <2>1. StoreOK' /\ PagesGrow /\ SnapshotsStay
    BY <1>1, StoreUnchanged DEF vars, Inv, StoreOK
  <2>2. Inv'
    BY <1>1, <2>1, QuietInv DEF vars, records
  <2> QED BY <1>1, <2>2, CandidatesUnchanged DEF vars
<1>2. ASSUME NEW c \in Call, MaterializeCandidates(c)
      PROVE  Inv' /\ \A j \in Job \ Parallel, p \in Page : candidate[j][p] <= candidate'[j][p]
  BY <1>2, MaterializeCandidatesInv
<1>3. ASSUME NEW c \in Call, AttachSnapshot(c)
      PROVE  Inv' /\ \A j \in Job \ Parallel, p \in Page : candidate[j][p] <= candidate'[j][p]
  BY <1>3, AttachSnapshotInv
<1>4. ASSUME NEW c \in Call,
             \/ FetchPage(c) \/ RecordEvidence(c) \/ CreateProposal(c) \/ Fail(c)
             \/ \E j \in Job : \/ BeginSearch(c, j)
                               \/ \E p \in Page : LoadForEvidence(c, j, p) \/ LoadForProposal(c, j, p)
      PROVE  Inv' /\ UNCHANGED candidate
  <2>1. Inv'
    BY <1>4, FetchPageInv, RecordEvidenceInv, CreateProposalInv, FailInv, BeginSearchInv,
       LoadForEvidenceInv, LoadForProposalInv
  <2>2. UNCHANGED candidate
    BY <1>4 DEF FetchPage, RecordEvidence, CreateProposal, Fail, Happens, BeginSearch,
                LoadForEvidence, LoadForProposal
  <2> QED BY <2>1, <2>2
<1>5. ASSUME NEW j \in Job,
             \/ RecordRepositoryEvidence(j) \/ CreateRepositoryProposal(j) \/ ActivityChanges(j)
             \/ \E p \in Page, kind \in {"exact", "root", "none"} : ScopeChanges(j, p, kind)
      PROVE  Inv' /\ UNCHANGED candidate
  <2>1. Inv'
    BY <1>5, RecordRepositoryEvidenceInv, CreateRepositoryProposalInv, ActivityChangesInv,
       ScopeChangesInv
  <2>2. UNCHANGED candidate
    BY <1>5 DEF RecordRepositoryEvidence, CreateRepositoryProposal, ActivityChanges,
                ScopeChanges, Happens
  <2> QED BY <2>1, <2>2
<1>6. ASSUME NEW p \in Page, NEW b \in Body, PeoplePublish(p, b) \/ VersionChanges(p, b)
      PROVE  Inv' /\ UNCHANGED candidate
  BY <1>6, PeoplePublishInv, VersionChangesInv DEF PeoplePublish, VersionChanges, Happens
<1> QED BY <1>1, <1>2, <1>3, <1>4, <1>5, <1>6, CandidatesUnchanged DEF Next, CallStep

LEMMA InvHolds == Spec => []Inv
<1>1. Init => Inv
  BY InitInv
<1>2. Inv /\ [Next]_vars => Inv'
  BY StepInv
<1> QED BY <1>1, <1>2, PTL DEF Spec

-----------------------------------------------------------------------------
(* Every reachable state of the review is well typed: candidates point to  *)
(* stored snapshots of versions that the page has had.                     *)
THEOREM ReviewTypeCorrect == Spec => []TypeOK
BY InvHolds, InvTyped, PTL

(* What a claim or a proposal cites is stored as it was cited, for good,   *)
(* however many jobs share the snapshots of a page.                        *)
THEOREM BaselinesStayStored == Spec => []BaselinesAreStored
<1>1. Inv => BaselinesAreStored
  BY DEF Inv
<1> QED BY <1>1, InvHolds, PTL

(* A stored page proposal rests on a claim of its own job about its very   *)
(* baseline, whatever is attached while it is being made.                  *)
THEOREM ProposalsStaySupported == Spec => []ProposalsAreSupported
<1>1. Inv => ProposalsAreSupported
  BY DEF Inv
<1> QED BY <1>1, InvHolds, PTL

(* In a session that makes one call at a time, no search takes a candidate *)
(* back to an older version.                                               *)
THEOREM CandidatesOnlyAdvance == Spec => CandidatesNeverGoBack
<1>1. Inv /\ Inv' /\ [Next]_vars =>
        [\A j \in Job \ Parallel, p \in Page : candidate'[j][p] >= candidate[j][p]]_vars
  <2> SUFFICES ASSUME Inv, Inv', [Next]_vars
               PROVE  \A j \in Job \ Parallel, p \in Page : candidate'[j][p] >= candidate[j][p]
    OBVIOUS
  <2>1. ASSUME NEW j \in Job \ Parallel, NEW p \in Page
        PROVE  candidate'[j][p] >= candidate[j][p]
    <3>1. candidate[j][p] <= candidate'[j][p]
      BY StepInv
    <3>2. candidate[j][p] \in -1..MaxVersion /\ candidate'[j][p] \in -1..MaxVersion
      BY DEF Inv, StoreOK
    <3> QED BY <3>1, <3>2
  <2> QED BY <2>1
<1> QED BY <1>1, InvHolds, PTL DEF Spec, CandidatesNeverGoBack
=============================================================================
