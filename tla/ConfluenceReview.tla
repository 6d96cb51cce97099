-------------------------- MODULE ConfluenceReview --------------------------
(***************************************************************************)
(* The Confluence side of a review.  Sessions search the exact pages of    *)
(* their job's scope, which stores what Confluence returns as a snapshot   *)
(* shared by all jobs, record claims about the snapshots and propose        *)
(* replacements.  A session may have several tool calls under way; pages,  *)
(* scopes and leases change between their steps.  Tools that only read     *)
(* what is stored change nothing and are left out.                         *)
(***************************************************************************)
EXTENDS Integers, FiniteSets

CONSTANTS
  Job, Page,
  Position,    \* of pages, ordered by label
  Body,        \* what may be on a page
  InitialBody,
  Fragment,    \* fragments of storage format
  OccursOnce,  \* the fragments that occur exactly once in a body
  None,        \* no snapshot, no page
  Call,        \* tool calls, each starting again when it ended
  Parallel,    \* jobs whose sessions have several tool calls under way
  ExactLimit,  \* exact pages a scope may have
  MaxVersion,  \* versions of a page
  MaxClaims,   \* claims, in all
  MaxProposals,
  MaxEvents    \* changes around the sessions, and failures

ASSUME PositionAssumption ==
  /\ Position \in [Page -> Nat]
  /\ \A p, q \in Page : Position[p] = Position[q] => p = q
ASSUME BodyAssumption == InitialBody \in Body /\ OccursOnce \in [Body -> SUBSET Fragment]
ASSUME ParallelAssumption == Parallel \subseteq Job
ASSUME NoneAssumption == None \notin Page \cup Body \cup Job
ASSUME BoundsAssumption ==
  /\ ExactLimit \in Nat /\ MaxVersion \in Nat \ {0}
  /\ MaxClaims \in Nat /\ MaxProposals \in Nat /\ MaxEvents \in Nat

VARIABLES
  page,      \* in Confluence: version and body
  scope,     \* the documents of the job's repository: "exact", "root" or "none"
  active,    \* leased, with an eligible repository and a resolved scope
  candidate, \* the version a job's candidate points to; 0: none yet, -1: no candidate
  snapshot,  \* the stored body of each version, or None
  claims, proposals,
  call,      \* where each tool call is
  events

confluence == <<page, scope, active>>
records == <<claims, proposals>>
vars == <<confluence, candidate, snapshot, records, call, events>>

Version == 1..MaxVersion
Exact(j) == {p \in Page : scope[j][p] = "exact"}
Declared(j) == {p \in Page : scope[j][p] # "none"}

(* A claim about a page cites its version and body; one about a file of    *)
(* the repository has no page.                                             *)
Baseline == [page : Page, version : Version, body : Body]
NoBaseline == [page |-> None, version |-> 0, body |-> None]
Claim == [job : Job, on : Baseline \cup {NoBaseline}]

Step == {"idle", "materialize", "fetch", "attach", "record", "create"}

(* A search has pages to do: those that become candidates, and then the    *)
(* candidates to fetch.  A write has its baseline and the claims it names. *)
Searching(step, j, todo, on) ==
  [step |-> step, job |-> j, todo |-> todo, on |-> on, evidence |-> {}]
Writing(step, j, on, ids) ==
  [step |-> step, job |-> j, todo |-> {}, on |-> on, evidence |-> ids]
Idle == Writing("idle", None, NoBaseline, {})

CallState == [step : Step, job : Job \cup {None}, todo : SUBSET Page,
              on : Baseline \cup {NoBaseline}, evidence : SUBSET Claim]

TypeOK ==
  /\ page \in [Page -> [version : Version, body : Body]]
  /\ scope \in [Job -> [Page -> {"exact", "root", "none"}]]
  /\ active \in [Job -> BOOLEAN]
  /\ snapshot \in [Page -> [Version -> Body \cup {None}]]
  /\ \A p \in Page, v \in Version : snapshot[p][v] # None => v <= page[p].version
  /\ candidate \in [Job -> [Page -> -1..MaxVersion]]
  /\ \A j \in Job, p \in Page : candidate[j][p] > 0 => snapshot[p][candidate[j][p]] # None
  /\ claims \subseteq Claim
  /\ \A x \in proposals : x.evidence \subseteq claims /\ x.evidence # {}
  /\ call \in [Call -> CallState]
  /\ \A c \in Call :
       /\ call[c].step = "idle" <=> call[c].job = None
       /\ call[c].step \in {"attach", "record", "create"} => call[c].on # NoBaseline
       /\ call[c].step \in {"fetch", "attach"} =>
            \A p \in call[c].todo : candidate[call[c].job][p] # -1
  /\ events \in 0..MaxEvents

Init ==
  /\ page = [p \in Page |-> [version |-> 1, body |-> InitialBody]]
  /\ scope = [j \in Job |-> [p \in Page |-> "exact"]]
  /\ active = [j \in Job |-> TRUE]
  /\ candidate = [j \in Job |-> [p \in Page |-> -1]]
  /\ snapshot = [p \in Page |-> [v \in Version |-> None]]
  /\ claims = {}
  /\ proposals = {}
  /\ call = [c \in Call |-> Idle]
  /\ events = 0

-----------------------------------------------------------------------------
(* Around the sessions.                                                    *)

Happens ==
  /\ events < MaxEvents
  /\ events' = events + 1
  /\ UNCHANGED <<candidate, snapshot, records>>

PeoplePublish(p, b) ==
  /\ Happens
  /\ page[p].version < MaxVersion
  /\ page' = [page EXCEPT ![p] = [version |-> @.version + 1, body |-> b]]
  /\ UNCHANGED <<scope, active, call>>

(* Confluence renders a version differently than before.                   *)
VersionChanges(p, b) ==
  /\ Happens
  /\ page[p].body # b
  /\ page' = [page EXCEPT ![p] = [version |-> @.version, body |-> b]]
  /\ UNCHANGED <<scope, active, call>>

(* A refresh stores another scope for the repository of a job.             *)
ScopeChanges(j, p, kind) ==
  /\ Happens
  /\ scope[j][p] # kind
  /\ scope' = [scope EXCEPT ![j][p] = kind]
  /\ UNCHANGED <<page, active, call>>

(* The lease ends, or the repository stops being eligible; or it is back.  *)
ActivityChanges(j) ==
  /\ Happens
  /\ active' = [active EXCEPT ![j] = ~@]
  /\ UNCHANGED <<page, scope, call>>

-----------------------------------------------------------------------------
(* search_document_index: the job's exact pages become candidates; then    *)
(* every candidate of the job is fetched and its snapshot attached.        *)

Becomes(c, state) == call' = [call EXCEPT ![c] = state]

Free(c, j) ==
  /\ call[c].step = "idle"
  /\ j \in Parallel \/ \A d \in Call : call[d].job # j

BeginSearch(c, j) ==
  /\ Free(c, j)
  /\ active[j]
  /\ Cardinality(Exact(j)) <= ExactLimit
  /\ Becomes(c, Searching("materialize", j, Exact(j), NoBaseline))
  /\ UNCHANGED <<confluence, candidate, snapshot, records, events>>

(* A search that has nothing to do any more ends.                          *)
Fetching(j, todo) == IF todo = {} THEN Idle ELSE Searching("fetch", j, todo, NoBaseline)

(* The candidates include those of earlier searches.                       *)
MaterializeCandidates(c) ==
  /\ call[c].step = "materialize"
  /\ LET j == call[c].job
         upserted == [p \in Page |-> IF p \in call[c].todo /\ candidate[j][p] = -1
                                       THEN 0 ELSE candidate[j][p]]
     IN  /\ candidate' = [candidate EXCEPT ![j] = upserted]
         /\ Becomes(c, Fetching(j, {p \in Page : upserted[p] # -1}))
  /\ UNCHANGED <<confluence, snapshot, records, events>>

FetchPage(c) ==
  /\ call[c].step = "fetch"
  /\ \E p \in call[c].todo :
       /\ \A q \in call[c].todo : Position[p] <= Position[q]
       /\ Becomes(c, Searching("attach", call[c].job, call[c].todo,
                               [page |-> p, version |-> page[p].version, body |-> page[p].body]))
  /\ UNCHANGED <<confluence, candidate, snapshot, records, events>>

Attached(c) == Becomes(c, Fetching(call[c].job, call[c].todo \ {call[c].on.page}))

(* Mutant: what Confluence returns now replaces what is stored.            *)
AttachNewestSnapshot(c) ==
  /\ call[c].step = "attach"
  /\ LET on == call[c].on
     IN  /\ snapshot' = [snapshot EXCEPT ![on.page][on.version] = on.body]
         /\ candidate' = [candidate EXCEPT ![call[c].job][on.page] = on.version]
  /\ Attached(c)
  /\ UNCHANGED <<confluence, records, events>>

(* Mutant: the oldest stored version of the page is attached.              *)
AttachAnySnapshot(c) ==
  /\ call[c].step = "attach"
  /\ LET on == call[c].on
         kept == [snapshot[on.page] EXCEPT ![on.version] = IF @ = None THEN on.body ELSE @]
         v == CHOOSE v \in Version : kept[v] # None /\ \A w \in 1..(v - 1) : kept[w] = None
     IN  /\ snapshot' = [snapshot EXCEPT ![on.page] = kept]
         /\ candidate' = [candidate EXCEPT ![call[c].job][on.page] = v]
  /\ Attached(c)
  /\ UNCHANGED <<confluence, records, events>>

(* Mutant: a candidate points to a version that was not stored.            *)
AttachUnstored(c) ==
  /\ call[c].step = "attach"
  /\ candidate' = [candidate EXCEPT ![call[c].job][call[c].on.page] = call[c].on.version]
  /\ Attached(c)
  /\ UNCHANGED <<confluence, snapshot, records, events>>

(* The first body of a version stays; another one fails the search.        *)
AttachSnapshot(c) ==
  /\ call[c].step = "attach"
  /\ LET on == call[c].on
         stored == snapshot[on.page][on.version]
     IN  IF stored \notin {None, on.body}
           THEN Becomes(c, Idle) /\ UNCHANGED <<snapshot, candidate>>
           ELSE /\ snapshot' = [snapshot EXCEPT ![on.page][on.version] = on.body]
                /\ candidate' = [candidate EXCEPT ![call[c].job][on.page] = on.version]
                /\ Attached(c)
  /\ UNCHANGED <<confluence, records, events>>

-----------------------------------------------------------------------------
(* Claims and proposals: the candidate is loaded, and what it says now is  *)
(* written in a later transaction.  An exact replay changes nothing.       *)

RequireSnapshot(j, p) ==
  [page |-> p, version |-> candidate[j][p], body |-> snapshot[p][candidate[j][p]]]

LoadForEvidence(c, j, p) ==
  /\ Free(c, j)
  /\ candidate[j][p] > 0
  /\ Becomes(c, Writing("record", j, RequireSnapshot(j, p), {}))
  /\ UNCHANGED <<confluence, candidate, snapshot, records, events>>

RecordEvidence(c) ==
  /\ call[c].step = "record"
  /\ LET claim == [job |-> call[c].job, on |-> call[c].on]
     IN  claims' = IF active[claim.job] /\ claim.on.page \in Declared(claim.job)
                     THEN claims \cup {claim} ELSE claims
  /\ Cardinality(claims') <= MaxClaims
  /\ Becomes(c, Idle)
  /\ UNCHANGED <<confluence, candidate, snapshot, proposals, events>>

RecordRepositoryEvidence(j) ==
  /\ active[j]
  /\ claims' = claims \cup {[job |-> j, on |-> NoBaseline]}
  /\ Cardinality(claims') <= MaxClaims
  /\ UNCHANGED <<confluence, candidate, snapshot, proposals, call, events>>

(* The fragment must occur exactly once in the snapshot; the session names *)
(* any claims it likes.                                                    *)
LoadForProposal(c, j, p) ==
  /\ Free(c, j)
  /\ candidate[j][p] > 0
  /\ OccursOnce[RequireSnapshot(j, p).body] # {}
  /\ \E ids \in (SUBSET claims) \ {{}} :
       Becomes(c, Writing("create", j, RequireSnapshot(j, p), ids))
  /\ UNCHANGED <<confluence, candidate, snapshot, records, events>>

OfJob(ids, j) == \A claim \in ids : claim.job = j

(* Mutant: any claim about the page will do.                               *)
CitesPage(ids, on) == \E claim \in ids : claim.on.page = on.page

(* Some claim is about exactly this version and body.                      *)
CitesBaseline(ids, on) == \E claim \in ids : claim.on = on

CreateProposal(c) ==
  /\ call[c].step = "create"
  /\ LET proposal == [job |-> call[c].job, on |-> call[c].on, evidence |-> call[c].evidence]
     IN  proposals' = IF /\ active[proposal.job]
                         /\ proposal.on.page \in Declared(proposal.job)
                         /\ OfJob(proposal.evidence, proposal.job)
                         /\ CitesBaseline(proposal.evidence, proposal.on)
                        THEN proposals \cup {proposal} ELSE proposals
  /\ Cardinality(proposals') <= MaxProposals
  /\ Becomes(c, Idle)
  /\ UNCHANGED <<confluence, candidate, snapshot, claims, events>>

CreateRepositoryProposal(j) ==
  /\ active[j]
  /\ \E ids \in (SUBSET claims) \ {{}} :
       /\ OfJob(ids, j)
       /\ proposals' = proposals \cup {[job |-> j, on |-> NoBaseline, evidence |-> ids]}
  /\ Cardinality(proposals') <= MaxProposals
  /\ UNCHANGED <<confluence, candidate, snapshot, claims, call, events>>

(* A request or a transaction fails, the page is gone, or the call dies.   *)
Fail(c) ==
  /\ call[c].step # "idle"
  /\ Happens
  /\ Becomes(c, Idle)
  /\ UNCHANGED confluence

CallStep(c) ==
  \/ MaterializeCandidates(c) \/ FetchPage(c) \/ AttachSnapshot(c)
  \/ RecordEvidence(c) \/ CreateProposal(c) \/ Fail(c)
  \/ \E j \in Job :
       \/ BeginSearch(c, j)
       \/ \E p \in Page : LoadForEvidence(c, j, p) \/ LoadForProposal(c, j, p)

Next ==
  \/ \E c \in Call : CallStep(c)
  \/ \E j \in Job :
       \/ RecordRepositoryEvidence(j) \/ CreateRepositoryProposal(j) \/ ActivityChanges(j)
       \/ \E p \in Page, kind \in {"exact", "root", "none"} : ScopeChanges(j, p, kind)
  \/ \E p \in Page, b \in Body : PeoplePublish(p, b) \/ VersionChanges(p, b)

Spec == Init /\ [][Next]_vars

-----------------------------------------------------------------------------
(* Properties.                                                             *)

(* What claims and proposals cite is stored as they cite it, for good,     *)
(* whatever other jobs find under the same version later.                  *)
BaselinesAreStored ==
  \A x \in claims \cup proposals :
    x.on # NoBaseline => snapshot[x.on.page][x.on.version] = x.on.body

(* A proposal for a page rests on a claim of its own job about the very    *)
(* version and body it is to be applied to, although a search may attach   *)
(* another snapshot between any two steps; and its fragment is unique.     *)
ProposalsAreSupported ==
  \A x \in proposals :
    /\ \A claim \in x.evidence : claim \in claims /\ claim.job = x.job
    /\ x.on # NoBaseline =>
         /\ \E claim \in x.evidence : claim.on = x.on
         /\ OccursOnce[x.on.body] # {}

(* In a session that makes one call at a time, a candidate never goes back *)
(* to an older version, whatever other jobs store and however slow a       *)
(* search is.                                                              *)
CandidatesNeverGoBack ==
  [][\A j \in Job \ Parallel, p \in Page : candidate'[j][p] >= candidate[j][p]]_vars
=============================================================================
