---------------------------- MODULE ScopeRefresh ----------------------------
(***************************************************************************)
(* The registry's copy of the Roadie catalog.  A scheduled refresh takes   *)
(* its time stamp, stores the inventory, selects a bounded batch of        *)
(* repositories, and resolves and stores one after the other.  Refreshes   *)
(* may overlap, and the catalog and the names change all the while.        *)
(*                                                                         *)
(* Instead of times, rows and refreshes have ages, which a tick raises     *)
(* together; a row is as old as the time stamp of the refresh that wrote   *)
(* it.                                                                     *)
(***************************************************************************)
EXTENDS RoadieScope, Sequences

CONSTANTS
  Repo, Name,   \* rows of the registry and their repository names
  InitialName,
  GithubId,     \* GitHub IDs, as numbers that compare as they do
  Catalogs,     \* what the catalog may be
  Usual,        \* the catalog that changes lead away from or back to
  Malformed,    \* names whose component the client's schema rejects
  Call,         \* scheduled refreshes, each starting again when it ended
  Limit,        \* roadieRefreshLimit
  Interval,     \* roadieRefreshIntervalMs
  MaxCallAge,   \* how long a refresh may take
  MaxEvents     \* changes of catalog and registry, and failures

ASSUME RepoAssumption == IsFiniteSet(Repo)
ASSUME InitialNameAssumption == InitialName \in [Repo -> Name]
ASSUME GithubIdAssumption ==
  GithubId \in [Repo -> Nat] /\ \A q, r \in Repo : GithubId[q] = GithubId[r] => q = r
ASSUME UsualAssumption == Usual \in Catalogs /\ Malformed \subseteq Name
(* A reference leads to one entity; what the client's schema lets through. *)
ASSUME CatalogAssumption ==
  \A entities \in Catalogs :
    /\ IsFiniteSet(entities)
    /\ \A d, e \in entities : d.ref = e.ref => d = e
    /\ \A e \in entities :
         /\ IsFiniteSet(e.partOf) /\ IsFiniteSet(e.ownedBy)
         /\ \A l \in e.links : l.type \in {"exact", "root", "other"}
ASSUME BatchAssumption == Limit \in Nat \ {0} /\ Interval \in Nat
ASSUME BoundsAssumption == MaxCallAge \in Nat /\ MaxEvents \in Nat

VARIABLES
  row,     \* name, Roadie status, diagnostic, scope, age, and whether it is
           \* accessible, not archived and not paused
  catalog,
  settled, \* ticks since the catalog changed
  call,    \* where each refresh is
  events

vars == <<row, catalog, settled, call, events>>

Never == -1                     \* NULL
MaxAge == Interval + MaxCallAge + 1
Older(age) == IF age = Never THEN Never ELSE Min({age + 1, MaxAge})

(* Steps of a refresh: before the batch is selected, and then what is next *)
(* for the head of the batch.                                              *)
Step == {"idle", "inventory", "target", "components", "system", "owner", "store"}

Idle == [step |-> "idle", age |-> 0, batch |-> <<>>, name |-> None, read |-> <<>>,
         verdict |-> Trusted]

Pending == [status |-> "PENDING", diagnostic |-> None, scope |-> None, age |-> Never]

Entity == UNION Catalogs

(* Every scope that some moments of some catalogs could add up to.         *)
Scopes == {Scope(n, c, s, o) : n \in Name, c, s, o \in Entity}

Row ==
  LET Columns(status, diagnostics, scopes, ages) ==
        [name : Name, active : BOOLEAN, status : {status}, diagnostic : diagnostics,
         scope : scopes, age : ages]
  IN  Columns("PENDING", {None}, {None}, {Never})
        \cup Columns("REPO_ONLY", Diagnostic, {None}, 0..MaxAge)
        \cup Columns("RESOLVED", {None}, Scopes, 0..MaxAge)

Refresh == [step : Step, age : 0..MaxCallAge, batch : Seq(Repo), name : Name \cup {None},
            read : Seq(Entity), verdict : Diagnostic \cup {Trusted}]

TypeOK ==
  /\ row \in [Repo -> Row]
  /\ catalog \in Catalogs
  /\ settled \in 0..MaxAge
  /\ call \in [Call -> Refresh]
  /\ \A c \in Call :
       /\ Len(call[c].batch) <= Limit /\ IsInjective(call[c].batch)
       /\ call[c].step = "store" /\ call[c].verdict = Trusted => Len(call[c].read) = 3
  /\ events \in 0..MaxEvents

Init ==
  /\ row = [r \in Repo |-> [name |-> InitialName[r], active |-> TRUE, status |-> "PENDING",
                           diagnostic |-> None, scope |-> None, age |-> Never]]
  /\ catalog \in Catalogs
  /\ settled = MaxAge
  /\ call = [c \in Call |-> Idle]
  /\ events = 0

-----------------------------------------------------------------------------
(* Around the refreshes.                                                   *)

Happens == events < MaxEvents /\ events' = events + 1

CatalogChanges ==
  /\ Happens
  /\ catalog' \in Catalogs \ {catalog}
  /\ Usual \in {catalog, catalog'}
  /\ settled' = 0
  /\ UNCHANGED <<row, call>>

(* What a resolution sets.                                                 *)
Projected(r, p) ==
  [row[r] EXCEPT !.status = p.status, !.diagnostic = p.diagnostic, !.scope = p.scope, !.age = p.age]

(* An inventory snapshot with a new name clears what depends on the name.  *)
Renamed(r, n) == [Projected(r, Pending) EXCEPT !.name = n]

InventoryRenames(r, n) ==
  /\ Happens
  /\ \A q \in Repo : row[q].name # n
  /\ row' = [row EXCEPT ![r] = Renamed(r, n)]
  /\ UNCHANGED <<catalog, settled, call>>

(* A repository is archived, paused or removed, or comes back.             *)
ActivityChanges(r) ==
  /\ Happens
  /\ row' = [row EXCEPT ![r].active = ~@]
  /\ UNCHANGED <<catalog, settled, call>>

Tick ==
  /\ \A c \in Call : call[c].step # "idle" => call[c].age < MaxCallAge
  /\ row' = [r \in Repo |-> [row[r] EXCEPT !.age = Older(@)]]
  /\ settled' = Older(settled)
  /\ call' = [c \in Call |-> IF call[c].step = "idle" THEN Idle
                             ELSE [call[c] EXCEPT !.age = @ + 1]]
  /\ UNCHANGED <<catalog, events>>

-----------------------------------------------------------------------------
(* A refresh.                                                              *)

Becomes(c, state) == call' = [call EXCEPT ![c] = state]
Reads(c, state) == Becomes(c, state) /\ UNCHANGED <<row, catalog, settled, events>>

Start(c) ==
  /\ call[c].step = "idle"
  /\ Reads(c, [Idle EXCEPT !.step = "inventory"])

(* Mutant: a resolved repository is not looked at again.                   *)
StaleUnlessResolved(r, age) ==
  row[r].status = "REPO_ONLY" /\ row[r].age - age > Interval

(* Older than the interval when the refresh began.                         *)
Stale(r, age) == row[r].age - age > Interval

Candidates(age) == {r \in Repo : row[r].active /\ (row[r].status = "PENDING" \/ Stale(r, age))}

Rank(r) == CASE row[r].status = "PENDING" -> 0 [] row[r].status = "REPO_ONLY" -> 1 [] OTHER -> 2

(* Pending ones, then repo-only ones, then resolved ones; the oldest first.*)
Before(r, q) ==
  \/ Rank(r) < Rank(q)
  \/ Rank(r) = Rank(q) /\ row[r].age > row[q].age
  \/ Rank(r) = Rank(q) /\ row[r].age = row[q].age /\ GithubId[r] < GithubId[q]

(* Those before the i-th of the batch are the first i - 1.                 *)
SelectBatch(c) ==
  /\ call[c].step = "inventory"
  /\ LET candidates == Candidates(call[c].age)
     IN  \E batch \in [1..Min({Limit, Cardinality(candidates)}) -> candidates] :
           /\ \A i \in DOMAIN batch, r \in candidates :
                Before(r, batch[i]) <=> \E j \in 1..(i - 1) : batch[j] = r
           /\ Reads(c, IF batch = <<>> THEN Idle
                       ELSE [call[c] EXCEPT !.step = "target", !.batch = batch])

(* The repository at the head is done with, one way or the other.          *)
WithNext(state) ==
  IF Len(state.batch) = 1 THEN Idle
  ELSE [Idle EXCEPT !.step = "target", !.age = state.age, !.batch = Tail(state.batch)]

Repository(c) == Head(call[c].batch)

GetResolutionTarget(c) ==
  /\ call[c].step = "target"
  /\ Reads(c, [call[c] EXCEPT !.step = "components", !.name = row[Repository(c)].name])

(* An entity was read: the resolver goes on, or has its verdict.           *)
Goes(c, verdict, entities, step) ==
  Reads(c, IF verdict = Trusted
             THEN [call[c] EXCEPT !.step = step, !.read = Append(@, The(entities))]
             ELSE [call[c] EXCEPT !.step = "store", !.verdict = verdict, !.read = <<>>])

FindComponents(c) ==
  /\ call[c].step = "components"
  /\ LET components == findComponentsByName(catalog, call[c].name)
     IN  IF call[c].name \in Malformed THEN Reads(c, WithNext(call[c]))
         ELSE Goes(c, ComponentVerdict(components, call[c].name),
                   Declaring(components, call[c].name), "system")

ReadSystem(c) ==
  /\ call[c].step = "system"
  /\ LET component == call[c].read[1]
         systems == getEntityByRef(catalog, The(component.partOf))
     IN  Goes(c, SystemVerdict(component, systems), systems, "owner")

ReadOwner(c) ==
  /\ call[c].step = "owner"
  /\ LET component == call[c].read[1]
         owners == getEntityByRef(catalog, The(component.ownedBy))
     IN  Goes(c, OwnerVerdict(component, call[c].read[2], owners), owners, "store")

(* Mutant: the scope trusted before stays when nothing can be trusted.     *)
ProjectionKeepingScope(c) ==
  IF call[c].verdict = Trusted
    THEN [status |-> "RESOLVED", diagnostic |-> None, age |-> call[c].age,
          scope |-> Scope(call[c].name, call[c].read[1], call[c].read[2], call[c].read[3])]
    ELSE [status |-> "REPO_ONLY", diagnostic |-> call[c].verdict, age |-> call[c].age,
          scope |-> row[Repository(c)].scope]

(* What is stored: fail closed, or the scope.  The age is the refresh's.   *)
Projection(c) ==
  IF call[c].verdict = Trusted
    THEN [status |-> "RESOLVED", diagnostic |-> None, age |-> call[c].age,
          scope |-> Scope(call[c].name, call[c].read[1], call[c].read[2], call[c].read[3])]
    ELSE [status |-> "REPO_ONLY", diagnostic |-> call[c].verdict, age |-> call[c].age,
          scope |-> None]

(* Mutant: the row is found by its ID alone.                               *)
ApplyResolutionUnchecked(c) ==
  /\ call[c].step = "store"
  /\ row' = [row EXCEPT ![Repository(c)] = Projected(Repository(c), Projection(c))]
  /\ Becomes(c, WithNext(call[c]))
  /\ UNCHANGED <<catalog, settled, events>>

(* Mutant: the age counts from the write.                                  *)
ApplyResolutionAsOfNow(c) ==
  /\ call[c].step = "store"
  /\ LET r == Repository(c)
     IN  row' = IF row[r].name = call[c].name
                  THEN [row EXCEPT ![r] = Projected(r, [Projection(c) EXCEPT !.age = 0])] ELSE row
  /\ Becomes(c, WithNext(call[c]))
  /\ UNCHANGED <<catalog, settled, events>>

(* The row must still have the name that was resolved.                     *)
ApplyResolution(c) ==
  /\ call[c].step = "store"
  /\ LET r == Repository(c)
     IN  row' = IF row[r].name = call[c].name
                  THEN [row EXCEPT ![r] = Projected(r, Projection(c))] ELSE row
  /\ Becomes(c, WithNext(call[c]))
  /\ UNCHANGED <<catalog, settled, events>>

(* A request or a transaction for the repository at the head fails: the    *)
(* refresh goes on with the next one.                                      *)
CandidateFails(c) ==
  /\ Happens
  /\ call[c].step \notin {"idle", "inventory"}
  /\ Becomes(c, WithNext(call[c]))
  /\ UNCHANGED <<row, catalog, settled>>

(* The inventory or the selection fails, or the process dies.              *)
RefreshFails(c) ==
  /\ Happens
  /\ call[c].step # "idle"
  /\ Becomes(c, Idle)
  /\ UNCHANGED <<row, catalog, settled>>

CallStep(c) ==
  \/ SelectBatch(c) \/ GetResolutionTarget(c)
  \/ FindComponents(c) \/ ReadSystem(c) \/ ReadOwner(c) \/ ApplyResolution(c)

Next ==
  \/ \E c \in Call : Start(c) \/ CallStep(c) \/ CandidateFails(c) \/ RefreshFails(c)
  \/ CatalogChanges
  \/ \E r \in Repo : ActivityChanges(r) \/ \E n \in Name : InventoryRenames(r, n)
  \/ Tick

Spec == Init /\ [][Next]_vars

(* Time goes on, the schedule keeps coming and a refresh that does not     *)
(* fail goes on.                                                           *)
FairSpec ==
  /\ Spec
  /\ WF_vars(Tick)
  /\ \A c \in Call : WF_vars(Start(c)) /\ WF_vars(CallStep(c))

-----------------------------------------------------------------------------
(* Properties.                                                             *)

(* The scope and channel that reviews use were resolved for the name the   *)
(* repository has, whatever renames and late resolutions come between.     *)
ScopeIsForItsName == \A r \in Repo : row[r].scope # None => row[r].scope.repository = row[r].name

AsInCatalog(r) ==
  LET scopes == TrustedScopes(catalog, row[r].name)
  IN  IF scopes = {} THEN row[r].status = "REPO_ONLY"
      ELSE row[r].status = "RESOLVED" /\ row[r].scope \in scopes

(* A row does not claim to be fresher than it is: one younger than the     *)
(* last change of the catalog is what the catalog says.  The resolver      *)
(* reads its entities one by one, and slow refreshes overwrite newer ones. *)
AgeIsTruthful == \A r \in Repo : row[r].age # Never /\ row[r].age < settled => AsInCatalog(r)

(* Every repository that can be resolved gets the scope the catalog gives  *)
(* it, for good, although others fail, and although late resolutions       *)
(* overwrite newer ones: a batch has room for all.                         *)
ScopesConverge ==
  Limit >= Cardinality(Repo) =>
    \A r \in Repo : <>[](row[r].active /\ row[r].name \notin Malformed) => <>[]AsInCatalog(r)
=============================================================================
