-------------------------- MODULE InventoryRefresh --------------------------
(***************************************************************************)
(* The registry's copy of the GitHub App installation: a scheduled refresh *)
(* takes its time stamp, reads the pages of the installation, then the     *)
(* head of each default branch, and stores the snapshot in one             *)
(* transaction.  Refreshes may overlap, and GitHub changes all the while.  *)
(*                                                                         *)
(* A repository is its immutable GitHub ID.  Requests address it by name;  *)
(* a name leads to the repository that has it or, as GitHub redirects, to  *)
(* the one that had it last.                                               *)
(***************************************************************************)
EXTENDS Integers, Sequences, FiniteSets

CONSTANTS
  Repo,        \* GitHub IDs
  Name,        \* full names
  Unborn,      \* the name of a repository before it is created
  Deleted,     \* ... and after it is deleted
  Position,    \* GitHub lists repositories in the order of their positions
  InitialName, \* the names at the start: these repositories are installed
  Public,      \* repositories that can be read from outside the installation
  Change,      \* what may happen on GitHub, and to which repository
  Call,        \* scheduled refreshes, each starting again when it ended
  PageSize,    \* repositories on a page of the installation
  MaxHead,     \* heads of a default branch
  MaxEvents,   \* changes on GitHub and refreshes that die or whose requests fail
  MaxTime      \* clock ticks

ASSUME RepoAssumption == IsFiniteSet(Repo)
ASSUME PositionAssumption ==
  Position \in [Repo -> Nat] /\ \A q, r \in Repo : Position[q] = Position[r] => q = r
ASSUME InitialNameAssumption ==
  /\ InitialName \in [Repo -> Name \cup {Unborn}]
  /\ \A q, r \in Repo : InitialName[q] = InitialName[r] /\ InitialName[q] # Unborn => q = r
ASSUME NoNameAssumption == Unborn \notin Name /\ Deleted \notin Name /\ Unborn # Deleted
ASSUME PublicAssumption == Public \subseteq Repo
ASSUME PageSizeAssumption == PageSize \in Nat \ {0}
ASSUME BoundsAssumption ==
  MaxHead \in Nat \ {0} /\ MaxEvents \in Nat /\ MaxTime \in Nat \ {0}

VARIABLES
  github,    \* name, head (0 without a commit) and archive state
  installed, \* the repositories of the installation
  leadsTo,   \* the repositories a request for a name reaches: one or none
  changed,   \* when GitHub last changed something about a repository
  registry,  \* the row of each repository; at = 0 when it has none
  call,      \* where each refresh is, its time stamp and what it has read
  now, events

outside == <<github, installed, leadsTo, changed>>
vars == <<outside, registry, call, now, events>>

Entry == [repo : Repo, name : Name, archived : BOOLEAN, head : 0..MaxHead]
Row == [name : Name \cup {Unborn}, head : 0..MaxHead, accessible : BOOLEAN,
        archived : BOOLEAN, at : 0..MaxTime]
Step == {"idle", "listing", "reading heads", "storing"}
Refresh == [step : Step, at : 0..MaxTime, total : -1..Cardinality(Repo), listed : Seq(Entry)]

NoRow == [name |-> Unborn, head |-> 0, accessible |-> FALSE, archived |-> FALSE, at |-> 0]
Idle == [step |-> "idle", at |-> 0, total |-> -1, listed |-> <<>>]

TypeOK ==
  /\ github \in [Repo -> [name : Name \cup {Unborn, Deleted}, head : 0..MaxHead,
                          archived : BOOLEAN]]
  /\ installed \subseteq Repo
  /\ leadsTo \in [Name -> SUBSET Repo]
  /\ changed \in [Repo -> 0..MaxTime]
  /\ registry \in [Repo -> Row]
  /\ call \in [Call -> Refresh]
  /\ \A c \in Call :
       /\ \A i, j \in DOMAIN call[c].listed :
            call[c].listed[i].repo = call[c].listed[j].repo => i = j
       /\ call[c].step = "storing" => \A i \in DOMAIN call[c].listed : call[c].listed[i].head # 0
  /\ now \in 1..MaxTime
  /\ events \in 0..MaxEvents

Init ==
  /\ github = [r \in Repo |-> [name |-> InitialName[r],
                               head |-> IF InitialName[r] = Unborn THEN 0 ELSE 1,
                               archived |-> FALSE]]
  /\ installed = {r \in Repo : InitialName[r] # Unborn}
  /\ leadsTo = [n \in Name |-> {r \in Repo : InitialName[r] = n}]
  /\ changed = [r \in Repo |-> 0]
  /\ registry = [r \in Repo |-> NoRow]
  /\ call = [c \in Call |-> Idle]
  /\ now = 1
  /\ events = 0

-----------------------------------------------------------------------------
(* GitHub.                                                                 *)

Exists(r) == github[r].name \in Name

Changes(what, r) ==
  /\ <<what, r>> \in Change
  /\ events < MaxEvents
  /\ events' = events + 1
  /\ changed' = [changed EXCEPT ![r] = now]
  /\ UNCHANGED <<registry, call, now>>

Push(r) ==
  /\ Changes("push", r)
  /\ Exists(r) /\ github[r].head < MaxHead
  /\ github' = [github EXCEPT ![r].head = @ + 1]
  /\ UNCHANGED <<installed, leadsTo>>

Archive(r) ==
  /\ Changes("archive", r)
  /\ Exists(r)
  /\ github' = [github EXCEPT ![r].archived = ~@]
  /\ UNCHANGED <<installed, leadsTo>>

(* No two repositories have a name at the same time.                       *)
TakesName(r, n) ==
  /\ \A q \in Repo : github[q].name # n
  /\ leadsTo' = [leadsTo EXCEPT ![n] = {r}]

Rename(r, n) ==
  /\ Changes("rename", r)
  /\ Exists(r)
  /\ TakesName(r, n)
  /\ github' = [github EXCEPT ![r].name = n]
  /\ UNCHANGED installed

(* An installation covers new repositories from the start.  They have a    *)
(* first commit or are still empty.                                        *)
Create(r, n) ==
  /\ Changes("create", r)
  /\ github[r].name = Unborn
  /\ TakesName(r, n)
  /\ \E h \in {0, 1} : github' = [github EXCEPT ![r] = [name |-> n, head |-> h, archived |-> FALSE]]
  /\ installed' = installed \cup {r}

Delete(r) ==
  /\ Changes("delete", r)
  /\ Exists(r)
  /\ github' = [github EXCEPT ![r].name = Deleted]
  /\ leadsTo' = [n \in Name |-> leadsTo[n] \ {r}]
  /\ installed' = installed \ {r}

Install(r) ==
  /\ Changes("install", r)
  /\ Exists(r) /\ r \notin installed
  /\ installed' = installed \cup {r}
  /\ UNCHANGED <<github, leadsTo>>

Remove(r) ==
  /\ Changes("remove", r)
  /\ r \in installed
  /\ installed' = installed \ {r}
  /\ UNCHANGED <<github, leadsTo>>

GitHubChanges ==
  \E r \in Repo :
    \/ Push(r) \/ Archive(r) \/ Delete(r) \/ Install(r) \/ Remove(r)
    \/ \E n \in Name : Rename(r, n) \/ Create(r, n)

-----------------------------------------------------------------------------
(* A refresh.                                                              *)

Becomes(c, state) == call' = [call EXCEPT ![c] = state]
Ends(c) == Becomes(c, Idle)

(* The schedule takes the time before anything is read.                    *)
Start(c) ==
  /\ call[c].step = "idle"
  /\ Becomes(c, [Idle EXCEPT !.step = "listing", !.at = now])
  /\ UNCHANGED <<outside, registry, now, events>>

(* How many repositories of the installation GitHub lists before this one. *)
Place(r) == Cardinality({q \in installed : Position[q] < Position[r]})

(* The page that follows the full pages read so far.                       *)
Page(c) ==
  LET before == Len(call[c].listed)
      rest == Cardinality(installed) - before
      at(i) == CHOOSE r \in installed : Place(r) = before + i - 1
  IN  [i \in 1..(IF rest < PageSize THEN rest ELSE PageSize) |->
         [repo |-> at(i), name |-> github[at(i)].name,
          archived |-> github[at(i)].archived, head |-> 0]]

(* Mutant: the count GitHub reports is not compared from page to page.     *)
ListPageUncounted(c) ==
  /\ call[c].step = "listing"
  /\ LET listed == call[c].listed \o Page(c)
     IN  IF Len(Page(c)) < PageSize
           THEN Becomes(c, [call[c] EXCEPT !.listed = listed, !.step =
                              IF listed = <<>> THEN "storing" ELSE "reading heads"])
           ELSE Becomes(c, [call[c] EXCEPT !.listed = listed])
  /\ UNCHANGED <<outside, registry, now, events>>

(* One page: the reported count must stay the same, no repository may come *)
(* twice, and the last page is the one that completes the count.           *)
ListPage(c) ==
  /\ call[c].step = "listing"
  /\ LET page == Page(c)
         total == Cardinality(installed)
         expected == IF call[c].total = -1 THEN total ELSE call[c].total
         listed == call[c].listed \o page
         again == \E i \in DOMAIN call[c].listed, j \in DOMAIN page :
                    call[c].listed[i].repo = page[j].repo
         read(step) == [step |-> step, at |-> call[c].at, total |-> expected, listed |-> listed]
     IN  IF total # expected \/ again THEN Ends(c)
         ELSE IF Len(listed) = expected
           THEN Becomes(c, read(IF listed = <<>> THEN "storing" ELSE "reading heads"))
         ELSE IF page = <<>> \/ Len(listed) > expected THEN Ends(c)
         ELSE Becomes(c, read("listing"))
  /\ UNCHANGED <<outside, registry, now, events>>

Readable(q) == (q \in installed \/ q \in Public) /\ github[q].head # 0

(* Workers read the heads side by side, by name; one that is missing ends  *)
(* the refresh.                                                            *)
ReadHead(c, i) ==
  /\ call[c].step = "reading heads"
  /\ i \in DOMAIN call[c].listed
  /\ call[c].listed[i].head = 0
  /\ LET reached == {q \in leadsTo[call[c].listed[i].name] : Readable(q)}
         read(q) == [call[c].listed EXCEPT ![i].head = github[q].head]
         complete(listed) == \A j \in DOMAIN listed : listed[j].head # 0
     IN  \/ reached = {} /\ Ends(c)
         \/ \E q \in reached :
              Becomes(c, [call[c] EXCEPT !.listed = read(q), !.step =
                            IF complete(read(q)) THEN "storing" ELSE @])
  /\ UNCHANGED <<outside, registry, now, events>>

(* A row takes what is as new as itself; a new row takes anything.         *)
Applies(c, r) == registry[r].at <= call[c].at

(* Names are unique in the snapshot, and in the table after each row of    *)
(* the upsert, which goes through the snapshot in order.                   *)
NameTwice(c) ==
  \E i, j \in DOMAIN call[c].listed : i # j /\ call[c].listed[i].name = call[c].listed[j].name

Written(c, i, r) == \E j \in 1..(i - 1) : call[c].listed[j].repo = r /\ Applies(c, r)

NameTaken(c) ==
  \E i \in DOMAIN call[c].listed :
    LET e == call[c].listed[i]
    IN  /\ Applies(c, e.repo)
        /\ \E r \in Repo \ {e.repo} : registry[r].name = e.name /\ ~Written(c, i, r)

(* Mutant: the update of a known row leaves its access as it is.           *)
StoredKeepingAccess(e, at) ==
  [name |-> e.name, head |-> e.head, archived |-> e.archived, at |-> at,
   accessible |-> registry[e.repo].at = 0 \/ registry[e.repo].accessible]

Stored(e, at) ==
  [name |-> e.name, head |-> e.head, accessible |-> TRUE, archived |-> e.archived, at |-> at]

(* Mutant: rows absent from a snapshot lose access, however new they are.  *)
RevokedAnyway(c, r) == registry[r].accessible

(* Rows absent from the snapshot lose access, unless they are newer.       *)
Revoked(c, r) == registry[r].accessible /\ Applies(c, r)

AfterSnapshot(c, r) ==
  LET entries == {i \in DOMAIN call[c].listed : call[c].listed[i].repo = r}
  IN  IF entries # {}
        THEN IF Applies(c, r) THEN Stored(call[c].listed[CHOOSE i \in entries : TRUE], call[c].at)
                              ELSE registry[r]
        ELSE IF Revoked(c, r) THEN [registry[r] EXCEPT !.accessible = FALSE, !.at = call[c].at]
                              ELSE registry[r]

(* One transaction: all rows, or none when a name is taken.                *)
Synchronize(c) ==
  /\ call[c].step = "storing"
  /\ registry' = IF NameTwice(c) \/ NameTaken(c) THEN registry
                 ELSE [r \in Repo |-> AfterSnapshot(c, r)]
  /\ Ends(c)
  /\ UNCHANGED <<outside, now, events>>

(* A request fails, the transaction fails, or the process dies.            *)
Fail(c) ==
  /\ call[c].step # "idle"
  /\ events < MaxEvents
  /\ events' = events + 1
  /\ Ends(c)
  /\ UNCHANGED <<outside, registry, now>>

CallStep(c) ==
  ListPage(c) \/ (\E i \in DOMAIN call[c].listed : ReadHead(c, i)) \/ Synchronize(c)

Tick ==
  /\ now < MaxTime
  /\ now' = now + 1
  /\ UNCHANGED <<outside, registry, call, events>>

Next ==
  \/ \E c \in Call : Start(c) \/ CallStep(c) \/ Fail(c)
  \/ GitHubChanges
  \/ Tick

Spec == Init /\ [][Next]_vars

(* The schedule keeps coming, and a refresh goes on unless it fails.       *)
FairSpec == Spec /\ \A c \in Call : WF_vars(Start(c)) /\ WF_vars(CallStep(c))

-----------------------------------------------------------------------------
(* Properties.                                                             *)

Agrees(r) ==
  registry[r].accessible /\ \A f \in {"name", "head", "archived"} : registry[r][f] = github[r][f]

TwoChanged(t) == \E p, q \in Repo : p # q /\ changed[p] >= t /\ changed[q] >= t

(* Overlapping refreshes, pages and heads read one by one, and the guards  *)
(* on each row.  A row with access shows what GitHub has, unless its       *)
(* repository changed since the refresh that wrote the row began.  And no  *)
(* repository is missing or behind after a refresh that began when it had  *)
(* already changed last, unless two others changed meanwhile: one that     *)
(* leaves and one that comes, between two pages, hide a third.             *)
MirrorsTheNewestRefresh ==
  /\ \A r \in Repo :
       registry[r].accessible /\ changed[r] < registry[r].at => r \in installed /\ Agrees(r)
  /\ \A r \in installed, q \in Repo :
       changed[r] < registry[q].at => Agrees(r) \/ TwoChanged(registry[q].at)

Mirrored == \A r \in Repo : IF r \in installed THEN Agrees(r) ELSE ~registry[r].accessible

HeadsReadable == \A r \in installed : Readable(r)
NamesFree == \A r \in installed, q \in Repo : registry[q].name = github[r].name => q = r

(* The registry catches up with GitHub: when every repository of the       *)
(* installation has a commit and no other row holds its name, nothing      *)
(* keeps refreshes from becoming complete, and no late one undoes it.      *)
EventuallyMirrored == <>[](HeadsReadable /\ NamesFree) => <>[]Mirrored
=============================================================================
