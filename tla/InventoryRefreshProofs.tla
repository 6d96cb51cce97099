----------------------- MODULE InventoryRefreshProofs -----------------------
(***************************************************************************)
(* Proofs about InventoryRefresh, for any repositories, names, page size,  *)
(* calls and bounds: every snapshot that is stored, complete or hiding a   *)
(* repository, leaves the registry as MirrorsTheNewestRefresh says.        *)
(***************************************************************************)
EXTENDS InventoryRefresh, FiniteSetTheorems, SequenceTheorems, TLAPS

(* Nothing is newer than the clock.                                        *)
NothingNewer == \A r \in Repo : changed[r] <= now /\ registry[r].at <= now

(* Names lead to the repositories that have them, one each.                *)
NamesLead ==
  /\ \A r \in installed : github[r].name \in Name
  /\ \A r \in Repo : github[r].name \in Name => leadsTo[github[r].name] = {r}
  /\ \A q, r \in Repo : github[q].name = github[r].name /\ github[q].name \in Name => q = r

(* In the state s of a refresh, each repository is listed once, and the    *)
(* heads are there before they are stored.                                 *)
WellFormed(s) ==
  /\ s \in Refresh
  /\ \A i, j \in DOMAIN s.listed : s.listed[i].repo = s.listed[j].repo => i = j
  /\ s.step = "storing" => \A i \in DOMAIN s.listed : s.listed[i].head # 0

Lists(s, r) == \E i \in DOMAIN s.listed : s.listed[i].repo = r

(* What was read of a repository that has not changed since is right.      *)
EntryIsRight(e, at) ==
  changed[e.repo] < at =>
    /\ e.repo \in installed
    /\ e.name = github[e.repo].name /\ e.archived = github[e.repo].archived
    /\ e.head \in {0, github[e.repo].head}

(* When no repository but one it lists changed since the refresh began,    *)
(* the reported count includes that one.                                   *)
CountIncludes(s) ==
  s.step = "listing" =>
    \A q \in Repo :
      Lists(s, q) /\ (\A r \in Repo \ {q} : changed[r] < s.at) =>
        s.total = Cardinality(installed \ {q}) + 1

(* A repository that a complete snapshot lacks has changed, or two have.   *)
NoneForgotten(s) ==
  s.step \in {"reading heads", "storing"} =>
    \A r \in installed : Lists(s, r) \/ changed[r] >= s.at \/ TwoChanged(s.at)

RefreshIsRight(s) ==
  /\ s.at <= now
  /\ \A i \in DOMAIN s.listed : EntryIsRight(s.listed[i], s.at)
  /\ CountIncludes(s)
  /\ NoneForgotten(s)

RowsAreRight ==
  \A r \in Repo :
    registry[r].accessible /\ changed[r] < registry[r].at => r \in installed /\ Agrees(r)

(* A row that is right is also as new as any row after the last change.    *)
NoneBehind ==
  \A r \in installed, q \in Repo :
    changed[r] < registry[q].at =>
      (Agrees(r) /\ registry[r].at >= registry[q].at) \/ TwoChanged(registry[q].at)

Inv ==
  /\ TypeOK
  /\ NothingNewer
  /\ NamesLead
  /\ \A c \in Call : RefreshIsRight(call[c])
  /\ RowsAreRight
  /\ NoneBehind

USE RepoAssumption, PositionAssumption, InitialNameAssumption, NoNameAssumption,
    PublicAssumption, PageSizeAssumption, BoundsAssumption

-----------------------------------------------------------------------------
(* The installation, in pages.                                             *)

LEMMA InstalledIsFinite ==
  ASSUME NEW S \in SUBSET Repo
  PROVE  /\ IsFiniteSet(S) /\ Cardinality(S) \in Nat
         /\ Cardinality(S) <= Cardinality(Repo) /\ Cardinality(Repo) \in Nat
BY FS_Subset, FS_CardinalityType

LEMMA LaterIsFurther ==
  ASSUME installed \subseteq Repo, NEW q \in installed, NEW r \in installed,
         Position[q] < Position[r]
  PROVE  Place(q) < Place(r)
<1> DEFINE before(x) == {p \in installed : Position[p] < Position[x]}
<1>1. before(q) \in SUBSET before(r) /\ q \in before(r) /\ q \notin before(q)
  <2>1. \A x \in Repo : Position[x] \in Nat
    OBVIOUS
  <2> QED BY <2>1
<1>2. IsFiniteSet(before(r)) /\ Cardinality(before(r)) \in Nat
  BY InstalledIsFinite
<1>3. /\ Cardinality(before(q)) <= Cardinality(before(r))
      /\ Cardinality(before(q)) # Cardinality(before(r))
  <2> HIDE DEF before
  <2> QED BY <1>1, <1>2, FS_Subset
<1>4. Cardinality(before(q)) \in Nat
  BY InstalledIsFinite
<1> QED BY <1>2, <1>3, <1>4 DEF Place

(* Every place of the list is the place of one installed repository.       *)
LEMMA PlacesAreTaken ==
  ASSUME installed \subseteq Repo
  PROVE  /\ \A q, r \in installed : Place(q) = Place(r) => q = r
         /\ \A k \in 0..(Cardinality(installed) - 1) : \E r \in installed : Place(r) = k
<1> DEFINE places == 0..(Cardinality(installed) - 1)
           place == [r \in installed |-> Place(r)]
<1>1. IsFiniteSet(installed) /\ Cardinality(installed) \in Nat
  BY InstalledIsFinite
<1>2. \A q, r \in installed : Place(q) = Place(r) => q = r
  <2>1. \A x \in installed : Position[x] \in Nat /\ Place(x) \in Nat
    BY InstalledIsFinite DEF Place
  <2> QED BY <2>1, LaterIsFurther
<1>3. \A r \in installed : Place(r) \in places
  <2> SUFFICES ASSUME NEW r \in installed PROVE Place(r) \in places
    OBVIOUS
  <2> DEFINE before == {p \in installed : Position[p] < Position[r]}
  <2>1. before \in SUBSET (installed \ {r})
    OBVIOUS
  <2>2. IsFiniteSet(installed \ {r}) /\ Cardinality(installed \ {r}) = Cardinality(installed) - 1
    BY <1>1, FS_RemoveElement
  <2>3. Cardinality(before) <= Cardinality(installed) - 1
    <3> HIDE DEF before
    <3> QED BY <2>1, <2>2, FS_Subset
  <2>4. Cardinality(before) \in Nat
    BY InstalledIsFinite
  <2> QED BY <1>1, <2>3, <2>4 DEF Place
<1>4. place \in Injection(installed, places)
  BY <1>2, <1>3 DEF Injection, IsInjective
<1>5. IsFiniteSet(places) /\ Cardinality(places) = Cardinality(installed)
  <2>1. Cardinality(installed) - 1 \in Int
    BY <1>1
  <2> QED BY <1>1, <2>1, FS_Interval
<1>6. place \in Surjection(installed, places)
  <2> HIDE DEF place, places
  <2> QED BY <1>1, <1>4, <1>5, FS_Injection
<1> QED BY <1>2, <1>6 DEF Surjection

(* A page shows installed repositories as they are, each once.             *)
LEMMA PageShowsInstalled ==
  ASSUME TypeOK, NamesLead, NEW c \in Call
  PROVE  /\ Page(c) \in Seq(Entry)
         /\ \A i \in DOMAIN Page(c) :
              /\ Page(c)[i].repo \in installed
              /\ Page(c)[i].name = github[Page(c)[i].repo].name
              /\ Page(c)[i].archived = github[Page(c)[i].repo].archived
              /\ Page(c)[i].head = 0
         /\ \A i, j \in DOMAIN Page(c) : Page(c)[i].repo = Page(c)[j].repo => i = j
<1> DEFINE before == Len(call[c].listed)
           rest == Cardinality(installed) - before
           size == IF rest < PageSize THEN rest ELSE PageSize
           at(i) == CHOOSE r \in installed : Place(r) = before + i - 1
           entry(i) == [repo |-> at(i), name |-> github[at(i)].name,
                        archived |-> github[at(i)].archived, head |-> 0]
<1>1. before \in Nat /\ Cardinality(installed) \in Nat
  <2>1. call[c].listed \in Seq(Entry)
    BY DEF TypeOK, Refresh
  <2> QED BY <2>1, InstalledIsFinite, LenProperties DEF TypeOK
<1>2. \A i \in 1..size : at(i) \in installed /\ Place(at(i)) = before + i - 1
  <2> SUFFICES ASSUME NEW i \in 1..size
               PROVE  at(i) \in installed /\ Place(at(i)) = before + i - 1
    OBVIOUS
  <2>1. before + i - 1 \in 0..(Cardinality(installed) - 1)
    BY <1>1
  <2> HIDE DEF before
  <2> QED BY <2>1, PlacesAreTaken DEF TypeOK
<1> HIDE DEF at
<1>3. \A i \in 1..size : entry(i) \in Entry
  <2> SUFFICES ASSUME NEW i \in 1..size PROVE entry(i) \in Entry
    OBVIOUS
  <2>1. at(i) \in Repo /\ github[at(i)].name \in Name
    BY <1>2 DEF TypeOK, NamesLead
  <2>2. github[at(i)].archived \in BOOLEAN
    BY <2>1 DEF TypeOK
  <2> QED BY <2>1, <2>2 DEF Entry
<1>4. Page(c) = [i \in 1..size |-> entry(i)]
  BY DEF Page, at
<1> HIDE DEF entry
<1>5. Page(c) \in Seq(Entry) /\ DOMAIN Page(c) = 1..size
  <2>1. CASE size \in Nat
    <3> HIDE DEF size
    <3> QED BY <2>1, <1>3, <1>4, IsASeq
  <2>2. CASE size \notin Nat
    <3>1. size \in Int /\ size < 0 /\ 1..size = {} /\ 1..size = 1..0
      BY <2>2, <1>1
    <3> HIDE DEF size
    <3>2. Page(c) = [i \in 1..0 |-> entry(i)]
      BY <3>1, <1>4
    <3>3. \A i \in 1..0 : entry(i) \in Entry
      BY <3>1, <1>3
    <3> QED BY <3>1, <3>2, <3>3, IsASeq
  <2> QED BY <2>1, <2>2
<1> HIDE DEF size
<1>6. ASSUME NEW i \in DOMAIN Page(c)
      PROVE  /\ Page(c)[i].repo \in installed
             /\ Page(c)[i].name = github[Page(c)[i].repo].name
             /\ Page(c)[i].archived = github[Page(c)[i].repo].archived
             /\ Page(c)[i].head = 0
  BY <1>2, <1>4, <1>5 DEF entry
<1>7. ASSUME NEW i \in DOMAIN Page(c), NEW j \in DOMAIN Page(c), Page(c)[i].repo = Page(c)[j].repo
      PROVE  i = j
  <2>1. i \in 1..size /\ j \in 1..size /\ at(i) = at(j)
    BY <1>4, <1>5, <1>7 DEF entry
  <2>2. i \in Int /\ j \in Int
    BY <2>1 DEF size
  <2>3. before + i - 1 = before + j - 1
    <3> HIDE DEF before
    <3> QED BY <2>1, <1>2
  <2> QED BY <1>1, <2>2, <2>3
<1> QED BY <1>5, <1>6, <1>7

-----------------------------------------------------------------------------
(* GitHub changes one repository at a time, and marks it.                  *)

Differs(r) ==
  /\ changed' = [changed EXCEPT ![r] = now]
  /\ UNCHANGED <<registry, call, now>>
  /\ \A q \in Repo \ {r} : github'[q] = github[q] /\ (q \in installed' <=> q \in installed)

LEMMA GitHubNames ==
  ASSUME TypeOK, NamesLead, NEW r \in Repo, NEW n \in Name, TakesName(r, n),
         NEW g \in [name : Name \cup {Unborn, Deleted}, head : 0..MaxHead, archived : BOOLEAN],
         g.name = n, github' = [github EXCEPT ![r] = g],
         installed' \subseteq installed \cup {r}
  PROVE  NamesLead'
<1>1. github'[r] = g /\ \A q \in Repo \ {r} : github'[q] = github[q]
  BY DEF TypeOK
<1>2. leadsTo'[n] = {r} /\ \A k \in Name \ {n} : leadsTo'[k] = leadsTo[k]
  BY DEF TypeOK, TakesName
<1>3. \A q \in Repo \ {r} : github'[q].name # n
  BY <1>1 DEF TakesName
<1>4. \A q \in installed' : github'[q].name \in Name
  BY <1>1 DEF TypeOK, NamesLead
<1>5. ASSUME NEW q \in Repo, github'[q].name \in Name
      PROVE  leadsTo'[github'[q].name] = {q}
  <2>1. CASE q = r
    BY <2>1, <1>1, <1>2
  <2>2. CASE q # r
    <3>1. github'[q].name = github[q].name /\ github'[q].name # n
      BY <2>2, <1>1, <1>3
    <3> QED BY <3>1, <1>2, <1>5 DEF NamesLead
  <2> QED BY <2>1, <2>2
<1>6. \A p, q \in Repo : github'[p].name = github'[q].name /\ github'[p].name \in Name => p = q
  BY <1>1, <1>3 DEF NamesLead
<1> QED BY <1>4, <1>5, <1>6 DEF NamesLead

LEMMA GitHubChangesOne ==
  ASSUME TypeOK, NamesLead, GitHubChanges
  PROVE  (\E r \in Repo : Differs(r)) /\ TypeOK' /\ NamesLead'
<1>1. PICK r \in Repo :
        \/ Push(r) \/ Archive(r) \/ Delete(r) \/ Install(r) \/ Remove(r)
        \/ \E n \in Name : Rename(r, n) \/ Create(r, n)
  BY DEF GitHubChanges
<1> DEFINE State == [name : Name \cup {Unborn, Deleted}, head : 0..MaxHead, archived : BOOLEAN]
<1>2. /\ changed' = [changed EXCEPT ![r] = now] /\ UNCHANGED <<registry, call, now>>
      /\ events < MaxEvents /\ events' = events + 1
  BY <1>1 DEF Push, Archive, Delete, Install, Remove, Rename, Create, Changes
<1>3. changed' \in [Repo -> 0..MaxTime] /\ events' \in 0..MaxEvents
  BY <1>2 DEF TypeOK
<1>4. github[r] \in State /\ github \in [Repo -> State]
  BY DEF TypeOK
<1>5. ASSUME NEW g \in State, github' = [github EXCEPT ![r] = g],
             installed' \subseteq installed \cup {r}, installed \ {r} \subseteq installed',
             leadsTo' \in [Name -> SUBSET Repo]
      PROVE  Differs(r) /\ TypeOK'
  <2>1. github' \in [Repo -> State] /\ \A q \in Repo \ {r} : github'[q] = github[q]
    BY <1>4, <1>5
  <2>2. Differs(r)
    BY <1>2, <1>5, <2>1 DEF Differs
  <2>3. installed' \subseteq Repo
    BY <1>5 DEF TypeOK
  <2>4. UNCHANGED <<registry, call, now>>
    BY <1>2
  <2> QED BY <1>3, <1>5, <2>1, <2>2, <2>3, <2>4 DEF TypeOK
<1>6. CASE Push(r)
  <2> DEFINE g == [github[r] EXCEPT !.head = @ + 1]
  <2>1. /\ github' = [github EXCEPT ![r] = g] /\ UNCHANGED <<installed, leadsTo>>
        /\ github[r].head < MaxHead
    BY <1>6 DEF Push
  <2>2. g \in State /\ g.name = github[r].name
    BY <1>4, <2>1
  <2> HIDE DEF g
  <2>3. \A q \in Repo : github'[q].name = github[q].name
    BY <1>4, <2>1, <2>2
  <2>4. Differs(r) /\ TypeOK'
    BY <1>5, <2>1, <2>2 DEF TypeOK
  <2>5. NamesLead'
    BY <2>1, <2>3 DEF NamesLead, TypeOK
  <2> QED BY <2>4, <2>5
<1>7. CASE Archive(r)
  <2> DEFINE g == [github[r] EXCEPT !.archived = ~@]
  <2>1. github' = [github EXCEPT ![r] = g] /\ UNCHANGED <<installed, leadsTo>>
    BY <1>7 DEF Archive
  <2>2. g \in State /\ g.name = github[r].name
    BY <1>4
  <2> HIDE DEF g
  <2>3. \A q \in Repo : github'[q].name = github[q].name
    BY <1>4, <2>1, <2>2
  <2>4. Differs(r) /\ TypeOK'
    BY <1>5, <2>1, <2>2 DEF TypeOK
  <2>5. NamesLead'
    BY <2>1, <2>3 DEF NamesLead, TypeOK
  <2> QED BY <2>4, <2>5
<1>8. CASE Delete(r)
  <2> DEFINE g == [github[r] EXCEPT !.name = Deleted]
  <2>1. /\ github' = [github EXCEPT ![r] = g]
        /\ leadsTo' = [n \in Name |-> leadsTo[n] \ {r}]
        /\ installed' = installed \ {r}
    BY <1>8 DEF Delete
  <2>2. g \in State /\ g.name = Deleted
    BY <1>4
  <2> HIDE DEF g
  <2>3. github'[r].name = Deleted /\ \A q \in Repo \ {r} : github'[q].name = github[q].name
    BY <1>4, <2>1, <2>2
  <2>4. Differs(r) /\ TypeOK'
    BY <1>5, <2>1, <2>2 DEF TypeOK
  <2>5. NamesLead'
    <3>1. \A q \in installed' : github'[q].name \in Name
      BY <2>1, <2>3 DEF NamesLead, TypeOK
    <3>2. \A q \in Repo : github'[q].name \in Name => leadsTo'[github'[q].name] = {q}
      BY <2>1, <2>3 DEF NamesLead
    <3>3. \A p, q \in Repo : github'[p].name = github'[q].name /\ github'[p].name \in Name => p = q
      BY <2>3 DEF NamesLead
    <3> QED BY <3>1, <3>2, <3>3 DEF NamesLead
  <2> QED BY <2>4, <2>5
<1>9. CASE Install(r) \/ Remove(r)
  <2>1. /\ UNCHANGED <<github, leadsTo>>
        /\ installed' \subseteq installed \cup {r} /\ installed \ {r} \subseteq installed'
        /\ r \in installed' => Exists(r)
    BY <1>9 DEF Install, Remove
  <2>2. github' = [github EXCEPT ![r] = github[r]]
    BY <1>4, <2>1
  <2>3. Differs(r) /\ TypeOK'
    BY <1>4, <1>5, <2>1, <2>2 DEF TypeOK
  <2>4. NamesLead'
    BY <2>1 DEF NamesLead, Exists
  <2> QED BY <2>3, <2>4
<1>10. ASSUME NEW n \in Name, Rename(r, n)
       PROVE  Differs(r) /\ TypeOK' /\ NamesLead'
  <2> DEFINE g == [github[r] EXCEPT !.name = n]
  <2>1. /\ github' = [github EXCEPT ![r] = g] /\ TakesName(r, n) /\ installed' = installed
        /\ leadsTo' = [leadsTo EXCEPT ![n] = {r}]
    BY <1>10 DEF Rename, TakesName
  <2>2. g \in State /\ g.name = n
    BY <1>4
  <2> HIDE DEF g
  <2>3. Differs(r) /\ TypeOK'
    BY <1>5, <2>1, <2>2 DEF TypeOK
  <2>4. NamesLead'
    BY <2>1, <2>2, GitHubNames
  <2> QED BY <2>3, <2>4
<1>11. ASSUME NEW n \in Name, Create(r, n)
       PROVE  Differs(r) /\ TypeOK' /\ NamesLead'
  <2>1. PICK h \in {0, 1} :
          github' = [github EXCEPT ![r] = [name |-> n, head |-> h, archived |-> FALSE]]
    BY <1>11 DEF Create
  <2> DEFINE g == [name |-> n, head |-> h, archived |-> FALSE]
  <2>2. /\ github' = [github EXCEPT ![r] = g] /\ TakesName(r, n) /\ installed' = installed \cup {r}
        /\ leadsTo' = [leadsTo EXCEPT ![n] = {r}]
    BY <1>11, <2>1 DEF Create, TakesName
  <2>3. g \in State /\ g.name = n
    OBVIOUS
  <2> HIDE DEF g
  <2>4. Differs(r) /\ TypeOK'
    BY <1>5, <2>2, <2>3 DEF TypeOK
  <2>5. NamesLead'
    BY <2>2, <2>3, GitHubNames
  <2> QED BY <2>4, <2>5
<1> QED BY <1>1, <1>6, <1>7, <1>8, <1>9, <1>10, <1>11

LEMMA WellFormedFields ==
  ASSUME NEW s, WellFormed(s)
  PROVE  /\ s.at \in 0..MaxTime /\ s.total \in -1..Cardinality(Repo)
         /\ s.listed \in Seq(Entry) /\ Len(s.listed) \in Nat /\ DOMAIN s.listed = 1..Len(s.listed)
         /\ \A i \in DOMAIN s.listed :
              /\ s.listed[i].repo \in Repo /\ s.listed[i].name \in Name
              /\ s.listed[i].archived \in BOOLEAN /\ s.listed[i].head \in 0..MaxHead
<1>1. s.at \in 0..MaxTime /\ s.total \in -1..Cardinality(Repo) /\ s.listed \in Seq(Entry)
  BY DEF WellFormed, Refresh
<1> DEFINE listed == s.listed
<1>2. listed \in Seq(Entry)
  BY <1>1
<1> HIDE DEF listed
<1>3. Len(listed) \in Nat /\ DOMAIN listed = 1..Len(listed)
  BY <1>2, LenProperties
<1>4. \A i \in DOMAIN listed : listed[i] \in Entry
  BY <1>2, <1>3, ElementOfSeq
<1>5. \A e \in Entry : e.repo \in Repo /\ e.name \in Name /\ e.archived \in BOOLEAN /\ e.head \in 0..MaxHead
  BY DEF Entry
<1> QED BY <1>1, <1>3, <1>4, <1>5 DEF listed

LEMMA AgreesFields ==
  ASSUME NEW r
  PROVE  Agrees(r) <=> /\ registry[r].accessible
                       /\ registry[r].name = github[r].name
                       /\ registry[r].head = github[r].head
                       /\ registry[r].archived = github[r].archived
BY DEF Agrees

LEMMA StillTwoChanged ==
  ASSUME TypeOK, NothingNewer, NEW r \in Repo, Differs(r), NEW t \in Int, TwoChanged(t)
  PROVE  TwoChanged(t)'
<1>1. \A q \in Repo : changed[q] \in Int /\ changed'[q] \in Int /\ changed'[q] >= changed[q]
  BY DEF Differs, NothingNewer, TypeOK
<1> QED BY <1>1 DEF TwoChanged

LEMMA RefreshStaysRight ==
  ASSUME TypeOK, TypeOK', NothingNewer, NEW r \in Repo, Differs(r),
         NEW s, WellFormed(s), RefreshIsRight(s)
  PROVE  RefreshIsRight(s)'
<1>1. /\ changed'[r] = now /\ \A q \in Repo \ {r} : changed'[q] = changed[q]
      /\ \A q \in Repo : changed[q] \in Int /\ changed[q] <= now
      /\ now \in Int /\ now' = now
  BY DEF Differs, NothingNewer, TypeOK
<1>2. /\ s.at \in Int /\ s.at <= now
      /\ \A i \in DOMAIN s.listed : s.listed[i].repo \in Repo
  BY WellFormedFields DEF RefreshIsRight
<1>3. \A q \in Repo \ {r} : github'[q] = github[q] /\ (q \in installed' <=> q \in installed)
  BY DEF Differs
<1>4. ASSUME NEW i \in DOMAIN s.listed
      PROVE  EntryIsRight(s.listed[i], s.at)'
  <2>1. EntryIsRight(s.listed[i], s.at)
    BY DEF RefreshIsRight
  <2> QED BY <1>1, <1>2, <1>3, <2>1 DEF EntryIsRight
<1>5. CountIncludes(s)'
  <2> SUFFICES ASSUME s.step = "listing", NEW q \in Repo, Lists(s, q),
                      \A p \in Repo \ {q} : changed'[p] < s.at
               PROVE  s.total = Cardinality(installed' \ {q}) + 1
    BY DEF CountIncludes, Lists
  <2>1. q = r
    BY <1>1, <1>2
  <2>2. installed' \ {q} = installed \ {q}
    <3>1. installed \subseteq Repo /\ installed' \subseteq Repo
      BY DEF TypeOK
    <3> QED BY <1>3, <2>1, <3>1
  <2>3. \A p \in Repo \ {q} : changed[p] < s.at
    BY <1>1, <2>1
  <2> QED BY <2>2, <2>3 DEF RefreshIsRight, CountIncludes
<1>6. NoneForgotten(s)'
  <2> SUFFICES ASSUME s.step \in {"reading heads", "storing"}, NEW q \in Repo, q \in installed'
               PROVE  Lists(s, q) \/ changed'[q] >= s.at \/ TwoChanged(s.at)'
    BY DEF NoneForgotten, Lists, TypeOK
  <2>1. CASE q = r
    BY <1>1, <1>2, <2>1
  <2>2. CASE q # r
    <3>1. Lists(s, q) \/ changed[q] >= s.at \/ TwoChanged(s.at)
      BY <1>3, <2>2 DEF RefreshIsRight, NoneForgotten
    <3> QED BY <3>1, <1>1, <1>2, <2>2, StillTwoChanged
  <2> QED BY <2>1, <2>2
<1> QED BY <1>1, <1>2, <1>4, <1>5, <1>6 DEF RefreshIsRight

LEMMA GitHubKeepsInv ==
  ASSUME Inv, GitHubChanges
  PROVE  Inv'
<1>1. TypeOK' /\ NamesLead'
  BY GitHubChangesOne DEF Inv
<1>2. PICK r \in Repo : Differs(r)
  BY GitHubChangesOne DEF Inv
<1>3. /\ changed'[r] = now /\ \A q \in Repo \ {r} : changed'[q] = changed[q]
      /\ \A q \in Repo : changed[q] \in Int /\ changed[q] <= now
      /\ \A q \in Repo : registry[q].at \in Int /\ registry[q].at <= now
      /\ now \in Int /\ UNCHANGED <<registry, call, now>>
  BY <1>2 DEF Differs, Inv, NothingNewer, TypeOK, Row
<1>4. NothingNewer'
  BY <1>3 DEF NothingNewer
<1>5. ASSUME NEW c \in Call
      PROVE  RefreshIsRight(call[c])'
  <2>1. PICK s : s = call[c]
    OBVIOUS
  <2>2. s = call'[c]
    BY <1>3, <2>1
  <2>3. WellFormed(s) /\ RefreshIsRight(s)
    BY <2>1 DEF Inv, TypeOK, WellFormed
  <2>4. RefreshIsRight(s)'
    BY <1>1, <1>2, <2>3, RefreshStaysRight DEF Inv
  <2> QED BY <2>2, <2>4
<1>6. \A q \in Repo \ {r} : github'[q] = github[q] /\ (q \in installed' <=> q \in installed)
  BY <1>2 DEF Differs
<1>7. \A q \in Repo \ {r} : Agrees(q)' <=> Agrees(q)
  <2>1. \A q \in Repo \ {r} : registry'[q] = registry[q]
    BY <1>3
  <2> QED BY <1>6, <2>1 DEF Agrees
<1>8. RowsAreRight'
  <2> SUFFICES ASSUME NEW q \in Repo, registry'[q].accessible, changed'[q] < registry'[q].at
               PROVE  q \in installed' /\ Agrees(q)'
    BY DEF RowsAreRight
  <2>1. q # r
    BY <1>3
  <2>2. registry[q].accessible /\ changed[q] < registry[q].at
    BY <1>3, <2>1
  <2> QED BY <2>1, <2>2, <1>6, <1>7 DEF Inv, RowsAreRight
<1>9. NoneBehind'
  <2> SUFFICES ASSUME NEW p \in Repo, p \in installed', NEW q \in Repo, changed'[p] < registry'[q].at
               PROVE  \/ Agrees(p)' /\ registry'[p].at >= registry'[q].at
                      \/ TwoChanged(registry[q].at)'
    BY <1>1 DEF NoneBehind, TypeOK
  <2>1. p # r
    BY <1>3
  <2>2. p \in installed /\ changed[p] < registry[q].at
    BY <1>3, <1>6, <2>1
  <2>3. (Agrees(p) /\ registry[p].at >= registry[q].at) \/ TwoChanged(registry[q].at)
    BY <2>2 DEF Inv, NoneBehind
  <2>4. PICK t : t = registry[q].at
    OBVIOUS
  <2>5. t \in Int /\ t = registry'[q].at
    BY <1>3, <2>4
  <2>6. TwoChanged(t) => TwoChanged(t)'
    BY <1>2, <2>5, StillTwoChanged DEF Inv
  <2> QED BY <1>3, <1>7, <2>1, <2>3, <2>4, <2>5, <2>6
<1> QED BY <1>1, <1>4, <1>5, <1>8, <1>9 DEF Inv

-----------------------------------------------------------------------------
(* A step of a refresh changes its own state; only the last one writes.    *)

LEMMA RefreshesStayRight ==
  ASSUME Inv, NEW c \in Call, NEW s, Becomes(c, s), WellFormed(s), RefreshIsRight(s),
         UNCHANGED <<outside, now>>
  PROVE  /\ \A d \in Call : RefreshIsRight(call[d])'
         /\ registry' \in [Repo -> Row] /\ events' \in 0..MaxEvents => TypeOK'
<1>1. call'[c] = s /\ \A d \in Call \ {c} : call'[d] = call[d]
  BY DEF Becomes, Inv, TypeOK
<1>2. UNCHANGED <<github, installed, leadsTo, changed, now>>
  BY DEF outside
<1>3. \A x : RefreshIsRight(x) => RefreshIsRight(x)'
  <2> SUFFICES ASSUME NEW x, RefreshIsRight(x) PROVE RefreshIsRight(x)'
    OBVIOUS
  <2> QED BY <1>2 DEF RefreshIsRight, EntryIsRight, CountIncludes, NoneForgotten, Lists, TwoChanged
<1>4. ASSUME NEW d \in Call
      PROVE  WellFormed(call'[d]) /\ RefreshIsRight(call[d])'
  <2>1. PICK x : x = call'[d]
    OBVIOUS
  <2>2. WellFormed(x) /\ RefreshIsRight(x)
    BY <1>1, <2>1 DEF Inv, TypeOK, WellFormed
  <2>3. RefreshIsRight(x)'
    BY <1>3, <2>2
  <2> QED BY <2>1, <2>2, <2>3
<1>5. ASSUME registry' \in [Repo -> Row], events' \in 0..MaxEvents
      PROVE  TypeOK'
  <2>1. call' \in [Call -> Refresh]
    BY <1>4 DEF WellFormed, Becomes, Inv, TypeOK
  <2>2. \A d \in Call :
          /\ \A i, j \in DOMAIN call'[d].listed :
               call'[d].listed[i].repo = call'[d].listed[j].repo => i = j
          /\ call'[d].step = "storing" => \A i \in DOMAIN call'[d].listed : call'[d].listed[i].head # 0
    BY <1>4 DEF WellFormed
  <2> QED BY <1>2, <1>5, <2>1, <2>2 DEF Inv, TypeOK
<1> QED BY <1>4, <1>5

LEMMA OneRefreshMoves ==
  ASSUME Inv, NEW c \in Call, NEW s, Becomes(c, s), WellFormed(s), RefreshIsRight(s),
         UNCHANGED <<outside, registry, now>>, events' \in 0..MaxEvents
  PROVE  Inv'
<1>1. UNCHANGED <<github, installed, leadsTo, changed, registry, now>>
  BY DEF outside
<1>2. registry' \in [Repo -> Row]
  BY <1>1 DEF Inv, TypeOK
<1>3. TypeOK' /\ \A d \in Call : RefreshIsRight(call[d])'
  BY <1>1, <1>2, RefreshesStayRight
<1>4. NothingNewer' /\ NamesLead' /\ RowsAreRight' /\ NoneBehind'
  BY <1>1 DEF Inv, NothingNewer, NamesLead, RowsAreRight, NoneBehind, Agrees, TwoChanged
<1> QED BY <1>3, <1>4 DEF Inv

LEMMA IdleIsRight ==
  ASSUME Inv
  PROVE  WellFormed(Idle) /\ RefreshIsRight(Idle)
<1>1. /\ Idle.step = "idle" /\ Idle.at = 0 /\ Idle.total = -1 /\ Idle.listed = <<>>
      /\ DOMAIN Idle.listed = {}
  BY EmptySeq DEF Idle
<1>2. Idle \in Refresh
  <2>1. Cardinality(Repo) \in Nat
    BY InstalledIsFinite
  <2>2. <<>> \in Seq(Entry)
    BY EmptySeq
  <2> QED BY <2>1, <2>2 DEF Idle, Refresh, Step
<1>3. WellFormed(Idle)
  BY <1>1, <1>2 DEF WellFormed
<1>4. CountIncludes(Idle) /\ NoneForgotten(Idle)
  BY <1>1 DEF CountIncludes, NoneForgotten
<1>5. Idle.at <= now
  BY <1>1 DEF Inv, TypeOK
<1> QED BY <1>1, <1>3, <1>4, <1>5 DEF RefreshIsRight

LEMMA EndingKeepsInv ==
  ASSUME Inv, NEW c \in Call, Ends(c), UNCHANGED <<outside, registry, now>>,
         events' \in 0..MaxEvents
  PROVE  Inv'
BY IdleIsRight, OneRefreshMoves DEF Ends

LEMMA StartKeepsInv ==
  ASSUME Inv, NEW c \in Call, Start(c)
  PROVE  Inv'
<1>1. PICK s : s = [Idle EXCEPT !.step = "listing", !.at = now]
  OBVIOUS
<1>2. /\ s = [step |-> "listing", at |-> now, total |-> -1, listed |-> <<>>]
      /\ now \in 1..MaxTime
  BY <1>1 DEF Idle, Inv, TypeOK
<1>3. s.step = "listing" /\ s.at = now /\ s.listed = <<>> /\ DOMAIN s.listed = {}
  BY <1>2, EmptySeq
<1>4. WellFormed(s)
  <2>1. Cardinality(Repo) \in Nat /\ <<>> \in Seq(Entry)
    BY InstalledIsFinite, EmptySeq
  <2>2. s \in Refresh
    BY <2>1, <1>2 DEF Refresh, Step
  <2> QED BY <1>3, <2>2 DEF WellFormed
<1>5. RefreshIsRight(s)
  <2>1. CountIncludes(s) /\ NoneForgotten(s)
    BY <1>3 DEF CountIncludes, NoneForgotten, Lists
  <2> QED BY <1>2, <1>3, <2>1 DEF RefreshIsRight
<1> QED BY <1>1, <1>4, <1>5, OneRefreshMoves DEF Start, Inv, TypeOK

(* What a page that does not end the refresh leaves.                       *)
LEMMA PageIsAppended ==
  ASSUME Inv, NEW c \in Call, ListPage(c), ~Ends(c)
  PROVE  \E s : /\ Becomes(c, s) /\ s.at = call[c].at
                /\ s.listed = call[c].listed \o Page(c)
                /\ s.total = Cardinality(installed) /\ call[c].total \in {-1, s.total}
                /\ s.step \in {"listing", "reading heads", "storing"}
                /\ s.step # "listing" => Len(s.listed) = s.total
                /\ s.step = "storing" => s.listed = <<>>
                /\ s \in Refresh
                /\ \A i \in DOMAIN call[c].listed, j \in DOMAIN Page(c) :
                     call[c].listed[i].repo # Page(c)[j].repo
<1> DEFINE now_ == Cardinality(installed)
           listed == call[c].listed \o Page(c)
           next(step) == [step |-> step, at |-> call[c].at, total |-> now_, listed |-> listed]
<1>1. call[c] \in Refresh /\ call[c].step = "listing" /\ call[c].listed \in Seq(Entry)
  BY DEF ListPage, Inv, TypeOK, Refresh
<1>2. now_ \in Nat /\ now_ <= Cardinality(Repo) /\ Cardinality(Repo) \in Nat
  BY InstalledIsFinite DEF Inv, TypeOK
<1>3. Page(c) \in Seq(Entry) /\ listed \in Seq(Entry)
  BY <1>1, PageShowsInstalled, ConcatProperties DEF Inv
<1>4. call[c].total \in {-1, now_}
  BY DEF ListPage
<1>5. \A i \in DOMAIN call[c].listed, j \in DOMAIN Page(c) :
        call[c].listed[i].repo # Page(c)[j].repo
  BY DEF ListPage
<1>6. \/ listed = <<>> /\ Len(listed) = now_ /\ Becomes(c, next("storing"))
      \/ Len(listed) = now_ /\ Becomes(c, next("reading heads"))
      \/ Becomes(c, next("listing"))
  <2>1. (IF call[c].total = -1 THEN now_ ELSE call[c].total) = now_
    BY <1>4
  <2> QED BY <2>1 DEF ListPage
<1>8. \A step \in Step : /\ next(step) \in Refresh /\ next(step).step = step
                         /\ next(step).at = call[c].at /\ next(step).listed = listed
                         /\ next(step).total = now_
  <2> HIDE DEF now_, listed
  <2> QED BY <1>1, <1>2, <1>3 DEF Refresh
<1>9. \E step \in {"listing", "reading heads", "storing"} :
        /\ Becomes(c, next(step))
        /\ step # "listing" => Len(listed) = now_
        /\ step = "storing" => listed = <<>>
  <2> HIDE DEF now_, listed, next
  <2> QED BY <1>6
<1>10. PICK step \in {"listing", "reading heads", "storing"} :
        /\ Becomes(c, next(step))
        /\ step # "listing" => Len(listed) = now_
        /\ step = "storing" => listed = <<>>
  BY <1>9
<1>11. step \in Step
  BY DEF Step
<1>12. /\ next(step) \in Refresh /\ next(step).step = step /\ next(step).at = call[c].at
       /\ next(step).listed = listed /\ next(step).total = now_ /\ Becomes(c, next(step))
  <2> HIDE DEF next, listed, now_
  <2> QED BY <1>8, <1>10, <1>11, Zenon
<1> WITNESS next(step)
<1> HIDE DEF next, listed, now_
<1> QED BY <1>4, <1>5, <1>10, <1>12, Zenon DEF listed, now_

(* Each entry after a page was there before it or is on the page.          *)
LEMMA EntriesAfterPage ==
  ASSUME NEW old \in Seq(Entry), NEW page \in Seq(Entry), NEW listed, listed = old \o page
  PROVE  /\ DOMAIN listed = 1..Len(listed) /\ Len(listed) \in Nat
         /\ \A i \in DOMAIN listed :
              \/ i \in DOMAIN old /\ listed[i] = old[i]
              \/ i - Len(old) \in DOMAIN page /\ listed[i] = page[i - Len(old)]
         /\ Len(old) \in Int /\ DOMAIN old \subseteq Int
<1>1. /\ DOMAIN old = 1..Len(old) /\ DOMAIN page = 1..Len(page)
      /\ Len(old) \in Nat /\ Len(page) \in Nat
  BY LenProperties
<1>2. /\ listed \in Seq(Entry) /\ Len(listed) = Len(old) + Len(page)
      /\ \A i \in 1..(Len(old) + Len(page)) :
           listed[i] = IF i <= Len(old) THEN old[i] ELSE page[i - Len(old)]
  BY ConcatProperties
<1>3. DOMAIN listed = 1..Len(listed)
  BY <1>2, LenProperties
<1>4. ASSUME NEW i \in DOMAIN listed
      PROVE  \/ i \in DOMAIN old /\ listed[i] = old[i]
             \/ i - Len(old) \in DOMAIN page /\ listed[i] = page[i - Len(old)]
  BY <1>1, <1>2, <1>3
<1> QED BY <1>1, <1>2, <1>3, <1>4

LEMMA ListPageKeepsInv ==
  ASSUME Inv, NEW c \in Call, ListPage(c)
  PROVE  Inv'
<1>0. UNCHANGED <<outside, registry, now>> /\ events' \in 0..MaxEvents
  BY DEF ListPage, Inv, TypeOK
<1>1. CASE Ends(c)
  BY <1>0, <1>1, EndingKeepsInv
<1>2. CASE ~Ends(c)
  <2>1. PICK s : /\ Becomes(c, s) /\ s.at = call[c].at
                 /\ s.listed = call[c].listed \o Page(c)
                 /\ s.total = Cardinality(installed) /\ call[c].total \in {-1, s.total}
                 /\ s.step \in {"listing", "reading heads", "storing"}
                 /\ s.step # "listing" => Len(s.listed) = s.total
                 /\ s.step = "storing" => s.listed = <<>>
                 /\ s \in Refresh
                 /\ \A i \in DOMAIN call[c].listed, j \in DOMAIN Page(c) :
                      call[c].listed[i].repo # Page(c)[j].repo
    BY <1>2, PageIsAppended
  <2>2. PICK old, page : old = call[c].listed /\ page = Page(c)
    OBVIOUS
  <2>12. old \in Seq(Entry) /\ page \in Seq(Entry) /\ s.listed = old \o page
    BY <2>1, <2>2, PageShowsInstalled DEF Inv, TypeOK, Refresh
  <2>3. /\ DOMAIN s.listed = 1..Len(s.listed) /\ Len(s.listed) \in Nat
        /\ \A i \in DOMAIN s.listed :
             \/ i \in DOMAIN old /\ s.listed[i] = old[i]
             \/ i - Len(old) \in DOMAIN page /\ s.listed[i] = page[i - Len(old)]
        /\ Len(old) \in Int /\ DOMAIN old \subseteq Int
    BY <2>12, EntriesAfterPage
  <2>4. /\ \A i \in DOMAIN page :
             /\ page[i].repo \in installed
             /\ page[i].name = github[page[i].repo].name
             /\ page[i].archived = github[page[i].repo].archived
             /\ page[i].head = 0
        /\ \A i, j \in DOMAIN page : page[i].repo = page[j].repo => i = j
    BY <2>2, PageShowsInstalled DEF Inv
  <2>5. /\ \A i, j \in DOMAIN old : old[i].repo = old[j].repo => i = j
        /\ \A i \in DOMAIN old : EntryIsRight(old[i], s.at)
        /\ \A i \in DOMAIN old, j \in DOMAIN page : old[i].repo # page[j].repo
    BY <2>1, <2>2 DEF Inv, TypeOK, RefreshIsRight
  <2>6. WellFormed(s)
    <3>1. ASSUME NEW i \in DOMAIN s.listed, NEW j \in DOMAIN s.listed,
                 s.listed[i].repo = s.listed[j].repo
          PROVE  i = j
      <4>1. i \in Int /\ j \in Int
        BY <2>3
      <4>2. CASE i \in DOMAIN old /\ s.listed[i] = old[i]
        BY <2>3, <2>5, <3>1, <4>2
      <4>3. CASE i - Len(old) \in DOMAIN page /\ s.listed[i] = page[i - Len(old)]
        <5>1. j - Len(old) \in DOMAIN page /\ s.listed[j] = page[j - Len(old)]
          BY <2>3, <2>5, <3>1, <4>3
        <5>2. i - Len(old) = j - Len(old)
          BY <2>4, <3>1, <4>3, <5>1
        <5> QED BY <2>3, <4>1, <5>2
      <4> QED BY <2>3, <4>2, <4>3
    <3>2. s.step = "storing" => DOMAIN s.listed = {}
      BY <2>1, EmptySeq
    <3> QED BY <2>1, <3>1, <3>2 DEF WellFormed
  <2>7. ASSUME NEW i \in DOMAIN s.listed
        PROVE  EntryIsRight(s.listed[i], s.at)
    <3>1. CASE i \in DOMAIN old /\ s.listed[i] = old[i]
      BY <2>5, <3>1
    <3>2. CASE i - Len(old) \in DOMAIN page /\ s.listed[i] = page[i - Len(old)]
      <4>1. /\ s.listed[i].repo \in installed /\ s.listed[i].head = 0
            /\ s.listed[i].name = github[s.listed[i].repo].name
            /\ s.listed[i].archived = github[s.listed[i].repo].archived
        BY <2>4, <3>2
      <4> QED BY <4>1 DEF EntryIsRight
    <3> QED BY <2>3, <3>1, <3>2
  <2>8. /\ \A q \in Repo : changed[q] \in Int
        /\ s.at \in Int /\ s.at <= now
        /\ IsFiniteSet(installed) /\ Cardinality(installed) \in Nat
        /\ installed \subseteq Repo
    <3>1. /\ \A q \in Repo : changed[q] \in Int
          /\ installed \subseteq Repo
      BY DEF Inv, TypeOK
    <3>2. call[c].at \in Int /\ call[c].at <= now
      BY DEF Inv, TypeOK, RefreshIsRight, Refresh
    <3>3. s.at = call[c].at
      BY <2>1
    <3> QED BY <3>1, <3>2, <3>3, InstalledIsFinite
  <2>9. ASSUME NEW q \in Repo, \E i \in DOMAIN old : old[i].repo = q,
               \A r \in Repo \ {q} : changed[r] < s.at
        PROVE  s.total = Cardinality(installed \ {q}) + 1
    <3>1. CountIncludes(call[c]) /\ call[c].step = "listing"
      BY DEF ListPage, Inv, RefreshIsRight
    <3>2. s.at = call[c].at /\ call[c].total \in {-1, s.total}
      BY <2>1
    <3>3. Lists(call[c], q) /\ \A r \in Repo \ {q} : changed[r] < call[c].at
      BY <2>2, <2>9, <3>2 DEF Lists
    <3>4. call[c].total = Cardinality(installed \ {q}) + 1
      BY <3>1, <3>3 DEF CountIncludes
    <3>5. Cardinality(installed \ {q}) \in Nat
      BY <2>8, InstalledIsFinite
    <3> QED BY <3>2, <3>4, <3>5
  <2>10. CountIncludes(s)
    <3> SUFFICES ASSUME NEW q \in Repo, NEW i \in DOMAIN s.listed, s.listed[i].repo = q,
                        \A r \in Repo \ {q} : changed[r] < s.at
                 PROVE  s.total = Cardinality(installed \ {q}) + 1
      BY DEF CountIncludes, Lists
    <3>1. CASE i \in DOMAIN old /\ s.listed[i] = old[i]
      BY <2>9, <3>1
    <3>2. CASE i - Len(old) \in DOMAIN page /\ s.listed[i] = page[i - Len(old)]
      <4>1. q \in installed
        BY <2>4, <3>2
      <4>2. s.total = Cardinality(installed)
        BY <2>1
      <4>3. Cardinality(installed \ {q}) = Cardinality(installed) - 1
        <5>1. IsFiniteSet(installed)
          BY <2>8
        <5> QED BY ONLY <4>1, <5>1, FS_RemoveElement
      <4> QED BY <2>8, <4>2, <4>3
    <3> QED BY <2>3, <3>1, <3>2
  <2>11. NoneForgotten(s)
    <3> SUFFICES ASSUME s.step # "listing", NEW r \in installed, ~Lists(s, r),
                        ~(changed[r] >= s.at), ~TwoChanged(s.at)
                 PROVE  FALSE
      BY DEF NoneForgotten
    <3>1. Len(s.listed) = Cardinality(installed) /\ r \in Repo
      BY <2>1, <2>8
    <3>2. CASE \A i \in DOMAIN s.listed : s.listed[i].repo \in installed
      <4> DEFINE f == [i \in 1..Len(s.listed) |-> s.listed[i].repo]
                 rest == installed \ {r}
      <4>1. f \in Injection(1..Len(s.listed), rest)
        BY <2>3, <2>6, <3>2 DEF Injection, IsInjective, Lists, WellFormed
      <4>2. IsFiniteSet(rest) /\ Cardinality(rest) = Cardinality(installed) - 1
        BY <2>8, FS_RemoveElement
      <4>3. Cardinality(1..Len(s.listed)) = Len(s.listed)
        BY <2>3, FS_Interval
      <4> HIDE DEF f, rest
      <4>4. Cardinality(1..Len(s.listed)) <= Cardinality(rest)
        BY <4>1, <4>2, FS_Injection
      <4> QED BY <2>8, <3>1, <4>2, <4>3, <4>4
    <3>3. CASE \E i \in DOMAIN s.listed : s.listed[i].repo \notin installed
      <4>1. PICK i \in DOMAIN s.listed : s.listed[i].repo \notin installed
        BY <3>3
      <4>2. PICK q : q = s.listed[i].repo
        OBVIOUS
      <4>3. i \in DOMAIN old /\ old[i].repo = q
        BY <2>3, <2>4, <4>1, <4>2
      <4>4. q \in Repo
        BY <2>6, <4>2, WellFormedFields
      <4>5. changed[q] >= s.at
        BY <2>7, <2>8, <4>1, <4>2, <4>4 DEF EntryIsRight
      <4>6. \A p \in Repo \ {q} : changed[p] < s.at
        BY <2>8, <4>4, <4>5 DEF TwoChanged
      <4>7. s.total = Cardinality(installed \ {q}) + 1
        BY <2>9, <4>3, <4>4, <4>6
      <4>8. installed \ {q} = installed
        BY <4>1, <4>2
      <4>9. s.total = Cardinality(installed)
        BY <2>1
      <4> QED BY <2>8, <4>7, <4>8, <4>9
    <3> QED BY <3>2, <3>3
  <2> QED BY <1>0, <2>1, <2>6, <2>7, <2>8, <2>10, <2>11, OneRefreshMoves DEF RefreshIsRight
<1> QED BY <1>1, <1>2

LEMMA ReadHeadKeepsInv ==
  ASSUME Inv, NEW c \in Call, NEW i \in DOMAIN call[c].listed, ReadHead(c, i)
  PROVE  Inv'
<1>0. UNCHANGED <<outside, registry, now>> /\ events' \in 0..MaxEvents
  BY DEF ReadHead, Inv, TypeOK
<1>1. CASE Ends(c)
  BY <1>0, <1>1, EndingKeepsInv
<1>2. CASE ~Ends(c)
  <2>1. PICK old : old = call[c]
    OBVIOUS
  <2>2. WellFormed(old) /\ RefreshIsRight(old) /\ old.step = "reading heads"
    BY <2>1 DEF Inv, TypeOK, WellFormed, ReadHead
  <2>3. /\ i \in DOMAIN old.listed
        /\ \E q \in leadsTo[old.listed[i].name] :
             /\ Readable(q)
             /\ Becomes(c, [old EXCEPT !.listed = [old.listed EXCEPT ![i].head = github[q].head],
                   !.step = IF \A j \in DOMAIN [old.listed EXCEPT ![i].head = github[q].head] :
                                  [old.listed EXCEPT ![i].head = github[q].head][j].head # 0
                              THEN "storing" ELSE @])
    BY <1>2, <2>1 DEF ReadHead
  <2>4. PICK q \in leadsTo[old.listed[i].name] :
             /\ Readable(q)
             /\ Becomes(c, [old EXCEPT !.listed = [old.listed EXCEPT ![i].head = github[q].head],
                   !.step = IF \A j \in DOMAIN [old.listed EXCEPT ![i].head = github[q].head] :
                                  [old.listed EXCEPT ![i].head = github[q].head][j].head # 0
                              THEN "storing" ELSE @])
    BY <2>3
  <2>5. PICK new : new = [old.listed EXCEPT ![i].head = github[q].head]
    OBVIOUS
  <2>6. PICK step : step = IF \A j \in DOMAIN new : new[j].head # 0 THEN "storing" ELSE old.step
    OBVIOUS
  <2>7. PICK s : s = [old EXCEPT !.listed = new, !.step = step]
    OBVIOUS
  <2>8. Becomes(c, s)
    BY <2>4, <2>5, <2>6, <2>7
  <2>9. /\ old \in Refresh /\ old.listed \in Seq(Entry) /\ DOMAIN old.listed = 1..Len(old.listed)
        /\ Len(old.listed) \in Nat /\ old.listed[i] \in Entry /\ old.listed[i].name \in Name
    <3>1. /\ old \in Refresh /\ old.listed \in Seq(Entry) /\ DOMAIN old.listed = 1..Len(old.listed)
          /\ Len(old.listed) \in Nat
      BY <2>2, WellFormedFields DEF WellFormed
    <3>2. old.listed[i] \in Entry
      BY <2>3, <3>1, ElementOfSeq
    <3> QED BY <3>1, <3>2 DEF Entry
  <2>10. q \in Repo /\ github[q].head \in 0..MaxHead
    BY <2>4, <2>9 DEF Inv, TypeOK
  <2>11. /\ new \in Seq(Entry) /\ DOMAIN new = DOMAIN old.listed
         /\ \A j \in DOMAIN new : j # i => new[j] = old.listed[j]
         /\ new[i] = [old.listed[i] EXCEPT !.head = github[q].head]
    <3>1. PICK e : e = [old.listed[i] EXCEPT !.head = github[q].head]
      OBVIOUS
    <3>2. e \in Entry
      BY <2>9, <2>10, <3>1 DEF Entry
    <3>3. new = [old.listed EXCEPT ![i] = e]
      BY <2>5, <3>1
    <3> QED BY <2>3, <2>9, <3>1, <3>2, <3>3, ExceptSeq, LenProperties
  <2>12. /\ new[i].repo = old.listed[i].repo /\ new[i].name = old.listed[i].name
         /\ new[i].archived = old.listed[i].archived /\ new[i].head = github[q].head
    BY <2>9, <2>11 DEF Entry
  <2>13. step \in {"reading heads", "storing"}
         /\ (step = "storing" => \A j \in DOMAIN new : new[j].head # 0)
    BY <2>2, <2>6
  <2>14. s = [step |-> step, at |-> old.at, total |-> old.total, listed |-> new]
    <3>1. [old EXCEPT !.listed = new] = [step |-> old.step, at |-> old.at, total |-> old.total, listed |-> new]
      BY <2>9 DEF Refresh
    <3>2. [[step |-> old.step, at |-> old.at, total |-> old.total, listed |-> new] EXCEPT !.step = step]
            = [step |-> step, at |-> old.at, total |-> old.total, listed |-> new]
      OBVIOUS
    <3>3. [old EXCEPT !.listed = new, !.step = step] = [[old EXCEPT !.listed = new] EXCEPT !.step = step]
      OBVIOUS
    <3> QED BY <2>7, <3>1, <3>2, <3>3, Zenon
  <2>15. s.step = step /\ s.at = old.at /\ s.total = old.total /\ s.listed = new
    BY <2>14
  <2>16. \A j \in DOMAIN new : new[j].repo = old.listed[j].repo
    BY <2>11, <2>12
  <2>17. WellFormed(s)
    <3>1. s \in Refresh
      BY <2>2, <2>11, <2>13, <2>14, WellFormedFields DEF Refresh, Step
    <3>2. \A j, k \in DOMAIN s.listed : s.listed[j].repo = s.listed[k].repo => j = k
      BY <2>2, <2>11, <2>15, <2>16 DEF WellFormed
    <3> QED BY <2>13, <2>15, <3>1, <3>2 DEF WellFormed
  <2>18. \A r : Lists(s, r) <=> Lists(old, r)
    BY <2>11, <2>15, <2>16 DEF Lists
  <2>19. ASSUME NEW j \in DOMAIN s.listed
         PROVE  EntryIsRight(s.listed[j], s.at)
    <3>1. j \in DOMAIN old.listed /\ EntryIsRight(old.listed[j], s.at)
      BY <2>2, <2>11, <2>15 DEF RefreshIsRight
    <3>2. CASE j # i
      BY <2>11, <2>15, <3>1, <3>2
    <3>3. CASE j = i
      <4> SUFFICES ASSUME changed[new[i].repo] < s.at
                   PROVE  /\ new[i].repo \in installed
                          /\ new[i].name = github[new[i].repo].name
                          /\ new[i].archived = github[new[i].repo].archived
                          /\ new[i].head \in {0, github[new[i].repo].head}
        BY <2>15, <3>3 DEF EntryIsRight
      <4>1. /\ new[i].repo \in installed
            /\ new[i].name = github[new[i].repo].name
            /\ new[i].archived = github[new[i].repo].archived
        BY <2>12, <3>1, <3>3 DEF EntryIsRight
      <4>2. new[i].repo \in Repo /\ github[new[i].repo].name \in Name
        BY <4>1 DEF Inv, TypeOK, NamesLead
      <4>3. leadsTo[new[i].name] = {new[i].repo}
        BY <4>1, <4>2 DEF Inv, NamesLead
      <4>4. q = new[i].repo
        BY <2>4, <2>12, <4>3
      <4> QED BY <2>12, <4>1, <4>4
    <3> QED BY <3>2, <3>3
  <2>20. CountIncludes(s)
    BY <2>13, <2>15 DEF CountIncludes
  <2>21. NoneForgotten(s)
    BY <2>2, <2>15, <2>18 DEF NoneForgotten, RefreshIsRight
  <2>22. s.at <= now
    BY <2>2, <2>15 DEF RefreshIsRight
  <2> QED BY <1>0, <2>8, <2>17, <2>19, <2>20, <2>21, <2>22, OneRefreshMoves DEF RefreshIsRight
<1> QED BY <1>1, <1>2

-----------------------------------------------------------------------------
(* What storing the snapshot s may do to the row of r.                     *)

RowStays(r) == registry'[r] = registry[r]

RowWritten(s, r) ==
  /\ registry[r].at <= s.at
  /\ \E i \in DOMAIN s.listed :
       s.listed[i].repo = r /\ registry'[r] = Stored(s.listed[i], s.at)

RowRevoked(s, r) ==
  /\ registry[r].at <= s.at /\ ~Lists(s, r)
  /\ registry'[r] = [registry[r] EXCEPT !.accessible = FALSE, !.at = s.at]

(* A row that stays is newer than the snapshot, or has no place in it.     *)
RowPassedOver(s, r) ==
  RowStays(r) /\ (registry[r].at > s.at \/ ~Lists(s, r))

LEMMA RowsAfterSnapshot ==
  ASSUME Inv, NEW c \in Call, Synchronize(c), NEW s, s = call[c]
  PROVE  \/ registry' = registry
         \/ \A r \in Repo : RowPassedOver(s, r) \/ RowWritten(s, r) \/ RowRevoked(s, r)
<1> SUFFICES ASSUME registry' = [r \in Repo |-> AfterSnapshot(c, r)], NEW r \in Repo
             PROVE  RowPassedOver(s, r) \/ RowWritten(s, r) \/ RowRevoked(s, r)
  BY DEF Synchronize
<1>1. registry'[r] = AfterSnapshot(c, r)
  OBVIOUS
<1>2. registry[r].at \in Int /\ s.at \in Int
  BY DEF Inv, TypeOK, Row, Refresh
<1>3. CASE Lists(s, r)
  <2> DEFINE entries == {i \in DOMAIN call[c].listed : call[c].listed[i].repo = r}
             i == CHOOSE j \in entries : TRUE
  <2>1. i \in entries
    BY <1>3 DEF Lists
  <2>2. AfterSnapshot(c, r) = IF Applies(c, r) THEN Stored(call[c].listed[i], call[c].at) ELSE registry[r]
    BY <2>1 DEF AfterSnapshot
  <2> HIDE DEF i
  <2> QED BY <1>1, <1>2, <2>1, <2>2 DEF Applies, RowPassedOver, RowStays, RowWritten
<1>4. CASE ~Lists(s, r)
  <2>1. {i \in DOMAIN call[c].listed : call[c].listed[i].repo = r} = {}
    BY <1>4 DEF Lists
  <2>2. AfterSnapshot(c, r) = IF Revoked(c, r)
                              THEN [registry[r] EXCEPT !.accessible = FALSE, !.at = call[c].at]
                              ELSE registry[r]
    BY <2>1 DEF AfterSnapshot
  <2> QED BY <1>1, <1>4, <2>2 DEF Revoked, Applies, RowPassedOver, RowStays, RowRevoked
<1> QED BY <1>3, <1>4

LEMMA WrittenRow ==
  ASSUME NEW s, WellFormed(s), NEW i \in DOMAIN s.listed, NEW row, row = Stored(s.listed[i], s.at)
  PROVE  /\ row \in Row /\ row.at = s.at /\ row.accessible
         /\ row.name = s.listed[i].name /\ row.head = s.listed[i].head
         /\ row.archived = s.listed[i].archived
<1>1. /\ s.listed[i].name \in Name /\ s.listed[i].head \in 0..MaxHead
      /\ s.listed[i].archived \in BOOLEAN /\ s.at \in 0..MaxTime
  BY WellFormedFields
<1> QED BY <1>1 DEF Stored, Row

LEMMA RevokedRow ==
  ASSUME NEW old \in Row, NEW at \in 0..MaxTime, NEW row,
         row = [old EXCEPT !.accessible = FALSE, !.at = at]
  PROVE  row \in Row /\ row.at = at /\ ~row.accessible
BY DEF Row

LEMMA SynchronizeKeepsInv ==
  ASSUME Inv, NEW c \in Call, Synchronize(c)
  PROVE  Inv'
<1>1. Ends(c) /\ UNCHANGED <<outside, now>> /\ events' \in 0..MaxEvents
  BY DEF Synchronize, Inv, TypeOK
<1>2. CASE registry' = registry
  BY <1>1, <1>2, EndingKeepsInv
<1>3. CASE registry' # registry
  <2>1. PICK s : s = call[c]
    OBVIOUS
  <2>2. /\ WellFormed(s) /\ RefreshIsRight(s) /\ s.step = "storing"
        /\ s.at \in 0..MaxTime /\ s.at <= now
    <3>1. WellFormed(s) /\ RefreshIsRight(s) /\ s.step = "storing"
      BY <2>1 DEF Inv, TypeOK, WellFormed, Synchronize
    <3> QED BY <3>1, WellFormedFields DEF RefreshIsRight
  <2>3. ASSUME NEW r \in Repo
        PROVE  RowPassedOver(s, r) \/ RowWritten(s, r) \/ RowRevoked(s, r)
    BY <1>3, <2>1, RowsAfterSnapshot
  <2>4. UNCHANGED <<github, installed, leadsTo, changed, now>>
    BY <1>1 DEF outside
  <2>5. /\ \A r \in Repo : registry[r] \in Row /\ registry[r].at \in Int /\ registry[r].at <= now
        /\ \A r \in Repo : changed[r] \in Int /\ changed[r] <= now
        /\ now \in Int /\ installed \subseteq Repo
    <3>1. \A r \in Repo : registry[r] \in Row
      BY DEF Inv, TypeOK
    <3>2. \A x \in Row : x.at \in Int
      BY DEF Row
    <3>3. /\ \A r \in Repo : changed[r] \in Int /\ changed[r] <= now /\ registry[r].at <= now
          /\ now \in Int /\ installed \subseteq Repo
      BY DEF Inv, TypeOK, NothingNewer
    <3> QED BY <3>1, <3>2, <3>3
  <2>6. ASSUME NEW r \in Repo, RowRevoked(s, r)
        PROVE  registry'[r] \in Row /\ registry'[r].at = s.at /\ ~registry'[r].accessible
    <3>1. registry[r] \in Row /\ s.at \in 0..MaxTime
      BY <2>2, <2>5
    <3>2. registry'[r] = [registry[r] EXCEPT !.accessible = FALSE, !.at = s.at]
      BY <2>6 DEF RowRevoked
    <3> QED BY <3>1, <3>2, RevokedRow
  <2>7. ASSUME NEW r \in Repo, RowWritten(s, r)
        PROVE  /\ registry'[r] \in Row /\ registry'[r].at = s.at
               /\ changed[r] < s.at => r \in installed /\ Agrees(r)'
    <3>1. PICK i \in DOMAIN s.listed :
            s.listed[i].repo = r /\ registry'[r] = Stored(s.listed[i], s.at)
      BY <2>7 DEF RowWritten
    <3>2. WellFormed(s)
      BY <2>2
    <3>3. /\ registry'[r] \in Row
          /\ registry'[r].at = s.at /\ registry'[r].accessible
          /\ registry'[r].name = s.listed[i].name /\ registry'[r].head = s.listed[i].head
          /\ registry'[r].archived = s.listed[i].archived
      BY <3>1, <3>2, WrittenRow
    <3>4. EntryIsRight(s.listed[i], s.at) /\ s.listed[i].head # 0
      BY <2>2 DEF RefreshIsRight, WellFormed
    <3>5. ASSUME changed[r] < s.at
          PROVE  r \in installed /\ Agrees(r)'
      <4>1. /\ r \in installed
            /\ s.listed[i].name = github[r].name /\ s.listed[i].archived = github[r].archived
            /\ s.listed[i].head = github[r].head
        BY <3>1, <3>4, <3>5 DEF EntryIsRight
      <4> QED BY <2>4, <3>3, <4>1 DEF Agrees
    <3> QED BY <3>3, <3>5
  <2>8. ASSUME NEW r \in Repo, RowStays(r)
        PROVE  registry'[r] = registry[r] /\ (Agrees(r)' <=> Agrees(r))
    BY <2>4, <2>8 DEF RowStays, Agrees
  <2>9. registry' \in [Repo -> Row]
    <3>1. \A r \in Repo : registry'[r] \in Row
      BY <2>3, <2>5, <2>6, <2>7, <2>8 DEF RowPassedOver
    <3>2. registry' = [r \in Repo |-> AfterSnapshot(c, r)]
      BY <1>3 DEF Synchronize
    <3> QED BY <3>1, <3>2
  <2>10. TypeOK' /\ \A d \in Call : RefreshIsRight(call[d])'
    BY <1>1, <2>9, IdleIsRight, RefreshesStayRight DEF Ends
  <2>11. \A r \in Repo : registry'[r].at \in Int /\ registry'[r].at <= now
    BY <2>2, <2>3, <2>5, <2>6, <2>7, <2>8 DEF RowPassedOver
  <2>12. NothingNewer' /\ NamesLead'
    BY <2>4, <2>5, <2>11 DEF NothingNewer, Inv, NamesLead
  <2>13. RowsAreRight'
    <3> SUFFICES ASSUME NEW r \in Repo, registry'[r].accessible, changed[r] < registry'[r].at
                 PROVE  r \in installed /\ Agrees(r)'
      BY <2>4 DEF RowsAreRight
    <3>1. CASE RowPassedOver(s, r)
      BY <2>8, <3>1 DEF RowPassedOver, Inv, RowsAreRight
    <3>2. CASE RowWritten(s, r)
      BY <2>7, <3>2
    <3>3. CASE RowRevoked(s, r)
      BY <2>6, <3>3
    <3> QED BY <2>3, <3>1, <3>2, <3>3
  <2>14. NoneBehind'
    <3> SUFFICES ASSUME NEW r \in installed, NEW q \in Repo, changed[r] < registry'[q].at,
                        ~TwoChanged(registry'[q].at)
                 PROVE  Agrees(r)' /\ registry'[r].at >= registry'[q].at
      BY <2>4 DEF NoneBehind, TwoChanged
    <3>1. r \in Repo
      BY <2>5
    <3>2. ASSUME NEW p \in Repo, changed[r] < registry[p].at, registry[p].at >= registry'[q].at
          PROVE  Agrees(r) /\ registry[r].at >= registry[p].at
      <4>1. ~TwoChanged(registry[p].at)
        BY <2>5, <2>11, <3>2 DEF TwoChanged
      <4> QED BY <3>2, <4>1 DEF Inv, NoneBehind
    <3>3. registry'[q].at = s.at \/ registry'[q].at = registry[q].at
      BY <2>3, <2>6, <2>7, <2>8 DEF RowPassedOver
    <3>4. CASE RowPassedOver(s, r)
      <4>1. registry'[r] = registry[r] /\ (Agrees(r)' <=> Agrees(r))
        BY <2>8, <3>1, <3>4 DEF RowPassedOver
      <4>2. CASE registry'[q].at = registry[q].at
        BY <3>2, <4>1, <4>2, <2>5
      <4>3. CASE registry'[q].at = s.at /\ registry[r].at > s.at
        BY <3>1, <3>2, <4>1, <4>3, <2>2, <2>5
      <4>4. CASE registry'[q].at = s.at /\ ~Lists(s, r)
        <5>1. changed[r] >= s.at \/ TwoChanged(s.at)
          BY <2>2, <4>4 DEF RefreshIsRight, NoneForgotten
        <5> QED BY <2>2, <2>5, <3>1, <4>4, <5>1
      <4> QED BY <3>3, <3>4, <4>2, <4>3, <4>4 DEF RowPassedOver
    <3>5. CASE registry[r].at <= s.at /\ registry'[r].at = s.at
      <4>1. registry'[q].at <= s.at
        <5> SUFFICES ASSUME registry'[q].at > s.at PROVE FALSE
          BY <2>2, <2>11
        <5>1. registry'[q].at = registry[q].at
          BY <2>2, <3>3
        <5>2. registry[r].at >= registry[q].at
          BY <3>2, <5>1, <2>5
        <5> QED BY <2>2, <2>5, <3>1, <3>5, <5>1, <5>2
      <4>2. changed[r] < s.at
        BY <2>2, <2>5, <2>11, <3>1, <4>1
      <4>3. CASE RowWritten(s, r)
        BY <2>7, <3>1, <3>5, <4>1, <4>2, <4>3
      <4>4. CASE ~Lists(s, r)
        <5>1. changed[r] >= s.at \/ TwoChanged(s.at)
          BY <2>2, <4>4 DEF RefreshIsRight, NoneForgotten
        <5>2. TwoChanged(s.at) => TwoChanged(registry'[q].at)
          BY <2>2, <2>5, <2>11, <4>1 DEF TwoChanged
        <5> QED BY <2>2, <2>5, <3>1, <4>2, <5>1, <5>2
      <4>5. CASE RowPassedOver(s, r)
        BY <3>4, <4>5
      <4> QED BY <2>3, <3>1, <4>3, <4>4, <4>5 DEF RowRevoked
    <3>6. RowPassedOver(s, r) \/ (registry[r].at <= s.at /\ registry'[r].at = s.at)
      BY <2>3, <2>6, <2>7, <3>1 DEF RowWritten, RowRevoked
    <3> QED BY <3>4, <3>5, <3>6
  <2> QED BY <2>10, <2>12, <2>13, <2>14 DEF Inv
<1> QED BY <1>2, <1>3

-----------------------------------------------------------------------------

LEMMA InvInit ==
  ASSUME Init
  PROVE  Inv
<1>1. \A c \in Call : call[c] = Idle
  BY DEF Init
<1>2. /\ github \in [Repo -> [name : Name \cup {Unborn, Deleted}, head : 0..MaxHead,
                             archived : BOOLEAN]]
      /\ installed \subseteq Repo /\ leadsTo \in [Name -> SUBSET Repo]
      /\ changed \in [Repo -> 0..MaxTime] /\ now = 1 /\ now \in 1..MaxTime
      /\ events \in 0..MaxEvents
  BY DEF Init
<1>3. registry \in [Repo -> Row] /\ \A r \in Repo : registry[r] = NoRow
  BY DEF Init, NoRow, Row
<1>4. Idle \in Refresh /\ Idle.step = "idle" /\ Idle.at = 0 /\ DOMAIN Idle.listed = {}
  <2>1. Cardinality(Repo) \in Nat /\ <<>> \in Seq(Entry)
    BY InstalledIsFinite, EmptySeq
  <2>2. Idle \in Refresh
    BY <2>1 DEF Idle, Refresh, Step
  <2> QED BY <2>2, EmptySeq DEF Idle
<1>5. TypeOK
  <2>1. call \in [Call -> Refresh]
    BY <1>4 DEF Init
  <2> QED BY <1>1, <1>2, <1>3, <1>4, <2>1 DEF TypeOK
<1>6. NothingNewer
  BY <1>2, <1>3 DEF Init, NothingNewer, NoRow
<1>7. NamesLead
  BY DEF Init, NamesLead
<1>8. \A c \in Call : RefreshIsRight(call[c])
  <2>1. CountIncludes(Idle) /\ NoneForgotten(Idle)
    BY <1>4 DEF CountIncludes, NoneForgotten
  <2> QED BY <1>1, <1>2, <1>4, <2>1 DEF RefreshIsRight
<1>9. RowsAreRight /\ NoneBehind
  BY <1>3 DEF Init, RowsAreRight, NoneBehind, NoRow
<1> QED BY <1>5, <1>6, <1>7, <1>8, <1>9 DEF Inv

LEMMA QuietStepKeepsInv ==
  ASSUME Inv, now' \in 1..MaxTime, now' >= now,
         UNCHANGED <<github, installed, leadsTo, changed, registry, call, events>>
  PROVE  Inv'
<1>1. TypeOK' /\ NamesLead' /\ RowsAreRight' /\ NoneBehind'
  BY DEF Inv, TypeOK, NamesLead, RowsAreRight, NoneBehind, Agrees, TwoChanged
<1>2. NothingNewer'
  <2>1. \A x \in Row : x.at \in Int
    BY DEF Row
  <2>2. \A r \in Repo : changed[r] \in Int /\ registry[r] \in Row
    BY DEF Inv, TypeOK
  <2> QED BY <2>1, <2>2 DEF Inv, TypeOK, NothingNewer
<1>3. ASSUME NEW s, RefreshIsRight(s), s.at \in Int
      PROVE  RefreshIsRight(s)'
  <2>1. s.at <= now'
    BY <1>3 DEF RefreshIsRight, Inv, TypeOK
  <2> QED BY <1>3, <2>1 DEF RefreshIsRight, EntryIsRight, CountIncludes, NoneForgotten, Lists, TwoChanged
<1>4. ASSUME NEW c \in Call
      PROVE  RefreshIsRight(call[c])'
  <2>1. PICK s : s = call[c]
    OBVIOUS
  <2>2. RefreshIsRight(s) /\ s.at \in Int /\ s = call'[c]
    BY <2>1 DEF Inv, TypeOK, Refresh
  <2> QED BY <1>3, <2>2
<1> QED BY <1>1, <1>2, <1>4 DEF Inv

LEMMA InvNext ==
  ASSUME Inv, [Next]_vars
  PROVE  Inv'
<1>1. ASSUME NEW c \in Call, Start(c) \/ CallStep(c)
      PROVE  Inv'
  BY <1>1, StartKeepsInv, ListPageKeepsInv, ReadHeadKeepsInv, SynchronizeKeepsInv DEF CallStep
<1>2. ASSUME NEW c \in Call, Fail(c)
      PROVE  Inv'
  BY <1>2, EndingKeepsInv DEF Fail, Inv, TypeOK
<1>3. CASE GitHubChanges
  BY <1>3, GitHubKeepsInv
<1>4. CASE Tick
  <2>1. /\ now' = now + 1 /\ now' \in 1..MaxTime
        /\ UNCHANGED <<github, installed, leadsTo, changed, registry, call, events>>
    BY <1>4 DEF Tick, outside, Inv, TypeOK
  <2> QED BY <2>1, QuietStepKeepsInv DEF Inv, TypeOK
<1>5. CASE UNCHANGED vars
  <2>1. /\ now' = now /\ UNCHANGED <<github, installed, leadsTo, changed, registry, call, events>>
    BY <1>5 DEF vars, outside
  <2> QED BY <2>1, QuietStepKeepsInv DEF Inv, TypeOK
<1> QED BY <1>1, <1>2, <1>3, <1>4, <1>5 DEF Next

LEMMA Invariance == Spec => []Inv
BY InvInit, InvNext, PTL DEF Spec

(* No listing shows a repository twice, and nothing is stored before its   *)
(* head is read.                                                           *)
THEOREM TypeCorrect == Spec => []TypeOK
<1>1. Inv => TypeOK
  BY DEF Inv
<1> QED BY <1>1, Invariance, PTL

(* However refreshes overlap and fail, and whatever changes on GitHub      *)
(* between their requests, a row with access shows what GitHub has unless  *)
(* its repository changed since the refresh that wrote it began, and none  *)
(* that stayed the same is missing or behind unless two others changed.    *)
THEOREM RegistryMirrors == Spec => []MirrorsTheNewestRefresh
<1>1. Inv => MirrorsTheNewestRefresh
  BY DEF Inv, RowsAreRight, NoneBehind, MirrorsTheNewestRefresh
<1> QED BY <1>1, Invariance, PTL
=============================================================================
