------------------------- MODULE ScopeRefreshProofs -------------------------
(***************************************************************************)
(* Proofs about ScopeRefresh, for any catalogs, repositories, batch limit, *)
(* interval and number of refreshes: the resolver, reading one entity at a *)
(* time, finds a scope exactly when the catalog has one to trust, and what *)
(* is stored is for the name the row has and as old as it says.            *)
(***************************************************************************)
EXTENDS ScopeRefresh, FiniteSetTheorems, SequenceTheorems, TLAPS

USE RepoAssumption, UsualAssumption, BatchAssumption, BoundsAssumption

(* What the resolver looks for, one entity after the other.                *)
ComponentOf(entities, n, c) ==
  /\ Declaring(findComponentsByName(entities, n), n) = {c}
  /\ \E s \in c.partOf : c.partOf = {s} /\ s.kind = "system"
  /\ \E o \in c.ownedBy : c.ownedBy = {o} /\ o.kind = "group"

SystemOf(entities, c, s) == s \in entities /\ c.partOf = {s.ref} /\ s.ownedBy = c.ownedBy

Documented(e) ==
  /\ e.exclusions.valid
  /\ \A l \in e.links : l.type = "other" \/ l.page # None

OwnerOf(entities, c, s, o) ==
  /\ o \in entities /\ c.ownedBy = {o.ref}
  /\ o.channel # None /\ o.channel.valid
  /\ Documented(c) /\ Documented(s) /\ Documented(o)

-----------------------------------------------------------------------------
(* The resolver against the catalog.                                       *)

LEMMA TrustedScopesAreFound ==
  ASSUME NEW k \in Catalogs, NEW n, NEW scope
  PROVE  scope \in TrustedScopes(k, n) <=>
           \E c, s, o \in k : /\ ComponentOf(k, n, c) /\ SystemOf(k, c, s) /\ OwnerOf(k, c, s, o)
                              /\ scope = Scope(n, c, s, o)
<1> DEFINE right(t) ==
             /\ \A e \in k :
                  (e.ref.kind = "component" /\ e.ref.name = n.name /\ e.slug = n) <=> e = t[1]
             /\ t[1].partOf = {t[2].ref} /\ t[2].ref.kind = "system"
             /\ t[1].ownedBy = {t[3].ref} /\ t[2].ownedBy = {t[3].ref} /\ t[3].ref.kind = "group"
             /\ t[3].channel # None /\ t[3].channel.valid
             /\ \A i \in 1..3 : /\ t[i].exclusions.valid
                                /\ \A l \in t[i].links : l.type = "other" \/ l.page # None
           found(c, s, o) == ComponentOf(k, n, c) /\ SystemOf(k, c, s) /\ OwnerOf(k, c, s, o)
<1>1. ASSUME NEW c \in k, NEW s \in k, NEW o \in k
      PROVE  right(<<c, s, o>>) <=> found(c, s, o)
  <2> DEFINE t == <<c, s, o>>
  <2>1. t[1] = c /\ t[2] = s /\ t[3] = o
    OBVIOUS
  <2>2. (\A i \in 1..3 : /\ t[i].exclusions.valid
                         /\ \A l \in t[i].links : l.type = "other" \/ l.page # None)
          <=> Documented(c) /\ Documented(s) /\ Documented(o)
    BY <2>1 DEF Documented
  <2>3. (\A e \in k : (e.ref.kind = "component" /\ e.ref.name = n.name /\ e.slug = n) <=> e = c)
          <=> Declaring(findComponentsByName(k, n), n) = {c}
    BY DEF Declaring, findComponentsByName
  <2> HIDE DEF t
  <2>4. right(t) => found(c, s, o)
    BY <2>1, <2>2, <2>3 DEF ComponentOf, SystemOf, OwnerOf
  <2>5. found(c, s, o) => right(t)
    <3>1. SUFFICES ASSUME found(c, s, o) PROVE right(t)
      OBVIOUS
    <3>2. c.partOf = {s.ref} /\ s.ref.kind = "system"
      BY <3>1 DEF ComponentOf, SystemOf
    <3>3. c.ownedBy = {o.ref} /\ s.ownedBy = {o.ref} /\ o.ref.kind = "group"
      BY <3>1 DEF ComponentOf, SystemOf, OwnerOf
    <3> QED BY <2>1, <2>2, <2>3, <3>1, <3>2, <3>3 DEF ComponentOf, OwnerOf
  <2> QED BY <2>4, <2>5 DEF t
<1>2. scope \in TrustedScopes(k, n) <=>
        \E t \in k \X k \X k : right(t) /\ scope = Scope(n, t[1], t[2], t[3])
  BY DEF TrustedScopes
<1> HIDE DEF right, found
<1>3. ASSUME NEW t \in k \X k \X k, right(t), scope = Scope(n, t[1], t[2], t[3])
      PROVE  \E c, s, o \in k : found(c, s, o) /\ scope = Scope(n, c, s, o)
  <2>1. t = <<t[1], t[2], t[3]>> /\ t[1] \in k /\ t[2] \in k /\ t[3] \in k
    OBVIOUS
  <2>2. found(t[1], t[2], t[3])
    BY <1>1, <1>3, <2>1
  <2> QED BY <1>3, <2>1, <2>2
<1>4. ASSUME NEW c \in k, NEW s \in k, NEW o \in k, found(c, s, o), scope = Scope(n, c, s, o)
      PROVE  \E t \in k \X k \X k : right(t) /\ scope = Scope(n, t[1], t[2], t[3])
  <2> DEFINE t == <<c, s, o>>
  <2>1. t \in k \X k \X k /\ t[1] = c /\ t[2] = s /\ t[3] = o
    OBVIOUS
  <2>2. right(t)
    BY <1>1, <1>4
  <2> HIDE DEF t
  <2> QED BY <1>4, <2>1, <2>2
<1>5. (\E c, s, o \in k : found(c, s, o) /\ scope = Scope(n, c, s, o)) <=>
        \E t \in k \X k \X k : right(t) /\ scope = Scope(n, t[1], t[2], t[3])
  BY <1>3, <1>4
<1> QED BY <1>2, <1>5 DEF found

LEMMA TheOnly ==
  ASSUME NEW S, NEW x, S = {x}
  PROVE  The(S) = x
BY DEF The

LEMMA SingleRelations ==
  ASSUME NEW targets, IsFiniteSet(targets), NEW kind
  PROVE  SingleRelation(targets, kind) <=> \E x \in targets : targets = {x} /\ x.kind = kind
<1>1. Cardinality(targets) = 1 <=> \E x : targets = {x}
  BY FS_Singleton
<1>2. \A x : targets = {x} => The(targets) = x
  BY TheOnly
<1> QED BY <1>1, <1>2 DEF SingleRelation

LEMMA EntitiesAreFinite ==
  ASSUME NEW k \in Catalogs, NEW S \in SUBSET k
  PROVE  /\ IsFiniteSet(S)
         /\ \A e \in S : e \in Entity /\ IsFiniteSet(e.partOf) /\ IsFiniteSet(e.ownedBy)
<1>1. IsFiniteSet(S)
  BY CatalogAssumption, FS_Subset
<1> QED BY <1>1, CatalogAssumption DEF Entity

(* The component is the one the catalog means, or there is none.           *)
LEMMA ComponentFound ==
  ASSUME NEW k \in Catalogs, NEW n,
         NEW components, components = findComponentsByName(k, n),
         NEW c, c = The(Declaring(components, n)),
         NEW verdict, verdict = ComponentVerdict(components, n)
  PROVE  /\ verdict \in Diagnostic \cup {Trusted}
         /\ verdict = Trusted => c \in k /\ ComponentOf(k, n, c)
         /\ verdict # Trusted => \A e : ~ComponentOf(k, n, e)
<1> DEFINE matches == Declaring(components, n)
<1>1. matches \subseteq k /\ (components = {} => matches = {})
  BY DEF Declaring, findComponentsByName
<1>2. IsFiniteSet(matches) /\ Cardinality(matches) \in Nat
  BY <1>1, EntitiesAreFinite, FS_CardinalityType
<1>3. \A e : matches = {e} => c = e
  BY TheOnly
<1>4. \A e : ComponentOf(k, n, e) => matches = {e} /\ e \in matches
  BY DEF ComponentOf
<1> HIDE DEF matches
<1>5. CASE matches = {}
  <2>1. verdict \in {"COMPONENT_NOT_FOUND", "COMPONENT_PROJECT_SLUG_MISMATCH"}
    BY <1>5 DEF ComponentVerdict, matches
  <2> QED BY <1>4, <1>5, <2>1 DEF Diagnostic, Trusted
<1>6. CASE matches # {} /\ Cardinality(matches) > 1
  <2>1. verdict = "COMPONENT_AMBIGUOUS"
    BY <1>1, <1>6 DEF ComponentVerdict, matches
  <2>2. \A e : matches # {e}
    <3>1. \A e : matches = {e} => Cardinality(matches) = 1
      BY FS_Singleton
    <3> QED BY <1>6, <3>1
  <2> QED BY <1>4, <2>1, <2>2 DEF Diagnostic, Trusted
<1>7. CASE matches # {} /\ ~(Cardinality(matches) > 1)
  <2>1. Cardinality(matches) = 1
    <3>1. Cardinality(matches) # 0
      BY <1>2, <1>7, FS_EmptySet
    <3> QED BY <1>2, <1>7, <3>1
  <2>2. matches = {c}
    <3>1. \E e : matches = {e}
      BY <1>2, <2>1, FS_Singleton
    <3> QED BY <1>3, <3>1
  <2>3. c \in k /\ IsFiniteSet(c.partOf) /\ IsFiniteSet(c.ownedBy)
    BY <1>1, <2>2, EntitiesAreFinite
  <2>4. ComponentOf(k, n, c) <=>
          SingleRelation(c.partOf, "system") /\ SingleRelation(c.ownedBy, "group")
    BY <2>2, <2>3, SingleRelations DEF ComponentOf, matches
  <2>5. verdict = IF ~SingleRelation(c.partOf, "system") THEN "COMPONENT_SYSTEM_RELATION_INVALID"
                  ELSE IF ~SingleRelation(c.ownedBy, "group")
                    THEN "COMPONENT_OWNER_RELATION_INVALID"
                  ELSE Trusted
    BY <1>1, <1>7 DEF ComponentVerdict, matches
  <2> QED BY <1>3, <1>4, <2>3, <2>4, <2>5 DEF Diagnostic, Trusted
<1> QED BY <1>5, <1>6, <1>7

(* An entity that is read is the one its reference leads to.               *)
LEMMA ReadByRef ==
  ASSUME NEW k \in Catalogs, NEW ref, NEW found, found = getEntityByRef(k, ref), found # {}
  PROVE  /\ The(found) \in k /\ The(found).ref = ref
         /\ \A e \in k : e.ref = ref => e = The(found)
<1>1. The(found) \in found
  BY DEF The
<1> QED BY <1>1, CatalogAssumption DEF getEntityByRef

LEMMA SystemFound ==
  ASSUME NEW k \in Catalogs, NEW c,
         NEW systems, systems = getEntityByRef(k, The(c.partOf)),
         NEW verdict, verdict = SystemVerdict(c, systems)
  PROVE  /\ verdict \in Diagnostic \cup {Trusted}
         /\ verdict = Trusted => The(systems) \in k
         /\ \A n : ComponentOf(k, n, c) =>
              IF verdict = Trusted THEN SystemOf(k, c, The(systems)) ELSE \A e : ~SystemOf(k, c, e)
<1>1. CASE systems = {}
  <2>1. verdict = "SYSTEM_NOT_FOUND"
    BY <1>1 DEF SystemVerdict
  <2>2. \A e : ~SystemOf(k, c, e)
    <3>1. \A e : c.partOf = {e.ref} => The(c.partOf) = e.ref
      BY TheOnly
    <3> QED BY <1>1, <3>1 DEF SystemOf, getEntityByRef
  <2> QED BY <2>1, <2>2 DEF Diagnostic, Trusted
<1>2. CASE systems # {}
  <2> DEFINE s == The(systems)
  <2>1. s \in k /\ s.ref = The(c.partOf) /\ \A e \in k : e.ref = The(c.partOf) => e = s
    BY <1>2, ReadByRef
  <2>2. verdict = IF ~SingleRelation(s.ownedBy, "group") THEN "SYSTEM_OWNER_RELATION_INVALID"
                  ELSE IF s.ownedBy # c.ownedBy THEN "OWNERSHIP_MISMATCH" ELSE Trusted
    BY <1>2 DEF SystemVerdict
  <2> HIDE DEF s
  <2>3. \A e : SystemOf(k, c, e) => e = s
    <3>1. \A e : c.partOf = {e.ref} => The(c.partOf) = e.ref
      BY TheOnly
    <3> QED BY <2>1, <3>1 DEF SystemOf
  <2>4. ASSUME NEW n, ComponentOf(k, n, c)
        PROVE  SystemOf(k, c, s) <=> SingleRelation(s.ownedBy, "group") /\ s.ownedBy = c.ownedBy
    <3>1. c.partOf = {s.ref}
      <4>1. PICK x : c.partOf = {x}
        BY <2>4 DEF ComponentOf
      <4>2. The(c.partOf) = x
        BY <4>1, TheOnly
      <4> QED BY <2>1, <4>1, <4>2
    <3>2. \E o \in c.ownedBy : c.ownedBy = {o} /\ o.kind = "group"
      BY <2>4 DEF ComponentOf
    <3>3. IsFiniteSet(s.ownedBy)
      BY <2>1, CatalogAssumption
    <3>4. SingleRelation(s.ownedBy, "group") <=> \E x \in s.ownedBy : s.ownedBy = {x} /\ x.kind = "group"
      BY <3>3, SingleRelations
    <3> QED BY <2>1, <3>1, <3>2, <3>4 DEF SystemOf
  <2>5. verdict \in Diagnostic \cup {Trusted}
    BY <2>2 DEF Diagnostic
  <2>6. verdict = Trusted <=> SingleRelation(s.ownedBy, "group") /\ s.ownedBy = c.ownedBy
    BY <2>2 DEF Trusted
  <2> QED BY <2>1, <2>3, <2>4, <2>5, <2>6 DEF s
<1> QED BY <1>1, <1>2

LEMMA EntityDocumented ==
  ASSUME NEW e \in Entity
  PROVE  /\ DocumentationVerdict(e) \in Diagnostic \cup {Trusted}
         /\ DocumentationVerdict(e) = Trusted <=> Documented(e)
<1>1. \A l \in e.links : l.type \in {"exact", "root", "other"}
  BY CatalogAssumption DEF Entity
<1>2. (\E l \in Documenting(e) : l.page = None) <=> ~\A l \in e.links : l.type = "other" \/ l.page # None
  BY <1>1 DEF Documenting
<1>3. DocumentationVerdict(e) =
        IF ~e.exclusions.valid THEN "CONFLUENCE_EXCLUSIONS_INVALID"
        ELSE IF \E l \in Documenting(e) : l.page = None THEN "CONFLUENCE_LINK_INVALID"
        ELSE Trusted
  BY DEF DocumentationVerdict
<1>4. DocumentationVerdict(e) = Trusted <=>
        e.exclusions.valid /\ ~\E l \in Documenting(e) : l.page = None
  BY <1>3 DEF Trusted
<1>5. DocumentationVerdict(e) \in Diagnostic \cup {Trusted}
  BY <1>3 DEF Diagnostic
<1> QED BY <1>2, <1>4, <1>5 DEF Documented

LEMMA SmallestOfThree ==
  ASSUME NEW S \in SUBSET (1..3), S # {}
  PROVE  Min(S) \in S
<1>1. \E x \in S : \A y \in S : x <= y
  <2>1. CASE 1 \in S
    BY <2>1
  <2>2. CASE 1 \notin S /\ 2 \in S
    BY <2>2
  <2>3. CASE 1 \notin S /\ 2 \notin S
    <3>1. \A x \in S : x = 3
      BY <2>3
    <3>2. PICK x : x \in S
      OBVIOUS
    <3> QED BY <3>1, <3>2
  <2> QED BY <2>1, <2>2, <2>3
<1> QED BY <1>1 DEF Min

LEMMA AllDocumented ==
  ASSUME NEW c \in Entity, NEW s \in Entity, NEW o \in Entity,
         NEW verdict, verdict = CollectVerdict(<<c, s, o>>)
  PROVE  /\ verdict \in Diagnostic \cup {Trusted}
         /\ verdict = Trusted <=> Documented(c) /\ Documented(s) /\ Documented(o)
<1> DEFINE entities == <<c, s, o>>
           faulty == {i \in DOMAIN entities : DocumentationVerdict(entities[i]) # Trusted}
<1>1. /\ DOMAIN entities = 1..3
      /\ entities[1] = c /\ entities[2] = s /\ entities[3] = o
  OBVIOUS
<1>2. \A i \in 1..3 : entities[i] \in Entity
  BY <1>1
<1>3. verdict = IF faulty = {} THEN Trusted ELSE DocumentationVerdict(entities[Min(faulty)])
  BY DEF CollectVerdict
<1> HIDE DEF entities
<1>4. CASE faulty = {}
  <2>1. \A i \in 1..3 : Documented(entities[i])
    BY <1>1, <1>2, <1>4, EntityDocumented
  <2> QED BY <1>1, <1>3, <1>4, <2>1
<1>5. CASE faulty # {}
  <2>1. faulty \subseteq 1..3
    BY <1>1
  <2>2. Min(faulty) \in faulty
    <3> HIDE DEF faulty
    <3> QED BY <1>5, <2>1, SmallestOfThree
  <2>3. PICK i \in faulty : verdict = DocumentationVerdict(entities[i])
    <3> HIDE DEF faulty
    <3> QED BY <1>3, <1>5, <2>2
  <2>4. i \in 1..3 /\ verdict # Trusted
    BY <1>1, <2>3
  <2>5. verdict \in Diagnostic /\ ~Documented(entities[i])
    BY <1>2, <2>3, <2>4, EntityDocumented
  <2> QED BY <1>1, <2>4, <2>5
<1> QED BY <1>4, <1>5

LEMMA OwnerFound ==
  ASSUME NEW k \in Catalogs, NEW c \in Entity, NEW s \in Entity,
         NEW owners, owners = getEntityByRef(k, The(c.ownedBy)),
         NEW verdict, verdict = OwnerVerdict(c, s, owners)
  PROVE  /\ verdict \in Diagnostic \cup {Trusted}
         /\ verdict = Trusted => The(owners) \in k
         /\ \A n : ComponentOf(k, n, c) =>
              IF verdict = Trusted THEN OwnerOf(k, c, s, The(owners)) ELSE \A e : ~OwnerOf(k, c, s, e)
<1>1. CASE owners = {}
  <2>1. verdict = "OWNER_NOT_FOUND"
    BY <1>1 DEF OwnerVerdict
  <2>2. \A e : ~OwnerOf(k, c, s, e)
    <3>1. \A e : c.ownedBy = {e.ref} => The(c.ownedBy) = e.ref
      BY TheOnly
    <3> QED BY <1>1, <3>1 DEF OwnerOf, getEntityByRef
  <2> QED BY <2>1, <2>2 DEF Diagnostic, Trusted
<1>2. CASE owners # {}
  <2> DEFINE o == The(owners)
  <2>1. o \in k /\ o.ref = The(c.ownedBy) /\ \A e \in k : e.ref = The(c.ownedBy) => e = o
    BY <1>2, ReadByRef
  <2>2. verdict = IF o.channel = None THEN "SLACK_ROUTE_MISSING"
                  ELSE IF ~o.channel.valid THEN "SLACK_ROUTE_INVALID"
                  ELSE CollectVerdict(<<c, s, o>>)
    BY <1>2 DEF OwnerVerdict
  <2> HIDE DEF o
  <2>3. \A e : OwnerOf(k, c, s, e) => e = o
    <3>1. \A e : c.ownedBy = {e.ref} => The(c.ownedBy) = e.ref
      BY TheOnly
    <3> QED BY <2>1, <3>1 DEF OwnerOf
  <2> DEFINE collected == CollectVerdict(<<c, s, o>>)
  <2>4. /\ collected \in Diagnostic \cup {Trusted}
        /\ collected = Trusted <=> Documented(c) /\ Documented(s) /\ Documented(o)
    <3>1. o \in Entity
      BY <2>1 DEF Entity
    <3> QED BY <3>1, AllDocumented
  <2> HIDE DEF collected
  <2>5. verdict = Trusted <=> /\ o.channel # None /\ o.channel.valid
                              /\ Documented(c) /\ Documented(s) /\ Documented(o)
    BY <2>2, <2>4 DEF collected, Trusted
  <2>6. verdict \in Diagnostic \cup {Trusted}
    BY <2>2, <2>4 DEF collected, Diagnostic
  <2>7. ASSUME NEW n, ComponentOf(k, n, c)
        PROVE  OwnerOf(k, c, s, o) <=> verdict = Trusted
    <3>1. c.ownedBy = {o.ref}
      <4>1. PICK x : c.ownedBy = {x}
        BY <2>7 DEF ComponentOf
      <4>2. The(c.ownedBy) = x
        BY <4>1, TheOnly
      <4> QED BY <2>1, <4>1, <4>2
    <3> QED BY <2>1, <2>5, <3>1 DEF OwnerOf
  <2> QED BY <2>1, <2>3, <2>6, <2>7 DEF o
<1> QED BY <1>1, <1>2

(* Nothing can be trusted when the resolver does not find an entity.       *)
LEMMA NothingToTrust ==
  ASSUME NEW k \in Catalogs, NEW n, NEW c, NEW s
  PROVE  /\ (\A e : ~ComponentOf(k, n, e)) => TrustedScopes(k, n) = {}
         /\ ComponentOf(k, n, c) /\ (\A e : ~SystemOf(k, c, e)) => TrustedScopes(k, n) = {}
         /\ ComponentOf(k, n, c) /\ SystemOf(k, c, s) /\ (\A e : ~OwnerOf(k, c, s, e))
              => TrustedScopes(k, n) = {}
<1>1. ASSUME NEW scope \in TrustedScopes(k, n)
      PROVE  /\ \E e : ComponentOf(k, n, e)
             /\ ComponentOf(k, n, c) => \E e : SystemOf(k, c, e)
             /\ ComponentOf(k, n, c) /\ SystemOf(k, c, s) => \E e : OwnerOf(k, c, s, e)
  <2>1. PICK d \in k, t \in k, o \in k :
          ComponentOf(k, n, d) /\ SystemOf(k, d, t) /\ OwnerOf(k, d, t, o)
    BY <1>1, TrustedScopesAreFound
  <2>2. ComponentOf(k, n, c) => d = c
    BY <2>1 DEF ComponentOf
  <2>3. ComponentOf(k, n, c) /\ SystemOf(k, c, s) => s = t
    <3>1. SUFFICES ASSUME ComponentOf(k, n, c), SystemOf(k, c, s) PROVE s = t
      OBVIOUS
    <3>2. s \in k /\ c.partOf = {s.ref} /\ c.partOf = {t.ref}
      BY <2>1, <2>2, <3>1 DEF SystemOf
    <3>3. s.ref = t.ref
      BY <3>2
    <3> QED BY <3>2, <3>3, CatalogAssumption
  <2> QED BY <2>1, <2>2, <2>3
<1> QED BY <1>1

-----------------------------------------------------------------------------
(* The state of a refresh, and of a row.                                   *)

Reading(s) == s.step \in {"components", "system", "owner", "store"}

Found(s) == s.step = "store" /\ s.verdict = Trusted

WellFormed(s) ==
  /\ s \in Refresh
  /\ Len(s.batch) <= Limit /\ IsInjective(s.batch)
  /\ Found(s) => Len(s.read) = 3
  /\ s.step \notin {"idle", "inventory"} => s.batch # <<>>
  /\ Reading(s) => s.name \in Name
  /\ s.step \in {"idle", "inventory", "target", "components"} => Len(s.read) = 0
  /\ s.step = "system" => Len(s.read) = 1
  /\ s.step = "owner" => Len(s.read) = 2
  /\ s.step # "store" => s.verdict = Trusted

(* What was read since the catalog changed is what the catalog means.      *)
ReadIsRight(entities, s) ==
  /\ s.step \in {"system", "owner"} \/ Found(s) => ComponentOf(entities, s.name, s.read[1])
  /\ s.step = "owner" \/ Found(s) => SystemOf(entities, s.read[1], s.read[2])
  /\ Found(s) => OwnerOf(entities, s.read[1], s.read[2], s.read[3])
  /\ s.step = "store" /\ s.verdict # Trusted => TrustedScopes(entities, s.name) = {}

CallIsRight(entities, since, s) ==
  WellFormed(s) /\ (s.age < since => ReadIsRight(entities, s))

AsIn(entities, w) ==
  LET scopes == TrustedScopes(entities, w.name)
  IN  IF scopes = {} THEN w.status = "REPO_ONLY" ELSE w.status = "RESOLVED" /\ w.scope \in scopes

RowIsRight(entities, since, w) ==
  /\ w \in Row
  /\ w.scope # None => w.scope.repository = w.name
  /\ w.age # Never /\ w.age < since => AsIn(entities, w)

(* What was read so far, and the rows, are as the catalog was when it last *)
(* changed before, unless they are older than the change.                  *)
Inv ==
  /\ catalog \in Catalogs /\ settled \in 0..MaxAge /\ events \in 0..MaxEvents
  /\ call \in [Call -> Refresh] /\ row \in [Repo -> Row]
  /\ \A c \in Call : CallIsRight(catalog, settled, call[c])
  /\ \A r \in Repo : RowIsRight(catalog, settled, row[r])

LEMMA InvIsEnough ==
  ASSUME Inv
  PROVE  TypeOK /\ ScopeIsForItsName /\ AgeIsTruthful
<1>1. TypeOK
  BY DEF Inv, TypeOK, CallIsRight, WellFormed, Found
<1>2. ScopeIsForItsName
  BY DEF Inv, RowIsRight, ScopeIsForItsName
<1>3. AgeIsTruthful
  BY DEF Inv, RowIsRight, AsIn, AgeIsTruthful, AsInCatalog
<1> QED BY <1>1, <1>2, <1>3

LEMMA IdleIsRight ==
  ASSUME NEW k, NEW t
  PROVE  CallIsRight(k, t, Idle)
<1>1. <<>> \in Seq(Repo) /\ <<>> \in Seq(Entity) /\ Len(<<>>) = 0
  BY EmptySeq
<1>2. IsInjective(<<>>)
  BY DEF IsInjective
<1>3. /\ Idle.step = "idle" /\ Idle.age = 0 /\ Idle.batch = <<>> /\ Idle.read = <<>>
      /\ Idle.verdict = Trusted
  BY DEF Idle
<1>4. Idle \in Refresh
  BY <1>1 DEF Idle, Refresh, Step
<1>5. WellFormed(Idle)
  BY <1>1, <1>2, <1>3, <1>4 DEF WellFormed, Found, Reading
<1> QED BY <1>3, <1>5 DEF CallIsRight, ReadIsRight, Found

LEMMA RefreshFields ==
  ASSUME NEW s \in Refresh
  PROVE  /\ s.step \in Step /\ s.age \in 0..MaxCallAge /\ s.batch \in Seq(Repo)
         /\ s.name \in Name \cup {None} /\ s.read \in Seq(Entity)
         /\ s.verdict \in Diagnostic \cup {Trusted}
BY DEF Refresh

(* The next repository of the batch, or the end.                           *)
LEMMA NextIsRight ==
  ASSUME NEW k, NEW t, NEW s, CallIsRight(k, t, s), s.step \notin {"idle", "inventory"}
  PROVE  CallIsRight(k, t, WithNext(s))
<1>1. CASE Len(s.batch) = 1
  BY <1>1, IdleIsRight DEF WithNext
<1>2. CASE Len(s.batch) # 1
  <2> DEFINE x == WithNext(s)
             batch == s.batch
  <2>1. s \in Refresh /\ batch # <<>> /\ Len(batch) <= Limit /\ IsInjective(batch)
    BY DEF CallIsRight, WellFormed
  <2>2. batch \in Seq(Repo) /\ s.age \in 0..MaxCallAge
    BY <2>1, RefreshFields
  <2>3. /\ x.step = "target" /\ x.age = s.age /\ x.batch = Tail(batch) /\ x.read = <<>>
        /\ x.name = None /\ x.verdict = Trusted
    BY <1>2 DEF WithNext, Idle
  <2>4. x = [step |-> "target", age |-> s.age, batch |-> Tail(batch), name |-> None,
             read |-> <<>>, verdict |-> Trusted]
    BY <1>2 DEF WithNext, Idle
  <2>0. Len(batch) # 1
    BY <1>2
  <2> HIDE DEF batch, x
  <2>5. /\ Tail(batch) \in Seq(Repo) /\ Len(Tail(batch)) = Len(batch) - 1 /\ Len(batch) \in Nat
        /\ DOMAIN batch = 1..Len(batch) /\ DOMAIN Tail(batch) = 1..Len(Tail(batch))
        /\ \A i \in 1..Len(Tail(batch)) : Tail(batch)[i] = batch[i + 1]
    BY <2>1, <2>2, HeadTailProperties, LenProperties
  <2>6. Tail(batch) # <<>>
    <3>1. Len(batch) # 0
      BY <2>1, <2>2, EmptySeq
    <3>2. Len(Tail(batch)) # 0
      BY <2>0, <2>5, <3>1
    <3>3. Tail(batch) = <<>> => Len(Tail(batch)) = 0
      BY EmptySeq
    <3> QED BY <3>2, <3>3
  <2>7. IsInjective(Tail(batch))
    BY <2>1, <2>5 DEF IsInjective
  <2>8. <<>> \in Seq(Entity) /\ Len(<<>>) = 0
    BY EmptySeq
  <2>9. x \in Refresh
    BY <2>2, <2>4, <2>5, <2>8 DEF Refresh, Step
  <2>10. WellFormed(x)
    <3>1. Len(x.batch) <= Limit
      BY <2>1, <2>3, <2>5
    <3> QED BY <2>3, <2>6, <2>7, <2>8, <2>9, <3>1 DEF WellFormed, Found, Reading
  <2> QED BY <2>3, <2>10 DEF CallIsRight, ReadIsRight, Found, x
<1> QED BY <1>1, <1>2

LEMMA Judged ==
  ASSUME NEW k, NEW t, NEW s, CallIsRight(k, t, s),
         Reading(s), s.step # "store",
         NEW verdict \in Diagnostic,
         s.age < t => TrustedScopes(k, s.name) = {},
         NEW x, x = [s EXCEPT !.step = "store", !.verdict = verdict, !.read = <<>>]
  PROVE  CallIsRight(k, t, x)
<1>1. WellFormed(s) /\ s \in Refresh
  BY DEF CallIsRight, WellFormed
<1>2. <<>> \in Seq(Entity)
  BY EmptySeq
<1>3. x \in Refresh
  BY <1>1, <1>2 DEF Refresh, Step
<1>4. /\ x.step = "store" /\ x.verdict = verdict
      /\ x.age = s.age /\ x.batch = s.batch /\ x.name = s.name
  BY <1>1 DEF Refresh
<1>5. verdict # Trusted
  BY DEF Diagnostic, Trusted
<1>6. WellFormed(x)
  BY <1>1, <1>3, <1>4, <1>5 DEF WellFormed, Found, Reading
<1> QED BY <1>4, <1>5, <1>6 DEF CallIsRight, ReadIsRight, Found

-----------------------------------------------------------------------------
(* Rows.                                                                   *)

LEMMA RowFields ==
  ASSUME NEW w \in Row
  PROVE  /\ w = [name |-> w.name, active |-> w.active, status |-> w.status,
                 diagnostic |-> w.diagnostic, scope |-> w.scope, age |-> w.age]
         /\ w.name \in Name /\ w.active \in BOOLEAN
         /\ w.age \in 0..MaxAge \/ w.age = Never
         /\ \/ /\ w.status = "PENDING" /\ w.diagnostic = None /\ w.scope = None /\ w.age = Never
            \/ /\ w.status = "REPO_ONLY" /\ w.diagnostic \in Diagnostic /\ w.scope = None
               /\ w.age \in 0..MaxAge
            \/ /\ w.status = "RESOLVED" /\ w.diagnostic = None /\ w.scope \in Scopes
               /\ w.age \in 0..MaxAge
BY DEF Row

LEMMA RowFromFields ==
  ASSUME NEW name \in Name, NEW active \in BOOLEAN, NEW status, NEW diagnostic, NEW scope, NEW age,
         \/ /\ status = "PENDING" /\ diagnostic = None /\ scope = None /\ age = Never
         \/ /\ status = "REPO_ONLY" /\ diagnostic \in Diagnostic /\ scope = None
            /\ age \in 0..MaxAge
         \/ /\ status = "RESOLVED" /\ diagnostic = None /\ scope \in Scopes /\ age \in 0..MaxAge,
         NEW w, w = [name |-> name, active |-> active, status |-> status,
                     diagnostic |-> diagnostic, scope |-> scope, age |-> age]
  PROVE  w \in Row
BY DEF Row

LEMMA InitInv ==
  ASSUME Init
  PROVE  Inv
<1>1. settled \in 0..MaxAge /\ events \in 0..MaxEvents /\ catalog \in Catalogs
  BY DEF Init, MaxAge
<1>2. ASSUME NEW r \in Repo
      PROVE  row[r] \in Row /\ RowIsRight(catalog, settled, row[r])
  <2> DEFINE w == row[r]
  <2>1. w = [name |-> InitialName[r], active |-> TRUE, status |-> "PENDING",
             diagnostic |-> None, scope |-> None, age |-> Never]
    BY DEF Init
  <2>2. w.scope = None /\ w.age = Never
    BY <2>1
  <2>3. w \in Row
    <3>1. InitialName[r] \in Name
      BY InitialNameAssumption
    <3> QED BY <2>1, <3>1, RowFromFields
  <2> QED BY <2>2, <2>3 DEF RowIsRight
<1>3. ASSUME NEW c \in Call
      PROVE  call[c] \in Refresh /\ CallIsRight(catalog, settled, call[c])
  BY IdleIsRight DEF Init, CallIsRight, WellFormed
<1>4. row \in [Repo -> Row] /\ call \in [Call -> Refresh]
  BY <1>2, <1>3 DEF Init
<1> QED BY <1>1, <1>2, <1>3, <1>4 DEF Inv

-----------------------------------------------------------------------------
(* Steps of a refresh.                                                     *)

LEMMA OneCallMoves ==
  ASSUME Inv, NEW c \in Call, NEW x, CallIsRight(catalog, settled, x), Becomes(c, x),
         UNCHANGED <<row, catalog, settled>>, events' \in 0..MaxEvents
  PROVE  Inv'
<1>1. call' = [call EXCEPT ![c] = x] /\ x \in Refresh
  BY DEF Becomes, CallIsRight, WellFormed
<1>2. call' \in [Call -> Refresh]
  BY <1>1 DEF Inv
<1>3. \A d \in Call : CallIsRight(catalog, settled, call'[d])
  BY <1>1 DEF Inv
<1> QED BY <1>2, <1>3 DEF Inv

LEMMA CallIsOf ==
  ASSUME Inv, NEW c \in Call
  PROVE  /\ CallIsRight(catalog, settled, call[c])
         /\ call[c] \in Refresh /\ WellFormed(call[c])
         /\ catalog \in Catalogs
BY DEF Inv, CallIsRight, WellFormed

LEMMA StartKeeps ==
  ASSUME Inv, NEW c \in Call, Start(c)
  PROVE  Inv'
<1> DEFINE x == [Idle EXCEPT !.step = "inventory"]
<1>1. WellFormed(Idle) /\ Idle \in Refresh
  BY IdleIsRight DEF CallIsRight, WellFormed
<1>2. x \in Refresh
  BY <1>1 DEF Refresh, Step
<1>3. /\ x.step = "inventory" /\ x.age = Idle.age /\ x.batch = Idle.batch /\ x.read = Idle.read
      /\ x.name = Idle.name /\ x.verdict = Idle.verdict /\ Idle.step = "idle"
  BY DEF Idle
<1>4. Becomes(c, x) /\ UNCHANGED <<row, catalog, settled, events>>
  BY DEF Start, Reads
<1> HIDE DEF x
<1>5. CallIsRight(catalog, settled, x)
  BY <1>1, <1>2, <1>3 DEF CallIsRight, WellFormed, ReadIsRight, Found, Reading
<1>6. events' \in 0..MaxEvents
  BY <1>4 DEF Inv
<1> QED BY <1>4, <1>5, <1>6, OneCallMoves

LEMMA SmallerOfTwo ==
  ASSUME NEW a \in Nat, NEW b \in Nat
  PROVE  Min({a, b}) \in Nat /\ Min({a, b}) <= a /\ Min({a, b}) <= b
<1>1. \E x \in {a, b} : \A y \in {a, b} : x <= y
  <2>1. CASE a <= b
    BY <2>1
  <2>2. CASE b <= a
    BY <2>2
  <2> QED BY <2>1, <2>2
<1>2. Min({a, b}) \in {a, b} /\ \A y \in {a, b} : Min({a, b}) <= y
  BY <1>1 DEF Min
<1> QED BY <1>2

LEMMA SelectBatchKeeps ==
  ASSUME Inv, NEW c \in Call, SelectBatch(c)
  PROVE  Inv'
<1> DEFINE candidates == Candidates(call[c].age)
           size == Min({Limit, Cardinality(candidates)})
<1>1. PICK batch \in [1..size -> candidates] :
        /\ \A i \in DOMAIN batch, r \in candidates :
             Before(r, batch[i]) <=> \E j \in 1..(i - 1) : batch[j] = r
        /\ Reads(c, IF batch = <<>> THEN Idle
                    ELSE [call[c] EXCEPT !.step = "target", !.batch = batch])
  BY DEF SelectBatch
<1>2. candidates \in SUBSET Repo
  BY DEF Candidates
<1> HIDE DEF candidates
<1>3. size \in Nat /\ size <= Limit
  <2>1. Cardinality(candidates) \in Nat
    BY <1>2, FS_Subset, FS_CardinalityType
  <2> QED BY <2>1, SmallerOfTwo
<1> HIDE DEF size
<1>4. batch \in Seq(Repo) /\ Len(batch) = size /\ DOMAIN batch = 1..size
  <2>1. batch \in [1..size -> Repo]
    BY <1>2
  <2>2. batch \in Seq(Repo)
    BY <1>3, <2>1, SeqDef
  <2>3. Len(batch) \in Nat /\ DOMAIN batch = 1..Len(batch)
    BY <2>2, LenProperties
  <2> QED BY <1>3, <2>1, <2>2, <2>3
<1>5. IsInjective(batch)
  <2>1. \A r \in Repo : ~Before(r, r)
    <3> SUFFICES ASSUME NEW r \in Repo PROVE ~Before(r, r)
      OBVIOUS
    <3>1. Rank(r) \in Int
      BY DEF Rank
    <3>2. row[r].age \in Int
      <4>1. row[r] \in Row
        BY DEF Inv
      <4>2. row[r].age \in 0..MaxAge \/ row[r].age = Never
        BY <4>1, RowFields
      <4> QED BY <4>2 DEF Never, MaxAge
    <3>3. GithubId[r] \in Int
      BY GithubIdAssumption
    <3> QED BY <3>1, <3>2, <3>3 DEF Before
  <2>2. ASSUME NEW i \in 1..size, NEW j \in 1..size, batch[i] = batch[j], i < j
        PROVE  FALSE
    <3>1. batch[i] \in candidates /\ batch[i] \in Repo
      BY <1>2
    <3>2. i \in 1..(j - 1)
      BY <2>2
    <3>3. Before(batch[i], batch[j])
      BY <1>1, <1>4, <3>1, <3>2
    <3> QED BY <2>1, <2>2, <3>1, <3>3
  <2> QED BY <1>4, <2>2 DEF IsInjective
<1>6. CASE batch = <<>>
  <2>1. Becomes(c, Idle) /\ UNCHANGED <<row, catalog, settled, events>>
    BY <1>1, <1>6 DEF Reads
  <2>2. events' \in 0..MaxEvents
    BY <2>1 DEF Inv
  <2> QED BY <2>1, <2>2, IdleIsRight, OneCallMoves
<1>7. CASE batch # <<>>
  <2> DEFINE x == [call[c] EXCEPT !.step = "target", !.batch = batch]
  <2>1. Becomes(c, x) /\ UNCHANGED <<row, catalog, settled, events>>
    BY <1>1, <1>7 DEF Reads
  <2>2. PICK s \in Refresh : s = call[c] /\ WellFormed(s) /\ s.step = "inventory"
    BY CallIsOf DEF SelectBatch
  <2>3. /\ x \in Refresh /\ x.step = "target" /\ x.batch = batch /\ x.age = s.age /\ x.read = s.read
        /\ x.verdict = s.verdict
    BY <1>4, <2>2 DEF Refresh, Step
  <2> HIDE DEF x
  <2>4. Len(x.read) = 0
    BY <2>2, <2>3 DEF WellFormed
  <2>5. WellFormed(x)
    BY <1>3, <1>4, <1>5, <1>7, <2>2, <2>3, <2>4 DEF WellFormed, Found, Reading
  <2>6. CallIsRight(catalog, settled, x)
    BY <2>3, <2>5 DEF CallIsRight, ReadIsRight, Found
  <2>7. events' \in 0..MaxEvents
    BY <2>1 DEF Inv
  <2> QED BY <2>1, <2>6, <2>7, OneCallMoves
<1> QED BY <1>6, <1>7

LEMMA GetResolutionTargetKeeps ==
  ASSUME Inv, NEW c \in Call, GetResolutionTarget(c)
  PROVE  Inv'
<1>1. PICK s \in Refresh : s = call[c] /\ WellFormed(s) /\ s.step = "target"
  BY CallIsOf DEF GetResolutionTarget
<1>2. PICK n \in Name : n = row[Repository(c)].name
  <2> DEFINE batch == s.batch
  <2>1. batch \in Seq(Repo) /\ batch # <<>>
    BY <1>1, RefreshFields DEF WellFormed
  <2>2. Head(batch) \in Repo
    <3> HIDE DEF batch
    <3> QED BY <2>1, HeadTailProperties
  <2>3. row[Head(batch)] \in Row
    BY <2>2 DEF Inv
  <2>4. row[Head(batch)].name \in Name
    BY <2>3, RowFields
  <2> QED BY <1>1, <2>4 DEF Repository
<1> DEFINE x == [s EXCEPT !.step = "components", !.name = n]
<1>3. Becomes(c, x) /\ UNCHANGED <<row, catalog, settled, events>>
  BY <1>1, <1>2 DEF GetResolutionTarget, Reads
<1>4. /\ x \in Refresh /\ x.step = "components" /\ x.name = n /\ x.batch = s.batch /\ x.age = s.age
      /\ x.read = s.read /\ x.verdict = s.verdict
  BY <1>1 DEF Refresh, Step
<1> HIDE DEF x
<1>5. WellFormed(x)
  BY <1>1, <1>4 DEF WellFormed, Found, Reading
<1>6. CallIsRight(catalog, settled, x)
  BY <1>4, <1>5 DEF CallIsRight, ReadIsRight, Found
<1>7. events' \in 0..MaxEvents
  BY <1>3 DEF Inv
<1> QED BY <1>3, <1>6, <1>7, OneCallMoves

(* The resolver goes on with an entity that is right, or stores a verdict  *)
(* that leaves nothing to trust.                                           *)
LEMMA GoesKeeps ==
  ASSUME Inv, NEW c \in Call, NEW s \in Refresh, s = call[c], Reading(s), s.step # "store",
         NEW verdict \in Diagnostic \cup {Trusted}, NEW entities,
         NEW step \in {"system", "owner", "store"},
         Goes(c, verdict, entities, step),
         step = "system" => s.step = "components",
         step = "owner" => s.step = "system",
         step = "store" => s.step = "owner",
         verdict = Trusted => The(entities) \in Entity,
         verdict # Trusted /\ s.age < settled => TrustedScopes(catalog, s.name) = {},
         verdict = Trusted /\ s.age < settled =>
           /\ step = "system" => ComponentOf(catalog, s.name, The(entities))
           /\ step = "owner" => SystemOf(catalog, s.read[1], The(entities))
           /\ step = "store" => OwnerOf(catalog, s.read[1], s.read[2], The(entities))
  PROVE  Inv'
<1>1. CallIsRight(catalog, settled, s) /\ WellFormed(s)
  BY CallIsOf
<1>2. UNCHANGED <<row, catalog, settled>> /\ events' \in 0..MaxEvents
  BY DEF Goes, Reads, Inv
<1>3. CASE verdict # Trusted
  <2> DEFINE x == [s EXCEPT !.step = "store", !.verdict = verdict, !.read = <<>>]
  <2>1. Becomes(c, x)
    BY <1>3 DEF Goes, Reads
  <2>2. CallIsRight(catalog, settled, x)
    BY <1>1, <1>3, Judged
  <2> HIDE DEF x
  <2> QED BY <1>2, <2>1, <2>2, OneCallMoves
<1>4. CASE verdict = Trusted
  <2> DEFINE e == The(entities)
             x == [s EXCEPT !.step = step, !.read = Append(@, e)]
  <2>1. Becomes(c, x)
    BY <1>4 DEF Goes, Reads
  <2>2. e \in Entity /\ step \in Step
    BY <1>4 DEF Step
  <2> HIDE DEF e
  <2>3. /\ x \in Refresh
        /\ x.step = step /\ x.age = s.age /\ x.batch = s.batch /\ x.name = s.name
        /\ x.verdict = s.verdict
        /\ Len(s.read) \in Nat /\ Len(x.read) = Len(s.read) + 1
        /\ \A i \in 1..Len(s.read) : x.read[i] = s.read[i]
        /\ x.read[Len(s.read) + 1] = e
    <3> DEFINE read == s.read
    <3>1. read \in Seq(Entity)
      BY RefreshFields
    <3>2. /\ x.step = step /\ x.age = s.age /\ x.batch = s.batch /\ x.name = s.name
          /\ x.verdict = s.verdict /\ x.read = Append(read, e)
      BY DEF Refresh
    <3>3. Append(read, e) \in Seq(Entity) => x \in Refresh
      BY <2>2 DEF Refresh
    <3> HIDE DEF read
    <3>4. /\ Append(read, e) \in Seq(Entity) /\ Len(Append(read, e)) = Len(read) + 1
          /\ Len(read) \in Nat
          /\ \A i \in 1..Len(read) : Append(read, e)[i] = read[i]
          /\ Append(read, e)[Len(read) + 1] = e
      BY <2>2, <3>1, AppendProperties, LenProperties
    <3> HIDE DEF x
    <3> QED BY <3>2, <3>3, <3>4 DEF read
  <2> HIDE DEF x
  <2> DEFINE read == s.read
             longer == x.read
  <2>4. /\ step = "system" => Len(s.read) = 0
        /\ step = "owner" => Len(s.read) = 1
        /\ step = "store" => Len(s.read) = 2
        /\ s.verdict = Trusted /\ s.batch # <<>> /\ s.name \in Name
    BY <1>1 DEF WellFormed, Reading
  <2>5. /\ step = "system" => Len(x.read) = 1 /\ x.read[1] = e
        /\ step = "owner" => Len(x.read) = 2 /\ x.read[1] = s.read[1] /\ x.read[2] = e
        /\ step = "store" => /\ Len(x.read) = 3 /\ x.read[1] = s.read[1] /\ x.read[2] = s.read[2]
                             /\ x.read[3] = e
    <3>1. /\ Len(read) \in Nat /\ Len(longer) = Len(read) + 1
          /\ \A i \in 1..Len(read) : longer[i] = read[i]
          /\ longer[Len(read) + 1] = e
      BY <2>3
    <3>2. /\ step = "system" => Len(read) = 0
          /\ step = "owner" => Len(read) = 1
          /\ step = "store" => Len(read) = 2
      BY <2>4
    <3> HIDE DEF read, longer
    <3>3. /\ step = "system" => Len(longer) = 1 /\ longer[1] = e
          /\ step = "owner" => Len(longer) = 2 /\ longer[1] = read[1] /\ longer[2] = e
          /\ step = "store" => /\ Len(longer) = 3 /\ longer[1] = read[1] /\ longer[2] = read[2]
                               /\ longer[3] = e
      BY <3>1, <3>2
    <3> QED BY <3>3 DEF read, longer
  <2>6. WellFormed(x)
    <3>1. Len(x.batch) <= Limit /\ IsInjective(x.batch)
      BY <1>1, <2>3 DEF WellFormed
    <3>2. step \notin {"idle", "inventory", "target", "components"}
      OBVIOUS
    <3> QED BY <2>3, <2>4, <2>5, <3>1, <3>2 DEF WellFormed, Found, Reading
  <2>7. ASSUME s.age < settled
        PROVE  ReadIsRight(catalog, x)
    <3>1. ReadIsRight(catalog, s)
      BY <1>1, <2>7 DEF CallIsRight
    <3>2. CASE step = "system"
      BY <1>4, <2>3, <2>5, <2>7, <3>2 DEF ReadIsRight, Found, e
    <3>3. CASE step = "owner"
      BY <1>4, <2>3, <2>5, <2>7, <3>1, <3>3 DEF ReadIsRight, Found, e
    <3>4. CASE step = "store"
      BY <1>4, <2>3, <2>4, <2>5, <2>7, <3>1, <3>4 DEF ReadIsRight, Found, e
    <3> QED BY <3>2, <3>3, <3>4
  <2>8. CallIsRight(catalog, settled, x)
    BY <2>3, <2>6, <2>7 DEF CallIsRight
  <2> QED BY <1>2, <2>1, <2>8, OneCallMoves
<1> QED BY <1>3, <1>4

LEMMA FindComponentsKeeps ==
  ASSUME Inv, NEW c \in Call, FindComponents(c)
  PROVE  Inv'
<1>1. PICK s \in Refresh : /\ s = call[c] /\ s.step = "components"
                           /\ CallIsRight(catalog, settled, s) /\ WellFormed(s)
  BY CallIsOf DEF FindComponents
<1> DEFINE components == findComponentsByName(catalog, s.name)
           matches == Declaring(components, s.name)
           verdict == ComponentVerdict(components, s.name)
<1>2. CASE s.name \in Malformed
  <2>1. Becomes(c, WithNext(s)) /\ UNCHANGED <<row, catalog, settled, events>>
    BY <1>1, <1>2 DEF FindComponents, Reads
  <2>2. CallIsRight(catalog, settled, WithNext(s))
    BY <1>1, NextIsRight
  <2>3. events' \in 0..MaxEvents
    BY <2>1 DEF Inv
  <2> QED BY <2>1, <2>2, <2>3, OneCallMoves
<1>3. CASE s.name \notin Malformed
  <2>1. Goes(c, verdict, matches, "system")
    BY <1>1, <1>3 DEF FindComponents
  <2>2. /\ verdict \in Diagnostic \cup {Trusted}
        /\ verdict = Trusted => /\ The(matches) \in catalog
                                /\ ComponentOf(catalog, s.name, The(matches))
        /\ verdict # Trusted => \A e : ~ComponentOf(catalog, s.name, e)
    BY CallIsOf, ComponentFound
  <2> HIDE DEF verdict, matches
  <2>3. verdict = Trusted => The(matches) \in Entity
    BY <2>2, CallIsOf DEF Entity
  <2>4. verdict # Trusted => TrustedScopes(catalog, s.name) = {}
    BY <2>2, CallIsOf, NothingToTrust
  <2>5. Reading(s)
    BY <1>1 DEF Reading
  <2> QED BY <1>1, <2>1, <2>2, <2>3, <2>4, <2>5, GoesKeeps
<1> QED BY <1>2, <1>3

LEMMA ReadSystemKeeps ==
  ASSUME Inv, NEW c \in Call, ReadSystem(c)
  PROVE  Inv'
<1>1. PICK s \in Refresh : /\ s = call[c] /\ s.step = "system"
                           /\ CallIsRight(catalog, settled, s) /\ WellFormed(s)
  BY CallIsOf DEF ReadSystem
<1> DEFINE component == s.read[1]
           systems == getEntityByRef(catalog, The(component.partOf))
           verdict == SystemVerdict(component, systems)
<1>2. Goes(c, verdict, systems, "owner")
  BY <1>1 DEF ReadSystem
<1>3. s.age < settled => ComponentOf(catalog, s.name, component)
  BY <1>1 DEF CallIsRight, ReadIsRight
<1> HIDE DEF component
<1>4. /\ verdict \in Diagnostic \cup {Trusted}
      /\ verdict = Trusted => The(systems) \in catalog
      /\ \A n : ComponentOf(catalog, n, component) =>
           IF verdict = Trusted THEN SystemOf(catalog, component, The(systems))
           ELSE \A e : ~SystemOf(catalog, component, e)
  BY CallIsOf, SystemFound
<1> HIDE DEF verdict, systems
<1>5. verdict = Trusted => The(systems) \in Entity
  BY <1>4, CallIsOf DEF Entity
<1>6. verdict # Trusted /\ s.age < settled => TrustedScopes(catalog, s.name) = {}
  BY <1>3, <1>4, CallIsOf, NothingToTrust
<1>7. verdict = Trusted /\ s.age < settled => SystemOf(catalog, s.read[1], The(systems))
  BY <1>3, <1>4 DEF component
<1>8. Reading(s)
  BY <1>1 DEF Reading
<1> QED BY <1>1, <1>2, <1>4, <1>5, <1>6, <1>7, <1>8, GoesKeeps

LEMMA ReadOwnerKeeps ==
  ASSUME Inv, NEW c \in Call, ReadOwner(c)
  PROVE  Inv'
<1>1. PICK s \in Refresh : /\ s = call[c] /\ s.step = "owner"
                           /\ CallIsRight(catalog, settled, s) /\ WellFormed(s)
  BY CallIsOf DEF ReadOwner
<1> DEFINE component == s.read[1]
           system == s.read[2]
           owners == getEntityByRef(catalog, The(component.ownedBy))
           verdict == OwnerVerdict(component, system, owners)
<1>2. Goes(c, verdict, owners, "store")
  BY <1>1 DEF ReadOwner
<1>3. s.age < settled => ComponentOf(catalog, s.name, component) /\ SystemOf(catalog, component, system)
  BY <1>1 DEF CallIsRight, ReadIsRight
<1>4. component \in Entity /\ system \in Entity
  <2> DEFINE read == s.read
  <2>1. read \in Seq(Entity) /\ Len(read) = 2
    BY <1>1, RefreshFields DEF WellFormed
  <2> HIDE DEF read
  <2>2. read[1] \in Entity /\ read[2] \in Entity
    BY <2>1, ElementOfSeq
  <2> QED BY <2>2 DEF read
<1> HIDE DEF component, system
<1>5. /\ verdict \in Diagnostic \cup {Trusted}
      /\ verdict = Trusted => The(owners) \in catalog
      /\ \A n : ComponentOf(catalog, n, component) =>
           IF verdict = Trusted THEN OwnerOf(catalog, component, system, The(owners))
           ELSE \A e : ~OwnerOf(catalog, component, system, e)
  BY <1>4, CallIsOf, OwnerFound
<1> HIDE DEF verdict, owners
<1>6. verdict = Trusted => The(owners) \in Entity
  BY <1>5, CallIsOf DEF Entity
<1>7. verdict # Trusted /\ s.age < settled => TrustedScopes(catalog, s.name) = {}
  BY <1>3, <1>5, CallIsOf, NothingToTrust
<1>8. verdict = Trusted /\ s.age < settled => OwnerOf(catalog, s.read[1], s.read[2], The(owners))
  BY <1>3, <1>5 DEF component, system
<1>9. Reading(s)
  BY <1>1 DEF Reading
<1> QED BY <1>1, <1>2, <1>5, <1>6, <1>7, <1>8, <1>9, GoesKeeps

LEMMA FailuresKeep ==
  ASSUME Inv, NEW c \in Call, CandidateFails(c) \/ RefreshFails(c)
  PROVE  Inv'
<1>1. events' \in 0..MaxEvents /\ UNCHANGED <<row, catalog, settled>>
  BY DEF CandidateFails, RefreshFails, Happens, Inv
<1>2. CASE CandidateFails(c)
  <2>1. CallIsRight(catalog, settled, WithNext(call[c])) /\ Becomes(c, WithNext(call[c]))
    BY <1>2, CallIsOf, NextIsRight DEF CandidateFails
  <2> QED BY <1>1, <2>1, OneCallMoves
<1>3. CASE RefreshFails(c)
  <2>1. Becomes(c, Idle)
    BY <1>3 DEF RefreshFails
  <2> QED BY <1>1, <2>1, IdleIsRight, OneCallMoves
<1> QED BY <1>2, <1>3

-----------------------------------------------------------------------------
(* Steps that change rows.                                                 *)

(* A row with what a resolution, or a new name, sets.                      *)
With(w, p) ==
  [w EXCEPT !.status = p.status, !.diagnostic = p.diagnostic, !.scope = p.scope, !.age = p.age]

LEMMA RowProjected ==
  ASSUME NEW w \in Row, NEW p,
         \/ /\ p.status = "PENDING" /\ p.diagnostic = None /\ p.scope = None /\ p.age = Never
         \/ /\ p.status = "REPO_ONLY" /\ p.diagnostic \in Diagnostic /\ p.scope = None
            /\ p.age \in 0..MaxAge
         \/ /\ p.status = "RESOLVED" /\ p.diagnostic = None /\ p.scope \in Scopes
            /\ p.age \in 0..MaxAge
  PROVE  /\ With(w, p) \in Row
         /\ With(w, p).name = w.name /\ With(w, p).status = p.status
         /\ With(w, p).scope = p.scope /\ With(w, p).age = p.age
<1>1. /\ With(w, p).name = w.name /\ With(w, p).status = p.status
      /\ With(w, p).scope = p.scope /\ With(w, p).age = p.age
  BY DEF Row, With
<1>2. With(w, p) \in Row
  BY DEF Row, With
<1> QED BY <1>1, <1>2

LEMMA RowAged ==
  ASSUME NEW w \in Row, NEW x, x = [w EXCEPT !.age = Older(@)]
  PROVE  /\ x \in Row /\ x.name = w.name /\ x.status = w.status /\ x.scope = w.scope
         /\ w.age = Never => x.age = Never
         /\ w.age # Never => w.age \in Nat /\ x.age = Min({w.age + 1, MaxAge})
<1>1. x = [w EXCEPT !.age = Older(w.age)]
  OBVIOUS
<1>2. /\ w.age = Never => Older(w.age) = Never
      /\ w.age # Never => /\ w.age \in 0..MaxAge /\ w.age \in Nat
                          /\ Older(w.age) = Min({w.age + 1, MaxAge})
                          /\ Older(w.age) \in 0..MaxAge
  <2>1. w.age # Never => w.age \in 0..MaxAge
    BY RowFields
  <2>2. CASE w.age = Never
    BY <2>2 DEF Older
  <2>3. CASE w.age # Never
    <3>1. w.age + 1 \in Nat /\ MaxAge \in Nat
      BY <2>1, <2>3 DEF MaxAge
    <3>2. Min({w.age + 1, MaxAge}) \in 0..MaxAge
      BY <3>1, SmallerOfTwo
    <3> QED BY <2>1, <2>3, <3>1, <3>2 DEF Older
  <2> QED BY <2>2, <2>3
<1> DEFINE age == Older(w.age)
<1>3. /\ x.name = w.name /\ x.status = w.status /\ x.scope = w.scope /\ x.age = age
      /\ x.active = w.active /\ x.diagnostic = w.diagnostic
  BY <1>1 DEF Row
<1>4. x \in Row
  <2>1. x = [w EXCEPT !.age = age]
    BY <1>1
  <2>2. \/ w.age = Never /\ age = Never
        \/ w.age \in 0..MaxAge /\ age \in 0..MaxAge /\ w.age # Never
    BY <1>2, RowFields
  <2>3. Never \notin 0..MaxAge
    BY DEF Never
  <2> HIDE DEF age
  <2> QED BY <2>1, <2>2, <2>3 DEF Row
<1> QED BY <1>2, <1>3, <1>4

LEMMA CatalogChangesKeeps ==
  ASSUME Inv, CatalogChanges
  PROVE  Inv'
<1>1. /\ catalog' \in Catalogs /\ settled' = 0 /\ UNCHANGED <<row, call>>
      /\ events' \in 0..MaxEvents
  BY DEF CatalogChanges, Happens, Inv
<1>2. \A c \in Call : CallIsRight(catalog', 0, call[c])
  <2> SUFFICES ASSUME NEW c \in Call PROVE CallIsRight(catalog', 0, call[c])
    OBVIOUS
  <2>1. PICK s \in Refresh : s = call[c] /\ WellFormed(s)
    BY CallIsOf
  <2>2. ~(s.age < 0)
    BY RefreshFields
  <2> QED BY <2>1, <2>2 DEF CallIsRight
<1>3. \A r \in Repo : RowIsRight(catalog', 0, row[r])
  <2> SUFFICES ASSUME NEW r \in Repo PROVE RowIsRight(catalog', 0, row[r])
    OBVIOUS
  <2>1. PICK w \in Row : w = row[r] /\ RowIsRight(catalog, settled, w)
    BY DEF Inv
  <2>2. w.age # Never => ~(w.age < 0)
    <3>1. w.age \in 0..MaxAge \/ w.age = Never
      BY RowFields
    <3> QED BY <3>1
  <2> QED BY <2>1, <2>2 DEF RowIsRight
<1> QED BY <1>1, <1>2, <1>3 DEF Inv, MaxAge

LEMMA OneRowMoves ==
  ASSUME Inv, NEW r \in Repo, NEW x, RowIsRight(catalog, settled, x), row' = [row EXCEPT ![r] = x],
         UNCHANGED <<catalog, settled, call>>, events' \in 0..MaxEvents
  PROVE  Inv'
<1>1. x \in Row
  BY DEF RowIsRight
<1>2. row' \in [Repo -> Row] /\ \A q \in Repo : RowIsRight(catalog, settled, row'[q])
  BY <1>1 DEF Inv
<1> QED BY <1>2 DEF Inv

LEMMA InventoryRenamesKeeps ==
  ASSUME Inv, NEW r \in Repo, NEW n \in Name, InventoryRenames(r, n)
  PROVE  Inv'
<1>1. PICK w \in Row : w = row[r]
  BY DEF Inv
<1> DEFINE y == With(w, Pending)
           x == [y EXCEPT !.name = n]
<1>2. row' = [row EXCEPT ![r] = x]
  BY <1>1 DEF InventoryRenames, Renamed, Projected, With
<1>3. x \in Row /\ x.name = n /\ x.scope = None /\ x.age = Never
  <2>1. /\ Pending.status = "PENDING" /\ Pending.diagnostic = None /\ Pending.scope = None
        /\ Pending.age = Never
    BY DEF Pending
  <2>3. y \in Row /\ y.scope = None /\ y.age = Never
    BY <2>1, RowProjected
  <2> HIDE DEF y
  <2> QED BY <2>3 DEF Row
<1> HIDE DEF x
<1>4. RowIsRight(catalog, settled, x)
  BY <1>3 DEF RowIsRight
<1>5. UNCHANGED <<catalog, settled, call>> /\ events' \in 0..MaxEvents
  BY DEF InventoryRenames, Happens, Inv
<1> QED BY <1>2, <1>4, <1>5, OneRowMoves

LEMMA ActivityChangesKeeps ==
  ASSUME Inv, NEW r \in Repo, ActivityChanges(r)
  PROVE  Inv'
<1>1. PICK w \in Row : w = row[r] /\ RowIsRight(catalog, settled, w)
  BY DEF Inv
<1> DEFINE x == [w EXCEPT !.active = ~w.active]
<1>2. row' = [row EXCEPT ![r] = x]
  BY <1>1 DEF ActivityChanges
<1>3. /\ x \in Row /\ x.name = w.name /\ x.scope = w.scope /\ x.age = w.age /\ x.status = w.status
  BY DEF Row
<1> HIDE DEF x
<1>4. RowIsRight(catalog, settled, x)
  BY <1>1, <1>3 DEF RowIsRight, AsIn
<1>5. UNCHANGED <<catalog, settled, call>> /\ events' \in 0..MaxEvents
  BY DEF ActivityChanges, Happens, Inv
<1> QED BY <1>2, <1>4, <1>5, OneRowMoves

(* What the refresh found is what the row says.                            *)
LEMMA StoredIsRight ==
  ASSUME NEW k \in Catalogs, NEW t, NEW s, CallIsRight(k, t, s), s.step = "store",
         NEW w \in Row, w.name = s.name, NEW p,
         p = IF s.verdict = Trusted
               THEN [status |-> "RESOLVED", diagnostic |-> None, age |-> s.age,
                     scope |-> Scope(s.name, s.read[1], s.read[2], s.read[3])]
               ELSE [status |-> "REPO_ONLY", diagnostic |-> s.verdict, age |-> s.age,
                     scope |-> None]
  PROVE  RowIsRight(k, t, With(w, p))
<1> DEFINE x == With(w, p)
<1>1. WellFormed(s) /\ s \in Refresh
  BY DEF CallIsRight, WellFormed
<1>2. s.age \in 0..MaxAge
  <2>1. s.age \in 0..MaxCallAge
    BY <1>1, RefreshFields
  <2> QED BY <2>1 DEF MaxAge
<1>3. s.name \in Name
  BY RowFields
<1>4. CASE s.verdict = Trusted
  <2> DEFINE read == s.read
             scope == Scope(s.name, read[1], read[2], read[3])
  <2>1. p.status = "RESOLVED" /\ p.diagnostic = None /\ p.age = s.age /\ p.scope = scope
    BY <1>4
  <2>2. read \in Seq(Entity) /\ Len(read) = 3
    BY <1>1, <1>4, RefreshFields DEF WellFormed, Found
  <2>3. scope.repository = s.name
    BY DEF Scope
  <2>4. s.age < t => scope \in TrustedScopes(k, s.name)
    <3>1. SUFFICES ASSUME s.age < t PROVE scope \in TrustedScopes(k, s.name)
      OBVIOUS
    <3>2. /\ ComponentOf(k, s.name, read[1]) /\ SystemOf(k, read[1], read[2])
          /\ OwnerOf(k, read[1], read[2], read[3])
      BY <1>4, <3>1 DEF CallIsRight, ReadIsRight, Found
    <3>3. read[1] \in k /\ read[2] \in k /\ read[3] \in k
      BY <3>2 DEF ComponentOf, SystemOf, OwnerOf, Declaring, findComponentsByName
    <3> HIDE DEF read
    <3> QED BY <3>2, <3>3, TrustedScopesAreFound
  <2> HIDE DEF read
  <2>5. read[1] \in Entity /\ read[2] \in Entity /\ read[3] \in Entity
    <3>1. \A i \in 1..3 : read[i] \in Entity
      BY ONLY <2>2, ElementOfSeq
    <3> QED BY <3>1
  <2>6. scope \in Scopes
    BY <1>3, <2>5 DEF Scopes
  <2> HIDE DEF scope
  <2>7. x \in Row /\ x.name = w.name /\ x.status = "RESOLVED" /\ x.scope = scope /\ x.age = s.age
    <3>1. p.status = "RESOLVED" /\ p.diagnostic = None /\ p.scope \in Scopes /\ p.age \in 0..MaxAge
      BY <1>2, <2>1, <2>6
    <3>2. x \in Row /\ x.name = w.name /\ x.status = p.status /\ x.scope = p.scope /\ x.age = p.age
      BY <3>1, RowProjected
    <3> HIDE DEF x
    <3> QED BY <2>1, <3>2
  <2> HIDE DEF x
  <2>8. RowIsRight(k, t, x)
    BY <2>3, <2>4, <2>7 DEF RowIsRight, AsIn
  <2> QED BY <2>8 DEF x
<1>5. CASE s.verdict # Trusted
  <2>1. p.status = "REPO_ONLY" /\ p.diagnostic = s.verdict /\ p.age = s.age /\ p.scope = None
    BY <1>5
  <2>2. s.verdict \in Diagnostic
    BY <1>1, <1>5, RefreshFields
  <2>3. x \in Row /\ x.name = w.name /\ x.status = "REPO_ONLY" /\ x.scope = None /\ x.age = s.age
    <3>1. /\ p.status = "REPO_ONLY" /\ p.diagnostic \in Diagnostic /\ p.scope = None
          /\ p.age \in 0..MaxAge
      BY <1>2, <2>1, <2>2
    <3>2. x \in Row /\ x.name = w.name /\ x.status = p.status /\ x.scope = p.scope /\ x.age = p.age
      BY <3>1, RowProjected
    <3> HIDE DEF x
    <3> QED BY <2>1, <3>2
  <2> HIDE DEF x
  <2>4. s.age < t => TrustedScopes(k, s.name) = {}
    BY <1>5 DEF CallIsRight, ReadIsRight
  <2>5. RowIsRight(k, t, x)
    BY <2>3, <2>4 DEF RowIsRight, AsIn
  <2> QED BY <2>5 DEF x
<1> QED BY <1>4, <1>5

LEMMA ApplyResolutionKeeps ==
  ASSUME Inv, NEW c \in Call, ApplyResolution(c)
  PROVE  Inv'
<1>1. PICK s \in Refresh : /\ s = call[c] /\ s.step = "store"
                           /\ CallIsRight(catalog, settled, s) /\ WellFormed(s)
  BY CallIsOf DEF ApplyResolution
<1>2. PICK r \in Repo : r = Repository(c)
  <2> DEFINE batch == s.batch
  <2>1. batch \in Seq(Repo) /\ batch # <<>>
    BY <1>1, RefreshFields DEF WellFormed
  <2>2. Head(batch) \in Repo
    <3> HIDE DEF batch
    <3> QED BY <2>1, HeadTailProperties
  <2> QED BY <1>1, <2>2 DEF Repository
<1>3. PICK w \in Row : w = row[r]
  BY DEF Inv
<1> DEFINE p == Projection(c)
           x == With(w, p)
<1>4. /\ call' = [call EXCEPT ![c] = WithNext(s)]
      /\ row' = IF w.name = s.name THEN [row EXCEPT ![r] = x] ELSE row
      /\ UNCHANGED <<catalog, settled, events>>
  BY <1>1, <1>2, <1>3 DEF ApplyResolution, Becomes, Projected, With
<1>5. w.name = s.name => RowIsRight(catalog, settled, x)
  <2>1. p = IF s.verdict = Trusted
              THEN [status |-> "RESOLVED", diagnostic |-> None, age |-> s.age,
                    scope |-> Scope(s.name, s.read[1], s.read[2], s.read[3])]
              ELSE [status |-> "REPO_ONLY", diagnostic |-> s.verdict, age |-> s.age,
                    scope |-> None]
    BY <1>1 DEF Projection
  <2> HIDE DEF p
  <2>2. catalog \in Catalogs
    BY CallIsOf
  <2> QED BY <1>1, <2>1, <2>2, StoredIsRight
<1> HIDE DEF x
<1>6. CallIsRight(catalog, settled, WithNext(s))
  BY <1>1, NextIsRight
<1>7. call' \in [Call -> Refresh] /\ \A d \in Call : CallIsRight(catalog, settled, call'[d])
  BY <1>4, <1>6 DEF Inv, CallIsRight, WellFormed
<1>8. row' \in [Repo -> Row] /\ \A q \in Repo : RowIsRight(catalog, settled, row'[q])
  BY <1>4, <1>5 DEF Inv, RowIsRight
<1> QED BY <1>4, <1>7, <1>8 DEF Inv

LEMMA TickKeeps ==
  ASSUME Inv, Tick
  PROVE  Inv'
<1>1. /\ row' = [r \in Repo |-> [row[r] EXCEPT !.age = Older(@)]]
      /\ call' = [c \in Call |-> IF call[c].step = "idle" THEN Idle
                                 ELSE [call[c] EXCEPT !.age = @ + 1]]
      /\ UNCHANGED <<catalog, events>>
  BY DEF Tick
<1>2. settled \in Nat /\ settled' = Min({settled + 1, MaxAge}) /\ settled' \in 0..MaxAge
      /\ settled' <= settled + 1
  <2>1. settled \in 0..MaxAge /\ MaxAge \in Nat /\ settled # Never
    BY DEF Inv, MaxAge, Never
  <2>2. settled' = Min({settled + 1, MaxAge})
    BY <2>1 DEF Tick, Older
  <2> QED BY <2>1, <2>2, SmallerOfTwo
<1>3. ASSUME NEW c \in Call
      PROVE  call'[c] \in Refresh /\ CallIsRight(catalog, settled', call'[c])
  <2>1. PICK s \in Refresh : s = call[c] /\ WellFormed(s) /\ CallIsRight(catalog, settled, s)
    BY CallIsOf
  <2>2. CASE s.step = "idle"
    <3>1. call'[c] = Idle
      BY <1>1, <2>1, <2>2
    <3> QED BY <3>1, IdleIsRight DEF CallIsRight, WellFormed
  <2>3. CASE s.step # "idle"
    <3> DEFINE x == [s EXCEPT !.age = s.age + 1]
    <3>1. call'[c] = x
      BY <1>1, <2>1, <2>3
    <3>2. s.age \in 0..MaxCallAge /\ s.age + 1 \in 0..MaxCallAge
      <4>1. s.age \in 0..MaxCallAge
        BY RefreshFields
      <4>2. s.age < MaxCallAge
        BY <2>1, <2>3 DEF Tick
      <4> QED BY <4>1, <4>2
    <3>3. /\ x \in Refresh /\ x.step = s.step /\ x.batch = s.batch /\ x.name = s.name
          /\ x.read = s.read /\ x.verdict = s.verdict /\ x.age = s.age + 1
      BY <3>2 DEF Refresh
    <3> HIDE DEF x
    <3>4. WellFormed(x)
      BY <2>1, <3>3 DEF WellFormed, Found, Reading
    <3>5. x.age < settled' => s.age < settled
      BY <1>2, <3>2, <3>3
    <3>6. x.age < settled' => ReadIsRight(catalog, x)
      BY <2>1, <3>3, <3>5 DEF CallIsRight, ReadIsRight, Found
    <3> QED BY <3>1, <3>3, <3>4, <3>6 DEF CallIsRight
  <2> QED BY <2>2, <2>3
<1>4. ASSUME NEW r \in Repo
      PROVE  row'[r] \in Row /\ RowIsRight(catalog, settled', row'[r])
  <2>1. PICK w \in Row : w = row[r] /\ RowIsRight(catalog, settled, w)
    BY DEF Inv
  <2> DEFINE x == [w EXCEPT !.age = Older(@)]
  <2>2. row'[r] = x
    BY <1>1, <2>1
  <2>3. /\ x \in Row /\ x.name = w.name /\ x.status = w.status /\ x.scope = w.scope
        /\ w.age = Never => x.age = Never
        /\ w.age # Never => w.age \in Nat /\ x.age = Min({w.age + 1, MaxAge})
    BY RowAged
  <2> HIDE DEF x
  <2>4. x.age # Never /\ x.age < settled' => w.age # Never /\ w.age < settled
    <3>1. SUFFICES ASSUME x.age # Never, x.age < settled' PROVE w.age # Never /\ w.age < settled
      OBVIOUS
    <3>2. w.age \in Nat /\ x.age = Min({w.age + 1, MaxAge}) /\ w.age # Never
      BY <2>3, <3>1
    <3>3. MaxAge \in Nat /\ settled' <= MaxAge
      BY <1>2 DEF MaxAge
    <3>4. x.age = w.age + 1 \/ x.age = MaxAge
      <4>1. \E y \in {w.age + 1, MaxAge} : \A z \in {w.age + 1, MaxAge} : y <= z
        <5>1. CASE w.age + 1 <= MaxAge
          BY <3>2, <3>3, <5>1
        <5>2. CASE MaxAge <= w.age + 1
          BY <3>2, <3>3, <5>2
        <5> QED BY <3>2, <3>3, <5>1, <5>2
      <4>2. Min({w.age + 1, MaxAge}) \in {w.age + 1, MaxAge}
        BY <4>1 DEF Min
      <4> QED BY <3>2, <4>2
    <3> QED BY <1>2, <3>1, <3>2, <3>3, <3>4
  <2> QED BY <2>1, <2>2, <2>3, <2>4 DEF RowIsRight, AsIn
<1>5. row' \in [Repo -> Row] /\ call' \in [Call -> Refresh]
  BY <1>1, <1>3, <1>4
<1> QED BY <1>1, <1>2, <1>3, <1>4, <1>5 DEF Inv

-----------------------------------------------------------------------------
(* The theorems.                                                           *)

LEMMA Keeps ==
  ASSUME Inv, [Next]_vars
  PROVE  Inv'
<1>1. ASSUME NEW c \in Call, Start(c) \/ CallStep(c) \/ CandidateFails(c) \/ RefreshFails(c)
      PROVE  Inv'
  <2>1. CASE Start(c)
    BY <2>1, StartKeeps
  <2>2. CASE SelectBatch(c)
    BY <2>2, SelectBatchKeeps
  <2>3. CASE GetResolutionTarget(c)
    BY <2>3, GetResolutionTargetKeeps
  <2>4. CASE FindComponents(c)
    BY <2>4, FindComponentsKeeps
  <2>5. CASE ReadSystem(c)
    BY <2>5, ReadSystemKeeps
  <2>6. CASE ReadOwner(c)
    BY <2>6, ReadOwnerKeeps
  <2>7. CASE ApplyResolution(c)
    BY <2>7, ApplyResolutionKeeps
  <2>8. CASE CandidateFails(c) \/ RefreshFails(c)
    BY <2>8, FailuresKeep
  <2> QED BY <1>1, <2>1, <2>2, <2>3, <2>4, <2>5, <2>6, <2>7, <2>8 DEF CallStep
<1>2. CASE CatalogChanges
  BY <1>2, CatalogChangesKeeps
<1>3. ASSUME NEW r \in Repo, ActivityChanges(r) \/ \E n \in Name : InventoryRenames(r, n)
      PROVE  Inv'
  BY <1>3, ActivityChangesKeeps, InventoryRenamesKeeps
<1>4. CASE Tick
  BY <1>4, TickKeeps
<1>5. CASE UNCHANGED vars
  BY <1>5 DEF vars, Inv
<1> QED BY <1>1, <1>2, <1>3, <1>4, <1>5 DEF Next

LEMMA InvHolds == Spec => []Inv
BY InitInv, Keeps, PTL DEF Spec

(* Every state of the registry's copy and of its refreshes is well formed: *)
(* only a trusted verdict leads to a stored scope, with all that was read. *)
THEOREM TypeCorrect == Spec => []TypeOK
<1>1. Inv => TypeOK
  BY InvIsEnough
<1> QED BY <1>1, InvHolds, PTL

(* Whatever renames and late resolutions come in between, the scope that a *)
(* row has was resolved for the name the row has.                          *)
THEOREM ScopeKeepsItsName == Spec => []ScopeIsForItsName
<1>1. Inv => ScopeIsForItsName
  BY InvIsEnough
<1> QED BY <1>1, InvHolds, PTL

(* However refreshes overlap, a row that claims to be younger than the     *)
(* last change of the catalog is what the catalog says.                    *)
THEOREM AgesAreTruthful == Spec => []AgeIsTruthful
<1>1. Inv => AgeIsTruthful
  BY InvIsEnough
<1> QED BY <1>1, InvHolds, PTL
=============================================================================
