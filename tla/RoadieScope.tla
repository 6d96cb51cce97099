----------------------------- MODULE RoadieScope -----------------------------
(***************************************************************************)
(* What a repository may trust in the Roadie catalog.  A catalog is a set  *)
(* of processed entities; the resolver looks for the component of the      *)
(* repository, then for its system, then for their owner, and stops at the *)
(* first thing it cannot trust.                                            *)
(*                                                                         *)
(* Names and references are canonical: case does not tell them apart.  An  *)
(* entity has a reference [kind, namespace, name], the project slug it     *)
(* declares, the targets of its partOf and ownedBy relations, a Slack      *)
(* channel, its Confluence exclusions and its links.                       *)
(***************************************************************************)
EXTENDS FiniteSetsExt, Integers

CONSTANT None  \* an absent slug, channel or scope; a link target that is not a page

Diagnostic == {
  "COMPONENT_NOT_FOUND", "COMPONENT_PROJECT_SLUG_MISMATCH", "COMPONENT_AMBIGUOUS",
  "COMPONENT_SYSTEM_RELATION_INVALID", "COMPONENT_OWNER_RELATION_INVALID",
  "SYSTEM_NOT_FOUND", "SYSTEM_OWNER_RELATION_INVALID", "OWNERSHIP_MISMATCH",
  "OWNER_NOT_FOUND", "SLACK_ROUTE_MISSING", "SLACK_ROUTE_INVALID",
  "CONFLUENCE_EXCLUSIONS_INVALID", "CONFLUENCE_LINK_INVALID"}

(* A verdict on what was read so far: a diagnostic, or this.               *)
Trusted == "TRUSTED"

-----------------------------------------------------------------------------
(* The requests: a component by its name, in any namespace, whatever       *)
(* repository it declares; an entity by its reference.                     *)

findComponentsByName(catalog, repository) ==
  {e \in catalog : e.ref.kind = "component" /\ e.ref.name = repository.name}

getEntityByRef(catalog, ref) == {e \in catalog : e.ref = ref}

The(S) == CHOOSE x \in S : TRUE

-----------------------------------------------------------------------------
(* The resolver.                                                           *)

SingleRelation(targets, kind) == Cardinality(targets) = 1 /\ The(targets).kind = kind

Declaring(components, repository) == {e \in components : e.slug = repository}

ComponentVerdict(components, repository) ==
  LET matches == Declaring(components, repository)
  IN  IF components = {} THEN "COMPONENT_NOT_FOUND"
      ELSE IF matches = {} THEN "COMPONENT_PROJECT_SLUG_MISMATCH"
      ELSE IF Cardinality(matches) > 1 THEN "COMPONENT_AMBIGUOUS"
      ELSE IF ~SingleRelation(The(matches).partOf, "system")
        THEN "COMPONENT_SYSTEM_RELATION_INVALID"
      ELSE IF ~SingleRelation(The(matches).ownedBy, "group")
        THEN "COMPONENT_OWNER_RELATION_INVALID"
      ELSE Trusted

SystemVerdict(component, systems) ==
  IF systems = {} THEN "SYSTEM_NOT_FOUND"
  ELSE IF ~SingleRelation(The(systems).ownedBy, "group") THEN "SYSTEM_OWNER_RELATION_INVALID"
  ELSE IF The(systems).ownedBy # component.ownedBy THEN "OWNERSHIP_MISMATCH"
  ELSE Trusted

(* A link counts by its type; one that counts must lead to a page.         *)
Documenting(e) == {l \in e.links : l.type \in {"exact", "root"}}

DocumentationVerdict(e) ==
  IF ~e.exclusions.valid THEN "CONFLUENCE_EXCLUSIONS_INVALID"
  ELSE IF \E l \in Documenting(e) : l.page = None THEN "CONFLUENCE_LINK_INVALID"
  ELSE Trusted

(* The first entity, from the component to the owner, that is at fault.    *)
CollectVerdict(entities) ==
  LET faulty == {i \in DOMAIN entities : DocumentationVerdict(entities[i]) # Trusted}
  IN  IF faulty = {} THEN Trusted ELSE DocumentationVerdict(entities[Min(faulty)])

OwnerVerdict(component, system, owners) ==
  IF owners = {} THEN "OWNER_NOT_FOUND"
  ELSE IF The(owners).channel = None THEN "SLACK_ROUTE_MISSING"
  ELSE IF ~The(owners).channel.valid THEN "SLACK_ROUTE_INVALID"
  ELSE CollectVerdict(<<component, system, The(owners)>>)

(* Exclusions belong to the roots of the entity that declares them.        *)
Declarations(e) ==
  {[page |-> l.page, kind |-> l.type, by |-> e.ref,
    excluded |-> IF l.type = "root" THEN e.exclusions.pages ELSE {}] : l \in Documenting(e)}

Scope(repository, component, system, owner) ==
  [repository |-> repository, component |-> component.ref, system |-> system.ref,
   owner |-> owner.ref, channel |-> owner.channel,
   documents |-> Declarations(component) \cup Declarations(system) \cup Declarations(owner)]

-----------------------------------------------------------------------------
(* What the resolver promises, without its order: the one component that   *)
(* declares the repository, its one system and the one group that owns     *)
(* both, where nothing they declare is invalid.                            *)

TrustedScopes(catalog, repository) ==
  {Scope(repository, t[1], t[2], t[3]) : t \in
     {t \in catalog \X catalog \X catalog :
        /\ \A e \in catalog :
             (e.ref.kind = "component" /\ e.ref.name = repository.name /\ e.slug = repository)
               <=> e = t[1]
        /\ t[1].partOf = {t[2].ref} /\ t[2].ref.kind = "system"
        /\ t[1].ownedBy = {t[3].ref} /\ t[2].ownedBy = {t[3].ref} /\ t[3].ref.kind = "group"
        /\ t[3].channel # None /\ t[3].channel.valid
        /\ \A i \in 1..3 : /\ t[i].exclusions.valid
                           /\ \A l \in t[i].links : l.type = "other" \/ l.page # None}}
=============================================================================
