--------------------------- MODULE MCScopeRefresh ---------------------------
(* Small instances of ScopeRefresh for TLC.  Repository a is o/x, which    *)
(* the catalogs below are about; b is o/y, which no catalog knows; p/x is  *)
(* where x may move to.                                                    *)
EXTENDS ScopeRefresh

CONSTANTS a, b, c1, c2, page, other

X == [owner |-> "o", name |-> "x"]
Y == [owner |-> "o", name |-> "y"]
Z == [owner |-> "p", name |-> "x"]

MCName == {X, Y, Z}
MCInitialName == [r \in Repo |-> IF r = a THEN X ELSE Y]
MCGithubId == [r \in Repo |-> IF r = b THEN 1 ELSE 2]
MCMalformed == {Y}

Ref(kind, namespace, name) == [kind |-> kind, namespace |-> namespace, name |-> name]
System == Ref("system", "default", "s")
Group == Ref("group", "default", "g")
Other == Ref("group", "default", "h")

Bare(ref) == [ref |-> ref, slug |-> None, partOf |-> {}, ownedBy |-> {}, channel |-> None,
              exclusions |-> [valid |-> TRUE, pages |-> {}], links |-> {}]
Link(type, target) == [type |-> type, page |-> target]
Channel(valid) == [valid |-> valid]

component == [Bare(Ref("component", "default", "x")) EXCEPT
                !.slug = X, !.partOf = {System}, !.ownedBy = {Group},
                !.links = {Link("root", page), Link("other", None)},
                !.exclusions = [valid |-> TRUE, pages |-> {other}]]
system == [Bare(System) EXCEPT !.ownedBy = {Group}, !.links = {Link("exact", other)}]
group == [Bare(Group) EXCEPT !.channel = Channel(TRUE)]

Good == {component, system, group}
Moved == {[component EXCEPT !.slug = Z], system, group}
Relinked == {[component EXCEPT !.links = {}], [system EXCEPT !.links = {Link("root", page)}], group}
Handed == {[component EXCEPT !.ownedBy = {Other}], system, group, [group EXCEPT !.ref = Other]}

(* One catalog for each diagnostic, and some that are trusted.             *)
MCCatalogs ==
  {Good, Moved, Relinked, Handed,
   {system, group},
   {[component EXCEPT !.slug = Y], system, group},
   {component, [component EXCEPT !.ref.namespace = "other"], system, group},
   {component, [component EXCEPT !.ref.namespace = "other", !.slug = Z], system, group},
   {[component EXCEPT !.partOf = {System, Other}], system, group},
   {[component EXCEPT !.ownedBy = {}], system, group},
   {component, group},
   {component, [system EXCEPT !.ownedBy = {System}], group},
   {component, system},
   {component, system, [group EXCEPT !.channel = None]},
   {component, system, [group EXCEPT !.channel = Channel(FALSE)]},
   {component, [system EXCEPT !.exclusions.valid = FALSE], group},
   {component, system, [group EXCEPT !.links = {Link("exact", None)}]}}

MCUsual == Good
=============================================================================
