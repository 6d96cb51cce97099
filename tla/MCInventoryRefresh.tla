------------------------ MODULE MCInventoryRefresh ------------------------
(* Small instances of InventoryRefresh for TLC.  Repositories a and b are *)
(* installed at the start, a on the first page; c does not exist yet.     *)
(* When a leaves and c appears between the pages, b moves to the first    *)
(* page and c is on the second.  c may be created empty, so that          *)
(* refreshes fail until its first commit is pushed.                       *)
EXTENDS InventoryRefresh

CONSTANTS a, b, c, m, n, o, r1, r2

MCPosition == [r \in Repo |-> CASE r = a -> 1 [] r = b -> 2 [] r = c -> 3]
MCChange ==
  ({"rename", "delete", "remove", "install"} \X {a}) \cup ({"create", "push", "archive"} \X {c})
MCInitialName == [r \in Repo |-> CASE r = a -> m [] r = b -> n [] r = c -> Unborn]
============================================================================
