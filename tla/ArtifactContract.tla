-------------------------- MODULE ArtifactContract --------------------------
(***************************************************************************)
(* What an approval-gated writer promises.  An approved change is carried  *)
(* out in the remote system at most once, however often the approved call  *)
(* is repeated; its artifact is recorded at most once, only when it exists *)
(* remotely, and neither is ever taken back or replaced.                   *)
(***************************************************************************)
CONSTANTS
  Change,   \* approved changes
  Artifact  \* what the remote system may create for one

VARIABLES
  made,     \* the artifacts of each change that exist remotely
  recorded  \* the artifacts of each change that the audit trail names

vars == <<made, recorded>>

Init ==
  /\ made = [ch \in Change |-> {}]
  /\ recorded = [ch \in Change |-> {}]

Make(ch) ==
  /\ made[ch] = {}
  /\ \E a \in Artifact : made' = [made EXCEPT ![ch] = {a}]
  /\ UNCHANGED recorded

Record(ch) ==
  /\ recorded[ch] = {}
  /\ \E a \in made[ch] : recorded' = [recorded EXCEPT ![ch] = {a}]
  /\ UNCHANGED made

Next == \E ch \in Change : Make(ch) \/ Record(ch)

Spec == Init /\ [][Next]_vars
=============================================================================
