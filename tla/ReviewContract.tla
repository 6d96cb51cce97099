--------------------------- MODULE ReviewContract ---------------------------
(***************************************************************************)
(* What the review queue promises its callers.  A review is submitted for  *)
(* a range of commits of a repository, is delivered to one reviewer at a   *)
(* time and at least once, and is concluded at most once.  A range has one *)
(* open review; only an inconclusive one may be followed by another.  The  *)
(* position of a repository moves only to the head of a review that        *)
(* succeeded, and only from the base that review started from.             *)
(***************************************************************************)
EXTENDS Naturals

CONSTANTS
  Review,    \* review identities
  Repo,      \* repositories
  Commit,    \* commits
  NoCommit,  \* the position of a repository nobody has reviewed
  Mode,      \* kinds of review
  NoSubject  \* the subject of a review that was not submitted

VARIABLES
  stage,       \* how far each review is
  subject,     \* the range each review is about
  deliveries,  \* how often it was handed to a reviewer
  position     \* the last commit of each repository that was reviewed

vars == <<stage, subject, deliveries, position>>

Range == [repo : Repo, base : Commit \cup {NoCommit}, head : Commit, mode : Mode]

Init ==
  /\ stage = [v \in Review |-> "absent"]
  /\ subject = [v \in Review |-> NoSubject]
  /\ deliveries = [v \in Review |-> 0]
  /\ position = [r \in Repo |-> NoCommit]

Submit(v) ==
  /\ stage[v] = "absent"
  /\ \E range \in Range :
       /\ \A w \in Review : subject[w] = range => stage[w] = "inconclusive"
       /\ subject' = [subject EXCEPT ![v] = range]
  /\ stage' = [stage EXCEPT ![v] = "waiting"]
  /\ UNCHANGED <<deliveries, position>>

Deliver(batch) ==
  /\ \A v \in batch : stage[v] = "waiting"
  /\ stage' = [v \in Review |-> IF v \in batch THEN "held" ELSE stage[v]]
  /\ deliveries' = [v \in Review |->
                      IF v \in batch THEN deliveries[v] + 1 ELSE deliveries[v]]
  /\ UNCHANGED <<subject, position>>

GiveBack(batch) ==
  /\ \A v \in batch : stage[v] = "held"
  /\ stage' = [v \in Review |-> IF v \in batch THEN "waiting" ELSE stage[v]]
  /\ UNCHANGED <<subject, deliveries, position>>

(* An inconclusive review, or one that is given up, moves nothing.         *)
Close(v, how) ==
  /\ stage[v] = "held"
  /\ stage' = [stage EXCEPT ![v] = how]
  /\ UNCHANGED <<subject, deliveries, position>>

Succeed(v) ==
  /\ stage[v] = "held"
  /\ position[subject[v].repo] \in {subject[v].base, subject[v].head}
  /\ stage' = [stage EXCEPT ![v] = "succeeded"]
  /\ position' = [position EXCEPT ![subject[v].repo] = subject[v].head]
  /\ UNCHANGED <<subject, deliveries>>

Next ==
  \/ \E v \in Review : \/ Submit(v) \/ Succeed(v)
                       \/ Close(v, "inconclusive") \/ Close(v, "abandoned")
  \/ \E batch \in SUBSET Review : Deliver(batch) \/ GiveBack(batch)

Spec == Init /\ [][Next]_vars
=============================================================================
