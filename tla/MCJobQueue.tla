------------------------------ MODULE MCJobQueue ------------------------------
(* JobQueue for TLC: two cases of one actor that compete for the queue.    *)
EXTENDS JobQueue, TLC

Request(actor, key, caseId, priority, revision) ==
  [actor |-> actor, key |-> key, caseId |-> caseId, type |-> "video",
   priority |-> priority, expectedRevision |-> revision]

(* Two jobs of one case, and one of a second case that outranks them.      *)
TwoCases == {Request("a", 1, "c1", 1, 0), Request("a", 2, "c1", 1, 0),
             Request("a", 3, "c2", 0, 0)}

(* The two jobs of case c1.                                                *)
OneCase == {q \in TwoCases : q.caseId = "c1"}

AllTypes == {{"video"}}

Symmetry == Permutations(JobIds) \cup Permutations(Workers)
==============================================================================
