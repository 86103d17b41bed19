---------------------------- MODULE MCJobQueueCas -----------------------------
(* JobQueueCas for TLC: one running job and two records at most, two       *)
(* tries, three keys, and one of them used for two different requests.     *)
EXTENDS JobQueueCas, TLC

Request(key, caseId, expected) ==
  [actor |-> "a", key |-> key, caseId |-> caseId, type |-> "video",
   priority |-> 1, expectedRevision |-> expected]

FewKeys == {Request(1, "c1", 0), Request(1, "c1", 1), Request(2, "c2", 0), Request(3, "c2", 0)}

AllTypes == {{"video"}}

Calls ==
  {[op |-> "enqueue", request |-> q] : q \in Requests} \cup
  {[op |-> "claim", worker |-> w, types |-> {"video"}] : w \in Workers} \cup
  {[op |-> "purge", caseId |-> "c1"], [op |-> "get"]}

Symmetry == Permutations(JobIds) \cup Permutations(Callers)
==============================================================================
