---------------------------- MODULE LiveAnalysis ----------------------------
(* Live analyses of the demo case: the analysis route with its completed   *)
(* runs, LiveAnalysisService with its four paid stages and their budget,   *)
(* and the follow-ups to the last result.  All of it lives in one process; *)
(* what runs between two calls of the model is one action.                 *)
EXTENDS EvidenceBudgetOps, Maps, Sequences

CONSTANTS
  Null,
  Posts,              \* requests to the analysis route, numbered as they arrive
  PostKeys, Payloads, \* their idempotency keys and receipt lists
  StageAsks,          \* reservationMaximums, in LIVE_TERRA_STAGE_ORDER
  FollowUps           \* requests to the follow-up route, with a key of PostKeys

LiveAnalysisAssumption ==
  /\ Posts \subseteq Nat /\ Null \notin Posts
  /\ \A s \in DOMAIN StageAsks : StageAsks[s] \in Requests

VARIABLES
  post,        \* post[p]: the request p and where it is
  running,     \* the flag of the route
  completed,   \* key -> [payload, answer]
  budget,      \* InMemoryEvidenceBudgetRepository
  liveBase,    \* the follow-up state: base snapshot and revision, or Null
  followed,    \* completed follow-ups: key -> [binding, view]
  follow       \* follow[f]: what the request f was answered

liveVars == <<post, running, completed, budget, liveBase, followed, follow>>

Waiting == [pc |-> "unsent", key |-> Null, payload |-> Null, stage |-> 0, answer |-> Null]

LiveInit ==
  /\ post = [p \in Posts |-> Waiting]
  /\ running = FALSE
  /\ completed = << >>
  /\ budget = EmptyBudget
  /\ liveBase = Null
  /\ followed = << >>
  /\ follow = [f \in FollowUps |-> Null]

-----------------------------------------------------------------------------
Arrives(p) == post[p].pc = "unsent" /\ \A q \in Posts : q < p => post[q].pc # "unsent"

(* The request up to the first stage.  A guard, the rate limit, a missing  *)
(* receipt or artifact kind, a missing key of the provider or an           *)
(* unreadable interaction file refuses it.                                 *)
PostAnalysis(p, key, payload, refused) ==
  /\ Arrives(p)
  /\ post' = [post EXCEPT ![p] =
       IF key \in DOMAIN completed
       THEN IF completed[key].payload = payload
            THEN [@ EXCEPT !.pc = "done", !.key = key, !.payload = payload,
                           !.answer = completed[key].answer]
            ELSE [@ EXCEPT !.pc = "done"]
       ELSE IF running \/ refused THEN [@ EXCEPT !.pc = "done"]
       ELSE [@ EXCEPT !.pc = "reserve", !.key = key, !.payload = payload, !.stage = 1]]
  /\ running' = (running \/ post'[p].pc = "reserve")
  /\ UNCHANGED <<completed, budget, liveBase, followed, follow>>

(* The finally of the route.                                               *)
Ends(p) == running' = FALSE /\ post' = [post EXCEPT ![p].pc = "done"]

Reservation(p) == <<p, post[p].stage>>

ReserveStage(p) ==
  LET ask == StageAsks[post[p].stage] IN
  /\ post[p].pc = "reserve"
  /\ IF CanReserve(budget, Reservation(p), ask)
     THEN /\ budget' = AfterReserve(budget, Reservation(p), ask)
          /\ post' = [post EXCEPT ![p].pc = "call"]
          /\ UNCHANGED running
     ELSE Ends(p) /\ UNCHANGED budget
  /\ UNCHANGED <<completed, liveBase, followed, follow>>

\* FAULT: a call that failed is not reconciled.
AfterFailureNone(p, u) == budget

(* Every error of the adapter counts as an unknown usage of one attempt or *)
(* more.                                                                   *)
AfterFailure(p, u) == AfterReconcile(budget, Reservation(p), u, FALSE)

CallFails(p, u) ==
  /\ post[p].pc = "call"
  /\ CanReconcile(budget, Reservation(p), u)
  /\ budget' = AfterFailure(p, u)
  /\ Ends(p)
  /\ UNCHANGED <<completed, liveBase, followed, follow>>

(* The service goes on if the call kept to its reservation; an unknown     *)
(* usage of one attempt does too, and the next reservation is refused.     *)
CallAnswers(p, u, known) ==
  LET ask == StageAsks[post[p].stage]
      exceeded == IF known THEN ExceedsReservation(ask, u) ELSE u.attempts > ask.attempts
  IN
  /\ post[p].pc = "call"
  /\ CanReconcile(budget, Reservation(p), u)
  /\ budget' = AfterReconcile(budget, Reservation(p), u, known)
  /\ IF exceeded
     THEN Ends(p)
     ELSE /\ post' = [post EXCEPT ![p] =
               IF post[p].stage = Len(StageAsks) THEN [@ EXCEPT !.pc = "compose"]
               ELSE [@ EXCEPT !.pc = "reserve", !.stage = post[p].stage + 1]]
          /\ UNCHANGED running
  /\ UNCHANGED <<completed, liveBase, followed, follow>>

\* FAULT: a failed run is remembered like a completed one.
RemembersFailure(p, composed) ==
  Put(completed, post[p].key, [payload |-> post[p].payload, answer |-> p])

Remembers(p, composed) ==
  IF composed THEN Put(completed, post[p].key, [payload |-> post[p].payload, answer |-> p])
  ELSE completed

(* composeDeterministic and the schema of the snapshot may throw.  The     *)
(* snapshot's identifier is new (request identifiers of the provider), so  *)
(* registerFollowUpBaseSnapshot starts the follow-up anew.                 *)
Compose(p, composed) ==
  /\ post[p].pc = "compose"
  /\ completed' = Remembers(p, composed)
  /\ liveBase' = IF composed THEN [base |-> p, revision |-> 0] ELSE liveBase
  /\ running' = FALSE
  /\ post' = [post EXCEPT ![p].pc = "done", ![p].answer = IF composed THEN p ELSE Null]
  /\ UNCHANGED <<budget, followed, follow>>

-----------------------------------------------------------------------------
\* FAULT: a key answers whatever it is sent with.
SameRequest(binding, revision) == TRUE

SameBinding(binding, revision) == binding = revision

(* applySealedWallFollowUp; the receipt is one or is refused.  Revision    *)
(* and status move together: only revision 0 can be applied to.            *)
ApplyFollowUp(f, key, revision) ==
  LET view == [key |-> key, binding |-> revision, base |-> liveBase.base, by |-> f] IN
  /\ follow[f] = Null
  /\ IF key \in DOMAIN followed
     THEN /\ SameBinding(followed[key].binding, revision)
          /\ follow' = [follow EXCEPT ![f] =
               [asked |-> revision, key |-> key, view |-> followed[key].view]]
          /\ UNCHANGED <<liveBase, followed>>
     ELSE /\ liveBase # Null /\ liveBase.revision = revision /\ revision = 0
          /\ liveBase' = [liveBase EXCEPT !.revision = 1]
          /\ followed' = Put(followed, key, [binding |-> revision, view |-> view])
          /\ follow' = [follow EXCEPT ![f] = [asked |-> revision, key |-> key, view |-> view]]
  /\ UNCHANGED <<post, running, completed, budget>>

-----------------------------------------------------------------------------
LiveNext ==
  \/ \E p \in Posts, key \in PostKeys, payload \in Payloads, refused \in BOOLEAN :
       PostAnalysis(p, key, payload, refused)
  \/ \E p \in Posts : ReserveStage(p)
  \/ \E p \in Posts, u \in Usages : CallFails(p, u)
  \/ \E p \in Posts, u \in Usages, known \in BOOLEAN : CallAnswers(p, u, known)
  \/ \E p \in Posts, composed \in BOOLEAN : Compose(p, composed)
  \/ \E f \in FollowUps, key \in PostKeys, revision \in {0, 1} : ApplyFollowUp(f, key, revision)

LiveSpec == LiveInit /\ [][LiveNext]_liveVars

-----------------------------------------------------------------------------
LiveTypeOK ==
  /\ \A p \in Posts : post[p].pc \in {"unsent", "reserve", "call", "compose", "done"}
  /\ running \in BOOLEAN
  /\ DOMAIN completed \subseteq PostKeys
  /\ DOMAIN followed \subseteq PostKeys

(* One analysis runs at a time, the flag says so as long, and it holds the *)
(* only open reservation, while it waits for the model.                    *)
RunHoldsItsReservation ==
  LET busy == {p \in Posts : post[p].pc \in {"reserve", "call", "compose"}} IN
  /\ Cardinality(busy) <= 1
  /\ running <=> busy # {}
  /\ DOMAIN budget.active = {Reservation(p) : p \in {q \in busy : post[q].pc = "call"}}

(* A key that was answered is answered alike and never paid for again, and *)
(* a result rests on all its stages, each reconciled.  So with the         *)
(* follow-ups: one view per key, and one per result.                       *)
ResultsArePaidOnce ==
  /\ \A p, q \in Posts :
       post[p].answer # Null /\ post[q].answer # Null /\ post[p].key = post[q].key
       => post[p].answer = post[q].answer /\ post[p].payload = post[q].payload
  /\ \A p \in Posts :
       post[p].answer # Null =>
         {s \in DOMAIN StageAsks : <<p, s>> \in budget.settled} =
            IF post[p].answer = p THEN DOMAIN StageAsks ELSE {}
  /\ \A key \in DOMAIN completed : post[completed[key].answer].answer # Null
  /\ \A f, g \in FollowUps :
       follow[f] # Null /\ follow[g] # Null
       => /\ follow[f].key = follow[g].key =>
               follow[f].view = follow[g].view /\ follow[f].asked = follow[g].asked
          /\ follow[f].view.base = follow[g].view.base => follow[f].view = follow[g].view
=============================================================================
