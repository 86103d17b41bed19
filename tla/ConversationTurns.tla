-------------------------- MODULE ConversationTurns --------------------------
(* Turns of the guided conversation about the demo case: the route with    *)
(* its idempotency store, acknowledgements and completed responses, and    *)
(* the live handler with its case lease and budget.  All of it lives in    *)
(* one process; what runs between two awaits is one action.  What a turn   *)
(* offers to confirm is in CaseConfirmations.                              *)
EXTENDS ConversationStores, ServiceClock

CONSTANTS
  Turns,            \* requests to the turn route, numbered as they arrive
  Keys,             \* idempotency keys
  Texts, Warned,    \* normalized turns, and those with personal data
  TheCase,          \* demoCaseRef, the one case of the route
  Asked,            \* what a live turn reserves
  Used,             \* what it may use: set of amounts
  Live              \* RENTPROOF_LLM_MODE is not "fixture"

TurnsAssumption ==
  Turns \subseteq Nat /\ Null \notin Turns /\ Warned \subseteq Texts /\ Live \in BOOLEAN

VARIABLES
  turn,          \* turn[p]: the request p and where it is
  store,         \* records and leases of the idempotency store
  responses,     \* completedResponses: operation -> expiry
  acks,          \* acknowledgements, by the request that was warned
  liveLease,     \* InMemoryLiveConversationCaseLease: the case is in it
  windows        \* budget windows of the case

moneyVars == <<liveLease, windows>>
turnsVars == <<turn, store, responses, acks, moneyVars>>

Unsent == [pc |-> "unsent", key |-> Null, text |-> Null, reply |-> Null, ack |-> Null, at |-> 0]

TurnsInit ==
  /\ turn = [p \in Turns |-> Unsent]
  /\ store = EmptyStore
  /\ responses = Empty
  /\ acks = Empty
  /\ liveLease = FALSE
  /\ windows = {}

-----------------------------------------------------------------------------
(* The route, up to the operation it begins.  The guards of the request,   *)
(* the rate limit (RateLimiter) and blocked secrets end it before.         *)
Refused == [Unsent EXCEPT !.pc = "done"]

Refuse(p) == turn' = [turn EXCEPT ![p] = Refused]

(* A warned text without an acknowledgement gets one to send along.        *)
Warn(p, text) ==
  LET pruned == AcksPruned(acks, now) IN
  /\ acks' = IF HasRoomForAck(pruned)
             THEN Put(pruned, p, NewAck(TheCase, 1, text, now)) ELSE pruned
  /\ Refuse(p)
  /\ UNCHANGED <<store, responses>>

ResponsesPruned == Restrict(responses, {o \in DOMAIN responses : responses[o] > now})

(* at is when the operation began, and later when it was answered.         *)
Sent(key, text, ack) == [Unsent EXCEPT !.key = key, !.text = text, !.ack = ack, !.at = now]

(* The acknowledgement is used up before the operation begins.             *)
Begin(p, key, text, ack) ==
  LET s == Pruned(store, now)
      kind == BeginKind(s, key, TheCase, text)
  IN
  /\ responses' = ResponsesPruned
  /\ store' = IF kind = "acquired" THEN Acquired(s, key, TheCase, text, p, now) ELSE s
  /\ turn' = [turn EXCEPT ![p] =
       IF kind = "acquired"
       THEN [Sent(key, text, ack) EXCEPT !.pc = IF Live THEN "load" ELSE "answer"]
       ELSE IF kind = "result_reuse" /\ s.records[key].result \in DOMAIN ResponsesPruned
       THEN [Sent(key, text, ack) EXCEPT !.pc = "done", !.reply = s.records[key].result]
       ELSE Refused]

Arrives(p) == turn[p].pc = "unsent" /\ \A q \in Turns : q < p => turn[q].pc # "unsent"

(* ack is the header pii-acknowledgement.                                  *)
SendTurn(p, key, text, ack) ==
  /\ Arrives(p)
  /\ IF text \notin Warned
     THEN Begin(p, key, text, Null) /\ UNCHANGED acks
     ELSE IF ack = Null
     THEN Warn(p, text)
     ELSE LET pruned == AcksPruned(acks, now) IN
          IF AckHolds(pruned, ack, TheCase, 1, text, now)
          THEN Begin(p, key, text, ack) /\ acks' = AckUsed(pruned, ack)
          ELSE Refuse(p) /\ acks' = pruned /\ UNCHANGED <<store, responses>>
  /\ UNCHANGED <<now, moneyVars>>

(* Every error on the way ends in the release of the operation.            *)
GiveUp(p) ==
  /\ store' = AfterRelease(store, turn[p].key, p, now)
  /\ Refuse(p)

-----------------------------------------------------------------------------
(* executeLiveConversationTurn loads the sealed snapshot and the case that *)
(* the model is shown.                                                     *)
LoadState(p) ==
  /\ turn[p].pc = "load"
  /\ \/ turn' = [turn EXCEPT ![p].pc = "reserve"] /\ UNCHANGED store
     \/ GiveUp(p)
  /\ UNCHANGED <<now, responses, acks, moneyVars>>

\* FAULT: the lease is taken whether or not it is free.
CanAcquireAnyway == TRUE

CanAcquire == ~liveLease

(* LiveConversationHandler: the lease, then the reservation.               *)
ReserveTurn(p) ==
  /\ turn[p].pc = "reserve"
  /\ IF CanAcquire
     THEN /\ windows' = AfterOpen(windows, p, Asked, now)
          /\ IF Opens(Current(windows, now), Asked)
             THEN liveLease' = TRUE /\ turn' = [turn EXCEPT ![p].pc = "extract"] /\ UNCHANGED store
             ELSE GiveUp(p) /\ UNCHANGED liveLease
     ELSE GiveUp(p) /\ UNCHANGED moneyVars
  /\ UNCHANGED <<now, responses, acks>>

(* The model answers, refuses or fails, with or without its usage; the     *)
(* reservation is settled and the lease released in every case.            *)
Extract(p) ==
  /\ turn[p].pc = "extract"
  /\ \E usage \in Used, known \in BOOLEAN :
       windows' = AfterSettle(windows, p, usage, known, now)
  /\ liveLease' = FALSE
  /\ \/ turn' = [turn EXCEPT ![p].pc = "answer"] /\ UNCHANGED store
     \/ GiveUp(p)
  /\ UNCHANGED <<now, responses, acks>>

-----------------------------------------------------------------------------
(* The response is kept before the operation is completed, and dropped     *)
(* again when the lease was lost meanwhile.  The two read the clock one    *)
(* after the other: the response may expire a tick earlier.                *)
Answer(p, lag) ==
  LET s == Pruned(store, now)
      key == turn[p].key
      completes == HoldsLease(s, key, p)
  IN
  /\ turn[p].pc = "answer"
  /\ lag <= now
  /\ responses' = IF completes THEN Put(responses, p, (now - lag) + CompletedRetention)
                  ELSE Drop(responses, {p})
  /\ store' = IF completes THEN Finished(s, key, p, now) ELSE s
  /\ turn' = [turn EXCEPT ![p] = IF completes THEN [@ EXCEPT !.pc = "done", !.reply = p, !.at = now]
                                 ELSE Refused]
  /\ UNCHANGED <<now, acks, moneyVars>>

-----------------------------------------------------------------------------
TurnsTime == Advance /\ UNCHANGED <<turn, store, responses, acks, moneyVars>>

LiveTurn(p) == LoadState(p) \/ ReserveTurn(p) \/ Extract(p)

TurnsNext ==
  \/ \E p \in Turns, key \in Keys, text \in Texts, ack \in DOMAIN acks \cup {Null} :
       SendTurn(p, key, text, ack)
  \/ \E p \in Turns : LiveTurn(p)
  \/ \E p \in Turns, lag \in {0, 1} : Answer(p, lag)
  \/ TurnsTime

TurnsSpec == ClockInit /\ TurnsInit /\ [][TurnsNext]_<<now, turnsVars>>

-----------------------------------------------------------------------------
TurnsTypeOK ==
  /\ \A k \in DOMAIN store.records : store.records[k].state \in {"pending", "completed"}
  /\ DOMAIN store.leases \subseteq {TheCase}
  /\ DOMAIN responses \subseteq Turns
  /\ DOMAIN acks \subseteq Turns
  /\ liveLease \in BOOLEAN
  /\ \A p \in Turns :
       turn[p].pc \in {"unsent", "load", "reserve", "extract", "answer", "done"}

Answered(p) == turn[p].reply # Null
CompletedAt(p) == turn[turn[p].reply].at

(* Two turns with one key get one answer, however the pending lease, the   *)
(* turns that outlive it and the retries fall, until the answer is         *)
(* forgotten; a key is never answered for another text.                    *)
OneAnswerPerKey ==
  \A p, q \in Turns :
    /\ Answered(p) /\ Answered(q) /\ turn[p].key = turn[q].key
    /\ turn[q].at \in turn[p].at .. CompletedAt(p) + CompletedRetention - 1
    => turn[p].reply = turn[q].reply /\ turn[p].text = turn[q].text

(* A warning that was acknowledged lets one turn pass.                     *)
OneTurnPerAck ==
  \A p, q \in Turns : turn[p].ack # Null /\ turn[p].ack = turn[q].ack => p = q

(* What a completed record promises can be answered, but for the last      *)
(* instant; every lease of the case has its pending operation, and a turn  *)
(* keeps its operation until its lease expires, whatever late turns with   *)
(* its key, their errors and answers do.                                   *)
StoresAgree ==
  /\ \A k \in DOMAIN store.records :
       LET r == store.records[k] IN
       /\ r.state = "completed" /\ now + 1 < r.expires => r.result \in DOMAIN responses
       /\ r.state = "pending" => LeaseOf(store, k)
  /\ \A c \in DOMAIN store.leases : store.leases[c].key \in DOMAIN store.records
  /\ \A p \in Turns :
       turn[p].pc \notin {"unsent", "done"} /\ now < turn[p].at + PendingTtl
       => HoldsLease(store, turn[p].key, p)

(* At most one call to the model is under way, it holds the lease, and its *)
(* reservation is the only one open: no way out of a turn leaks either.    *)
LeaseIsTheCall ==
  LET calling == {p \in Turns : turn[p].pc = "extract"} IN
  /\ Cardinality(calling) <= 1
  /\ liveLease <=> calling # {}
  /\ UNION {DOMAIN w.reserved : w \in windows} = calling

=============================================================================
