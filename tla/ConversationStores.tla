------------------------- MODULE ConversationStores -------------------------
(* The in-memory stores of the conversation as operators on their maps:    *)
(* idempotency records and case leases, acknowledgements of personal data, *)
(* and the budget windows of the live model.  A map is a function whose    *)
(* domain is the set of its keys; hashes of keys are the keys.             *)
EXTENDS Maps, Naturals, FiniteSets, Functions

CONSTANTS
  Null,
  PendingTtl,         \* pendingLeaseTtlMs
  CompletedRetention, \* completedRetentionMs
  MaxRecords,         \* maxRecords of the idempotency store
  AckTtl,             \* piiAcknowledgementTtlMs
  AckRetention,       \* terminalRetentionMs
  MaxAcks,            \* maxRecords of the acknowledgement store
  WindowLength,       \* CONVERSATION_BUDGET_LIMITS.windowMs
  WindowLimits        \* the other three limits

StoreOptionsAssumption ==
  /\ {PendingTtl, CompletedRetention, MaxRecords, MaxAcks, WindowLength}
       \subseteq Nat \ {0}
  /\ {AckTtl, AckRetention} \subseteq Nat
  /\ WindowLimits \in [attempts : Nat, input : Nat, output : Nat]

Empty == << >>
Drop(map, keys) == Restrict(map, DOMAIN map \ keys)

-----------------------------------------------------------------------------
(* Idempotency: store.records[key] is a pending or completed operation,    *)
(* store.leases[case] the lease of the one operation of that case.         *)
EmptyStore == [records |-> Empty, leases |-> Empty]

LeaseOf(store, key) ==
  LET r == store.records[key] IN
  /\ r.case \in DOMAIN store.leases
  /\ store.leases[r.case].key = key
  /\ store.leases[r.case].lease = r.lease

Pruned(store, time) ==
  LET over == {k \in DOMAIN store.records : time >= store.records[k].expires}
      freed == {store.records[k].case : k \in
                  {j \in over : store.records[j].state = "pending" /\ LeaseOf(store, j)}}
      lapsed == {c \in DOMAIN store.leases : time >= store.leases[c].expires}
  IN  [records |-> Drop(store.records, over), leases |-> Drop(store.leases, freed \cup lapsed)]

SameBinding(record, case, payload) == record.case = case /\ record.payload = payload

(* What begin answers; store is pruned.                                    *)
BeginKind(store, key, case, payload) ==
  IF key \in DOMAIN store.records
  THEN IF ~SameBinding(store.records[key], case, payload) THEN "conflict"
       ELSE IF store.records[key].state = "pending" THEN "pending_reuse" ELSE "result_reuse"
  ELSE IF Cardinality(DOMAIN store.records) >= MaxRecords THEN "unavailable"
  ELSE IF case \in DOMAIN store.leases THEN "case_busy"
  ELSE "acquired"

(* lease is the new operation and lease identifier in one.                 *)
Acquired(store, key, case, payload, lease, time) ==
  LET expires == time + PendingTtl IN
  [records |-> Put(store.records, key,
     [state |-> "pending", case |-> case, payload |-> payload, lease |-> lease,
      result |-> Null, expires |-> expires]),
   leases |-> Put(store.leases, case, [key |-> key, lease |-> lease, expires |-> expires])]

\* FAULT: any pending operation with the key will do.
HoldsSomeLease(store, key, lease) ==
  key \in DOMAIN store.records /\ store.records[key].state = "pending"

(* The guard of complete and release; store is pruned.                     *)
HoldsLease(store, key, lease) ==
  /\ key \in DOMAIN store.records
  /\ store.records[key].state = "pending"
  /\ store.records[key].lease = lease
  /\ LeaseOf(store, key)

Finished(store, key, result, time) ==
  LET r == store.records[key] IN
  [records |-> Put(store.records, key,
     [r EXCEPT !.state = "completed", !.result = result, !.expires = time + CompletedRetention]),
   leases |-> Drop(store.leases, {r.case})]

Released(store, key) ==
  [records |-> Drop(store.records, {key}),
   leases |-> Drop(store.leases, {store.records[key].case})]

AfterRelease(store, key, lease, time) ==
  LET s == Pruned(store, time) IN IF HoldsLease(s, key, lease) THEN Released(s, key) ELSE s

-----------------------------------------------------------------------------
(* Acknowledgements of a warning about personal data.                      *)
AcksPruned(acks, time) ==
  Restrict(acks, {i \in DOMAIN acks : time < acks[i].expires + AckRetention})

HasRoomForAck(acks) == Cardinality(DOMAIN acks) < MaxAcks

NewAck(case, revision, payload, time) ==
  [case |-> case, revision |-> revision, payload |-> payload, expires |-> time + AckTtl,
   status |-> "pending"]

\* FAULT: an acknowledgement can be used again.
AckHoldsTwice(acks, id, case, revision, payload, time) ==
  /\ id \in DOMAIN acks
  /\ time < acks[id].expires
  /\ [case |-> acks[id].case, revision |-> acks[id].revision, payload |-> acks[id].payload]
       = [case |-> case, revision |-> revision, payload |-> payload]

(* acks is pruned.  Which of the three codes a refusal carries is left out. *)
AckHolds(acks, id, case, revision, payload, time) ==
  /\ id \in DOMAIN acks
  /\ acks[id].status = "pending"
  /\ time < acks[id].expires
  /\ [case |-> acks[id].case, revision |-> acks[id].revision, payload |-> acks[id].payload]
       = [case |-> case, revision |-> revision, payload |-> payload]

AckUsed(acks, id) == [acks EXCEPT ![id].status = "consumed"]

-----------------------------------------------------------------------------
(* The budget of one case: windows by their start, the last one current.   *)
(* window.reserved maps the open reservations of the window to their       *)
(* maxima.                                                                 *)
Amounts == [attempts |-> 0, input |-> 0, output |-> 0]

Add(a, b) == [d \in DOMAIN a |-> a[d] + b[d]]

NewWindow(time) ==
  [start |-> time, reserved |-> Empty, actual |-> Amounts, unknown |-> FALSE]

(* The window that a reservation is made in: the current one, or a new one.*)
Current(windows, time) ==
  LET last == CHOOSE w \in windows : \A v \in windows : v.start <= w.start IN
  IF windows = {} \/ time >= last.start + WindowLength THEN NewWindow(time) ELSE last

Reserved(window) == FoldFunction(Add, Amounts, window.reserved)

Fits(window, request) ==
  LET total == Add(Add(window.actual, Reserved(window)), request) IN
  \A d \in DOMAIN total : total[d] <= WindowLimits[d]

Opens(window, request) == ~window.unknown /\ Fits(window, request)

(* A window that is begun stays begun although the reservation is refused. *)
AfterOpen(windows, id, request, time) ==
  LET w == Current(windows, time) IN
  (windows \ {w}) \cup
    {IF Opens(w, request) THEN [w EXCEPT !.reserved = Put(@, id, request)] ELSE w}

HolderOf(windows, id) == CHOOSE w \in windows : id \in DOMAIN w.reserved

(* Of an unknown usage only the attempts are entered.                      *)
Settled(window, usage, known) ==
  [window EXCEPT !.actual = Add(@, IF known THEN usage ELSE [Amounts EXCEPT !.attempts = usage.attempts]),
                 !.unknown = @ \/ ~known]

(* The usage is charged to the window of its reservation, at any time.     *)
AfterSettle(windows, id, usage, known, time) ==
  LET w == HolderOf(windows, id) IN
  (windows \ {w}) \cup {Settled([w EXCEPT !.reserved = Drop(@, {id})], usage, known)}
=============================================================================
