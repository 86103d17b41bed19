-------------------------- MODULE CaseAnalysisProofs --------------------------
(***************************************************************************)
(* The log that PostgreSQL keeps implements the budget of EvidenceBudget,  *)
(* for every number of analyses and readers, all uploads and all limits;   *)
(* what is proved of the budget holds for the log.                         *)
(*                                                                         *)
(* A log that has been replayed once can be replayed with one more entry   *)
(* (ReplaysTo): that the recursive replay has a value and that this value  *)
(* is the engine's state is carried along the behaviour, step by step.     *)
(***************************************************************************)
EXTENDS CaseAnalysis, FiniteSetTheorems, TLAPS

-----------------------------------------------------------------------------
(* The budget alone: what it guarantees for every set of callers, every    *)
(* size of their requests and usages, and every limit.                     *)

(* What the replayed engine knows of the real spending.                    *)
KnownSpending == ~budget.unknownUsage => budget.actual = spent

AttemptsCountOperations ==
  operations + Cardinality(DOMAIN budget.active)
    <= 2 * (budget.actual.attempts + budget.reserved.attempts)

BudgetInv ==
  /\ BudgetTypeOK
  /\ IsFiniteSet(DOMAIN budget.active)
  /\ KnownSpending
  /\ SpendingIsCovered
  /\ AttemptsCountOperations
  /\ LogHasRoom

LEMMA TotalsArithmetic ==
  ASSUME NEW t \in Totals, NEW u \in Totals
  PROVE  Plus(t, u) \in Totals /\ Minus(t, u) \in Totals
BY DEF Plus, Minus, Totals

LEMMA RequestTotals ==
  ASSUME NEW q \in Requests
  PROVE  Ask(q) \in Totals /\ Ask(q).attempts = 1
<1>1. q \in Request /\ q.attempts = 1
  BY CallsAssumption, OneAttemptAssumption
<1>2. Cost(q.input, 0, q.output) \in Int
  BY <1>1 DEF Cost, Request
<1> QED  BY <1>1, <1>2 DEF Ask, Totals, Request

LEMMA UsageTotals ==
  ASSUME NEW u \in Usages, NEW known \in BOOLEAN
  PROVE  /\ Use(u) \in Totals /\ Use(u).attempts = u.attempts
         /\ Entered(u, known) \in Totals
         /\ Entered(u, known).attempts = u.attempts
         /\ known => Entered(u, known) = Use(u)
<1>1. u \in Usage
  BY CallsAssumption
<1>2. Cost(u.input, u.cached, u.output) \in Int
  BY <1>1 DEF Cost, Usage
<1>3. Use(u) \in Totals /\ Use(u).attempts = u.attempts
  BY <1>1, <1>2 DEF Use, Totals, Usage
<1> QED  BY <1>1, <1>3 DEF Entered, Totals, Usage

(* A call that keeps to its reservation keeps to its cost as well: cached  *)
(* tokens are the cheaper ones.                                            *)
LEMMA WithinReservation ==
  ASSUME NEW q \in Requests, NEW u \in Usages, ValidUsage(u),
         ~ExceedsReservation(q, u)
  PROVE  AtMost(Use(u), Ask(q))
<1>1. q \in Request /\ u \in Usage
  BY CallsAssumption
<1>2. u.attempts <= q.attempts /\ u.input <= q.input /\ u.output <= q.output
  BY <1>1 DEF ExceedsReservation, Request, Usage
<1>3. Cost(u.input, u.cached, u.output) <= Cost(q.input, 0, q.output)
  BY <1>1, <1>2 DEF Cost, ValidUsage, Request, Usage
<1> QED  BY <1>2, <1>3 DEF Use, Ask, AtMost

-----------------------------------------------------------------------------
(* Induction. *)

LEMMA BudgetStart == BudgetInit => BudgetInv
<1> SUFFICES ASSUME BudgetInit PROVE BudgetInv
  OBVIOUS
<1>1. Zero \in Totals
  BY DEF Zero, Totals
<1>2. DOMAIN budget.active = {} /\ IsFiniteSet(DOMAIN budget.active)
      /\ Cardinality(DOMAIN budget.active) = 0
  BY FS_EmptySet DEF BudgetInit, EmptyBudget
<1>3. budget.active \in Reservations
  <2>1. budget.active \in [{} -> Requests]
    BY DEF BudgetInit, EmptyBudget
  <2> QED  BY <2>1 DEF Reservations
<1>4. BudgetTypeOK
  BY <1>1, <1>3 DEF BudgetTypeOK, BudgetRecord, BudgetInit, EmptyBudget
<1>5. KnownSpending /\ AttemptsCountOperations
  BY <1>2 DEF KnownSpending, AttemptsCountOperations, BudgetInit, EmptyBudget, Zero
<1>6. SpendingIsCovered /\ LogHasRoom
  BY <1>2, LimitsAssumption
     DEF SpendingIsCovered, LogHasRoom, BudgetInit, EmptyBudget, Zero, Plus, AtMost, Totals
<1> QED  BY <1>2, <1>4, <1>5, <1>6 DEF BudgetInv

LEMMA ReserveKeeps ==
  ASSUME BudgetInv, NEW id \in ReservationIds, NEW q \in Requests, Reserve(id, q)
  PROVE  BudgetInv'
<1> DEFINE ids == DOMAIN budget.active
<1>1. id \notin ids /\ id \notin budget.settled /\ ~budget.unknownUsage
  BY DEF Reserve, CanReserve
<1>2. AtMost(Plus(Plus(budget.actual, budget.reserved), Ask(q)), Limits)
  BY DEF Reserve, CanReserve, FitsLimits, Committed
<1>3. /\ budget.reserved \in Totals /\ budget.actual \in Totals
      /\ ids \subseteq ReservationIds /\ budget.active \in [ids -> Requests]
      /\ spent \in Totals /\ operations \in Nat
  BY DEF BudgetInv, BudgetTypeOK, BudgetRecord, Reservations
<1>4. Ask(q) \in Totals /\ Ask(q).attempts = 1
  BY RequestTotals
<1>5. /\ budget'.reserved = Plus(budget.reserved, Ask(q))
      /\ budget'.actual = budget.actual
      /\ budget'.unknownUsage = budget.unknownUsage
      /\ budget'.settled = budget.settled
      /\ budget'.active = [i \in ids \cup {id} |-> IF i = id THEN q ELSE budget.active[i]]
  BY DEF Reserve, AfterReserve, BudgetInv, BudgetTypeOK, BudgetRecord
<1>6. DOMAIN budget'.active = ids \cup {id}
  BY <1>5
<1>7. IsFiniteSet(ids \cup {id}) /\ Cardinality(ids \cup {id}) = Cardinality(ids) + 1
      /\ Cardinality(ids) \in Nat
  BY <1>1, FS_AddElement, FS_CardinalityType DEF BudgetInv
<1>8. operations' = operations + 1 /\ spent' = spent /\ overrun' = overrun
  BY DEF Reserve
<1>9. BudgetTypeOK'
  <2>1. budget'.active \in Reservations
    <3>1. budget'.active \in [ids \cup {id} -> Requests]
      BY <1>3, <1>5
    <3>2. ids \cup {id} \in SUBSET ReservationIds
      BY <1>3
    <3> QED  BY <3>1, <3>2 DEF Reservations
  <2>2. Plus(budget.reserved, Ask(q)) \in Totals
    BY <1>3, <1>4, TotalsArithmetic
  <2>3. budget' \in BudgetRecord
    BY <1>5, <2>1, <2>2, Zenon DEF Reserve, AfterReserve, BudgetInv, BudgetTypeOK, BudgetRecord
  <2>4. budget'.settled \cap DOMAIN budget'.active = {}
    BY <1>1, <1>5, <1>6 DEF BudgetInv, BudgetTypeOK, BudgetRecord
  <2> QED  BY <1>3, <1>8, <2>3, <2>4 DEF BudgetInv, BudgetTypeOK, BudgetRecord
<1>10. KnownSpending'
  BY <1>5, <1>8 DEF KnownSpending, BudgetInv
<1>11. SpendingIsCovered'
  <2>1. budget.actual = spent
    BY <1>1 DEF BudgetInv, KnownSpending
  <2>2. AtMost(Plus(spent, Plus(budget.reserved, Ask(q))), Limits)
    BY <1>2, <1>3, <1>4, <2>1, LimitsAssumption DEF AtMost, Plus, Totals
  <2> QED  BY <1>5, <1>8, <2>2 DEF SpendingIsCovered
<1>12. AttemptsCountOperations' /\ LogHasRoom'
  <2>1. operations + Cardinality(ids)
          <= 2 * (budget.actual.attempts + budget.reserved.attempts)
    BY DEF BudgetInv, AttemptsCountOperations
  <2>2. budget.actual.attempts + budget.reserved.attempts + 1 <= Limits.attempts
    BY <1>2, <1>4 DEF AtMost, Plus
  <2>3. budget'.reserved.attempts = budget.reserved.attempts + 1
    BY <1>4, <1>5 DEF Plus
  <2>4. /\ budget.actual.attempts \in Int /\ budget.reserved.attempts \in Int
        /\ Limits.attempts \in Int
    BY <1>3, LimitsAssumption DEF Totals
  <2> HIDE DEF ids
  <2>5. operations' + Cardinality(DOMAIN budget'.active)
          <= 2 * (budget.actual.attempts + budget.reserved.attempts) + 2
    BY <1>3, <1>6, <1>7, <1>8, <2>1, <2>4
  <2> QED  BY <1>3, <1>5, <1>6, <1>7, <1>8, <2>2, <2>3, <2>4, <2>5
              DEF AttemptsCountOperations, LogHasRoom
<1> QED  BY <1>6, <1>7, <1>9, <1>10, <1>11, <1>12 DEF BudgetInv

LEMMA ReconcileKeeps ==
  ASSUME BudgetInv, NEW id \in ReservationIds, NEW u \in Usages,
         NEW known \in BOOLEAN, Reconcile(id, u, known)
  PROVE  BudgetInv'
<1> DEFINE ids == DOMAIN budget.active
<1> DEFINE q == budget.active[id]
<1>1. id \in ids /\ ValidUsage(u)
  BY DEF Reconcile, CanReconcile
<1>2. /\ budget.reserved \in Totals /\ budget.actual \in Totals
      /\ ids \subseteq ReservationIds /\ budget.active \in [ids -> Requests]
      /\ spent \in Totals /\ operations \in Nat /\ q \in Requests
      /\ budget.unknownUsage \in BOOLEAN /\ overrun \in BOOLEAN
  BY <1>1 DEF BudgetInv, BudgetTypeOK, BudgetRecord, Reservations
<1>3. /\ Ask(q) \in Totals /\ Ask(q).attempts = 1
      /\ Use(u) \in Totals /\ Use(u).attempts = u.attempts
      /\ Entered(u, known) \in Totals /\ Entered(u, known).attempts = u.attempts
      /\ known => Entered(u, known) = Use(u)
  BY <1>2, RequestTotals, UsageTotals
<1>4. /\ budget'.reserved = Minus(budget.reserved, Ask(q))
      /\ budget'.actual = Plus(budget.actual, Entered(u, known))
      /\ budget'.unknownUsage = (budget.unknownUsage \/ ~known)
      /\ budget'.settled = budget.settled \cup {id}
      /\ budget'.active = [i \in ids \ {id} |-> budget.active[i]]
  BY DEF Reconcile, AfterReconcile, BudgetInv, BudgetTypeOK, BudgetRecord
<1>5. DOMAIN budget'.active = ids \ {id}
  BY <1>4
<1>6. IsFiniteSet(ids \ {id}) /\ Cardinality(ids \ {id}) = Cardinality(ids) - 1
      /\ Cardinality(ids) \in Nat
  BY <1>1, FS_RemoveElement, FS_CardinalityType DEF BudgetInv
<1>7. /\ operations' = operations + 1
      /\ spent' = Plus(spent, Use(u))
      /\ overrun' = (overrun \/ ExceedsReservation(q, u))
  BY DEF Reconcile
<1>8. BudgetTypeOK'
  <2>1. budget'.active \in Reservations
    <3>1. budget'.active \in [ids \ {id} -> Requests]
      BY <1>2, <1>4
    <3>2. ids \ {id} \in SUBSET ReservationIds
      BY <1>2
    <3> QED  BY <3>1, <3>2 DEF Reservations
  <2>2. budget'.reserved \in Totals /\ budget'.actual \in Totals /\ spent' \in Totals
    BY <1>2, <1>3, <1>4, <1>7, TotalsArithmetic
  <2>3. overrun' \in BOOLEAN /\ budget'.unknownUsage \in BOOLEAN
    BY <1>2, <1>4, <1>7 DEF ExceedsReservation
  <2>4. budget' \in BudgetRecord
    BY <1>4, <2>1, <2>2, <2>3, Zenon DEF Reconcile, AfterReconcile, BudgetInv, BudgetTypeOK, BudgetRecord
  <2>5. budget'.settled \cap DOMAIN budget'.active = {}
    BY <1>4, <1>5 DEF BudgetInv, BudgetTypeOK, BudgetRecord
  <2> QED  BY <1>2, <1>7, <2>2, <2>3, <2>4, <2>5 DEF BudgetTypeOK, BudgetRecord
<1>9. KnownSpending'
  BY <1>3, <1>4, <1>7 DEF KnownSpending, BudgetInv
<1>10. SpendingIsCovered'
  <2> SUFFICES ASSUME ~overrun'
               PROVE  AtMost(Plus(spent', budget'.reserved), Limits)
    BY DEF SpendingIsCovered
  <2>1. AtMost(Plus(spent, budget.reserved), Limits)
    BY <1>7 DEF BudgetInv, SpendingIsCovered
  <2>2. AtMost(Use(u), Ask(q))
    BY <1>1, <1>2, <1>7, WithinReservation
  <2> QED  BY <1>2, <1>3, <1>4, <1>7, <2>1, <2>2, LimitsAssumption
              DEF AtMost, Plus, Minus, Totals
<1>11. AttemptsCountOperations'
  <2>1. operations + Cardinality(ids)
          <= 2 * (budget.actual.attempts + budget.reserved.attempts)
    BY DEF BudgetInv, AttemptsCountOperations
  <2>2. u.attempts >= 1 /\ u.attempts \in Int
    BY <1>1, <1>3 DEF ValidUsage, Totals
  <2>3. /\ budget'.actual.attempts = budget.actual.attempts + u.attempts
        /\ budget'.reserved.attempts = budget.reserved.attempts - 1
    BY <1>3, <1>4 DEF Plus, Minus
  <2>4. budget.actual.attempts \in Int /\ budget.reserved.attempts \in Int
    BY <1>2 DEF Totals
  <2> HIDE DEF ids
  <2> QED  BY <1>2, <1>5, <1>6, <1>7, <2>1, <2>2, <2>3, <2>4
              DEF AttemptsCountOperations
<1>12. LogHasRoom'
  <2> HIDE DEF ids
  <2>1. operations + Cardinality(DOMAIN budget.active) <= 2 * Limits.attempts
    BY DEF BudgetInv, LogHasRoom
  <2>2. operations' + Cardinality(DOMAIN budget'.active)
          = operations + Cardinality(ids)
    BY <1>2, <1>5, <1>6, <1>7
  <2> QED  BY <2>1, <2>2 DEF LogHasRoom, ids
<1> QED  BY <1>5, <1>6, <1>8, <1>9, <1>10, <1>11, <1>12 DEF BudgetInv

(* Nothing else happens to a budget.                                       *)
THEOREM BudgetInvariant == BudgetSpec => []BudgetInv
<1>1. BudgetInv /\ [BudgetNext]_budgetVars => BudgetInv'
  <2> SUFFICES ASSUME BudgetInv, [BudgetNext]_budgetVars PROVE BudgetInv'
    OBVIOUS
  <2>1. ASSUME NEW id \in ReservationIds, NEW q \in Requests, Reserve(id, q)
        PROVE  BudgetInv'
    BY <2>1, ReserveKeeps
  <2>2. ASSUME NEW id \in ReservationIds, NEW u \in Usages, NEW known \in BOOLEAN,
               Reconcile(id, u, known)
        PROVE  BudgetInv'
    BY <2>2, ReconcileKeeps
  <2>3. CASE UNCHANGED budgetVars
    BY <2>3 DEF budgetVars, BudgetInv, BudgetTypeOK, BudgetRecord, KnownSpending, SpendingIsCovered,
                AttemptsCountOperations, LogHasRoom
  <2> QED  BY <2>1, <2>2, <2>3 DEF BudgetNext
<1> QED  BY <1>1, BudgetStart, PTL DEF BudgetSpec

(* What the calls of a case have really used, and what those under way may *)
(* still use, is within every limit, unless a call exceeded what reserve() *)
(* had granted it; whatever usage was lost or never reported.              *)
THEOREM SpendingCovered == BudgetSpec => []SpendingIsCovered
<1>1. BudgetInv => SpendingIsCovered
  BY DEF BudgetInv
<1> QED  BY <1>1, BudgetInvariant, PTL

(* The log of the budget ends, with room for every reconciliation still to *)
(* come, at twice the attempts of a case: EventsSchema refuses none.       *)
THEOREM LogKeepsRoom == BudgetSpec => []LogHasRoom
<1>1. BudgetInv => LogHasRoom
  BY DEF BudgetInv
<1> QED  BY <1>1, BudgetInvariant, PTL

-----------------------------------------------------------------------------
(* Replaying a log. *)

IsReplay(after, log) ==
  after = [n \in 0 .. Len(log) |->
            IF n = 0 THEN EmptyBudget
            ELSE LET b == after[n - 1]
                 IN  IF b # Rejected /\ Accepts(b, log[n]) THEN Applied(b, log[n])
                                                           ELSE Rejected]

ReplaysTo(log, b) ==
  /\ \E after : IsReplay(after, log)
  /\ \A after : IsReplay(after, log) => after[Len(log)] = b

LEMMA ReplayValue ==
  ASSUME NEW log, NEW b, ReplaysTo(log, b)
  PROVE  Replay(log) = b
<1> DEFINE h == CHOOSE after : IsReplay(after, log)
<1>1. IsReplay(h, log)
  BY DEF ReplaysTo
<1>2. h[Len(log)] = b
  BY <1>1 DEF ReplaysTo
<1>3. Replay(log) = h[Len(log)]
  BY DEF Replay, IsReplay
<1> QED BY <1>2, <1>3

LEMMA EmptyLogReplays == ReplaysTo(<<>>, EmptyBudget)
<1> DEFINE h == [n \in {0} |-> EmptyBudget]
<1>1. Len(<<>>) = 0 /\ 0 .. 0 = {0}
  OBVIOUS
<1>2. IsReplay(h, <<>>)
  BY <1>1 DEF IsReplay
<1>3. ASSUME NEW after, IsReplay(after, <<>>)
      PROVE  after[0] = EmptyBudget
  BY <1>1, <1>3 DEF IsReplay
<1> QED BY <1>1, <1>2, <1>3 DEF ReplaysTo

LEMMA LongerLogReplays ==
  ASSUME NEW S, NEW log \in Seq(S), NEW e \in S, NEW b, ReplaysTo(log, b),
         b # Rejected, Accepts(b, e)
  PROVE  ReplaysTo(Append(log, e), Applied(b, e))
<1> DEFINE long == Append(log, e)
           k == Len(log)
           Next1(p, x) == IF p # Rejected /\ Accepts(p, x) THEN Applied(p, x) ELSE Rejected
<1>1. /\ k \in Nat /\ Len(long) = k + 1 /\ long[k + 1] = e
      /\ \A n \in 1 .. k : long[n] = log[n]
  OBVIOUS
<1>2. \A after, l : IsReplay(after, l) <=>
        after = [n \in 0 .. Len(l) |-> IF n = 0 THEN EmptyBudget
                                       ELSE Next1(after[n - 1], l[n])]
  BY DEF IsReplay
<1> HIDE DEF Next1
<1>3. Next1(b, e) = Applied(b, e)
  BY DEF Next1
<1> HIDE DEF long, k
<1>4. \E after : IsReplay(after, long)
  <2>1. PICK g : IsReplay(g, log)
    BY DEF ReplaysTo
  <2>2. g[k] = b
    BY <2>1 DEF ReplaysTo, k
  <2>3. g = [n \in 0 .. k |-> IF n = 0 THEN EmptyBudget ELSE Next1(g[n - 1], log[n])]
    BY <1>2, <2>1 DEF k
  <2> DEFINE h == [n \in 0 .. (k + 1) |-> IF n = k + 1 THEN Next1(b, e) ELSE g[n]]
  <2>4. ASSUME NEW n \in 0 .. (k + 1)
        PROVE  h[n] = IF n = 0 THEN EmptyBudget ELSE Next1(h[n - 1], long[n])
    <3>1. CASE n = 0
      BY <1>1, <2>3, <3>1
    <3>2. CASE n \in 1 .. k
      BY <1>1, <2>3, <3>2
    <3>3. CASE n = k + 1
      BY <1>1, <2>2, <3>3
    <3> QED BY <1>1, <3>1, <3>2, <3>3
  <2>5. h = [n \in 0 .. (k + 1) |-> IF n = 0 THEN EmptyBudget ELSE Next1(h[n - 1], long[n])]
    BY <2>4
  <2> QED BY <1>1, <1>2, <2>5
<1>5. ASSUME NEW after, IsReplay(after, long)
      PROVE  after[k + 1] = Applied(b, e)
  <2>1. after = [n \in 0 .. (k + 1) |-> IF n = 0 THEN EmptyBudget
                                        ELSE Next1(after[n - 1], long[n])]
    BY <1>1, <1>2, <1>5
  <2> DEFINE g == [n \in 0 .. k |-> after[n]]
  <2>2. g = [n \in 0 .. k |-> IF n = 0 THEN EmptyBudget ELSE Next1(g[n - 1], log[n])]
    <3>1. ASSUME NEW n \in 0 .. k
          PROVE  after[n] = IF n = 0 THEN EmptyBudget ELSE Next1(g[n - 1], log[n])
      <4>1. CASE n = 0
        BY <1>1, <2>1, <4>1
      <4>2. CASE n # 0
        BY <1>1, <2>1, <4>2
      <4> QED BY <4>1, <4>2
    <3> QED BY <3>1
  <2>3. IsReplay(g, log)
    <3> HIDE DEF g
    <3> QED BY <1>2, <2>2 DEF k
  <2>4. g[k] = b
    BY <2>3 DEF ReplaysTo, k
  <2>5. after[k] = b
    BY <1>1, <2>4
  <2> QED BY <1>1, <1>3, <2>1, <2>5
<1> QED BY <1>1, <1>4, <1>5 DEF ReplaysTo, long
-----------------------------------------------------------------------------
(* The invariant. *)

PCs == {"idle", "load", "reserve", "send", "reconcile", "commit", "done", "failed"}

CallRecord ==
  [pc : PCs, stage : Nat, revision : Nat, rows : (SUBSET Artifacts) \cup {Null},
   url : Texts \cup {Null, "none"}, used : Usages \cup {Null}, known : BOOLEAN]

Entry ==
  [type : {"reserve"}, id : CallIds, request : StageRequests]
  \cup [type : {"reconcile"}, id : CallIds, usage : Usages, known : BOOLEAN]

ListingPage == IF listing = Null THEN "none" ELSE listing

CaseOK ==
  /\ available \subseteq Artifacts
  /\ listing \in Texts \cup {Null}
  /\ revision \in Nat
  /\ deleted \in BOOLEAN
  /\ pending # Null => pending.text \in Texts
  /\ SnapshotKnowsPublished

(* What an analysis has read is what the case still holds, as long as the  *)
(* revision, read before, has not moved.                                   *)
HasRead(r) ==
  /\ r.pc = "idle" => r.rows = Null /\ r.url = Null
  /\ r.pc \in {"reserve", "send", "reconcile", "commit"} => r.rows # Null /\ r.url # Null
  /\ ~deleted /\ r.revision = revision /\ r.pc \notin {"idle", "done", "failed"} =>
       /\ r.rows # Null => r.rows = available
       /\ r.url # Null => r.url = ListingPage

CallerOK(c, r) ==
  /\ r \in CallRecord
  /\ r.stage \in DOMAIN Stages(c)
  /\ r.revision <= revision
  /\ r.pc = "reconcile" => r.used \in Usages
  /\ r.pc \in {"load", "commit"} => c \in Analyses
  /\ c \in Analyses => HasRead(r)

CallersOK ==
  /\ call = [c \in Callers |-> call[c]]
  /\ \A c \in Callers : CallerOK(c, call[c])

LogOK ==
  /\ events \in Seq(Entry) /\ operations = Len(events)
  /\ ReplaysTo(events, budget)
  /\ BudgetInv

(* The reservations are those of calls, each for what its call may use.    *)
MoneyOK ==
  /\ forsaken \subseteq CallIds
  /\ ReservationsAreCalls
  /\ \A c \in Callers : Paying(c) => budget.active[CallId(c)] = RequestOf(c)

AnalysisInv == CaseOK /\ CallersOK /\ LogOK /\ MoneyOK
-----------------------------------------------------------------------------
(* Calls and their reservations. *)

LEMMA StageCalls ==
  ASSUME NEW c \in Callers, NEW n \in DOMAIN Stages(c)
  PROVE  /\ <<c, n>> \in CallIds /\ <<c, n>> \in ReservationIds
         /\ Stages(c)[n] \in StageRequests /\ Stages(c)[n] \in Requests
<1>1. <<c, n>> \in CallIds /\ Stages(c)[n] \in StageRequests
  BY DEF CallIds, StageRequests
<1> QED BY <1>1, CallersAssumption

LEMMA StageNumbers ==
  ASSUME NEW c \in Callers
  PROVE  /\ Len(Stages(c)) \in Nat /\ DOMAIN Stages(c) = 1 .. Len(Stages(c))
         /\ 1 \in DOMAIN Stages(c)
         /\ \A n \in DOMAIN Stages(c) : n \in Nat /\ (n # Len(Stages(c)) => n + 1 \in DOMAIN Stages(c))
<1>1. CASE c \in Analyses
  <2>1. Len(Stages(c)) = 3 /\ DOMAIN Stages(c) = 1 .. 3
    BY <1>1 DEF Stages
  <2> QED BY <2>1
<1>2. CASE c \notin Analyses
  <2>1. Len(Stages(c)) = 1 /\ DOMAIN Stages(c) = 1 .. 1
    BY <1>2 DEF Stages
  <2> QED BY <2>1
<1> QED BY <1>1, <1>2

LEMMA CurrentCall ==
  ASSUME CallersOK, NEW c \in Callers
  PROVE  /\ CallId(c) \in CallIds /\ CallId(c) \in ReservationIds
         /\ RequestOf(c) \in StageRequests /\ RequestOf(c) \in Requests
BY StageCalls DEF CallersOK, CallerOK, CallId, RequestOf

(* An entry that the transaction accepts: the engine accepts it too.       *)
LEMMA EnteredInBoth ==
  ASSUME LogOK, NEW e \in Entry, Enter(e)
  PROVE  /\ Accepts(budget, e) /\ budget' = Applied(budget, e)
         /\ events' \in Seq(Entry) /\ operations' = Len(events')
         /\ operations' = operations + 1
         /\ ReplaysTo(events, budget)'
<1>1. Replay(events) = budget
  BY ReplayValue DEF LogOK
<1>2. /\ budget # Rejected /\ Accepts(budget, e) /\ events' = Append(events, e)
      /\ budget' = Applied(budget, e) /\ operations' = operations + 1
  BY <1>1 DEF Enter, CanEnter
<1>3. events \in Seq(Entry) /\ operations = Len(events) /\ ReplaysTo(events, budget)
  BY DEF LogOK
<1>4. ReplaysTo(Append(events, e), Applied(budget, e))
  BY <1>2, <1>3, LongerLogReplays
<1> QED BY <1>2, <1>3, <1>4

LEMMA EnterReservation ==
  ASSUME LogOK, CallersOK, NEW c \in Callers,
         Enter(Reserved(CallId(c), RequestOf(c))), UNCHANGED <<spent, overrun>>
  PROVE  /\ LogOK' /\ BudgetNext
         /\ CallId(c) \notin DOMAIN budget.active \cup budget.settled
         /\ budget'.settled = budget.settled
         /\ budget'.active = [i \in DOMAIN budget.active \cup {CallId(c)} |->
                                IF i = CallId(c) THEN RequestOf(c) ELSE budget.active[i]]
<1> DEFINE id == CallId(c)
           q == RequestOf(c)
           e == Reserved(id, q)
<1>1. /\ id \in CallIds /\ id \in ReservationIds /\ q \in StageRequests /\ q \in Requests
  BY CurrentCall
<1>2. e \in Entry /\ e.type = "reserve" /\ e.id = id /\ e.request = q
  BY <1>1 DEF Entry, Reserved
<1>3. /\ Accepts(budget, e) /\ budget' = Applied(budget, e)
      /\ events' \in Seq(Entry) /\ operations' = Len(events')
      /\ operations' = operations + 1 /\ ReplaysTo(events, budget)'
  BY <1>2, EnteredInBoth
<1>4. Reserve(id, q)
  BY <1>2, <1>3 DEF Reserve, Accepts, Applied
<1>5. BudgetInv'
  BY <1>1, <1>4, ReserveKeeps DEF LogOK
<1>6. /\ budget'.settled = budget.settled
      /\ budget'.active = [i \in DOMAIN budget.active \cup {id} |->
                             IF i = id THEN q ELSE budget.active[i]]
      /\ id \notin DOMAIN budget.active \cup budget.settled
  BY <1>4 DEF Reserve, AfterReserve, CanReserve, LogOK, BudgetInv, BudgetTypeOK, BudgetRecord
<1> QED BY <1>1, <1>3, <1>4, <1>5, <1>6 DEF LogOK, BudgetNext

LEMMA EnterReconciliation ==
  ASSUME LogOK, CallersOK, MoneyOK, NEW c \in Callers, call[c].pc = "reconcile",
         Enter(Reconciled(CallId(c), call[c].used, call[c].known)),
         spent' = Plus(spent, Use(call[c].used)),
         overrun' = (overrun \/ ExceedsReservation(RequestOf(c), call[c].used))
  PROVE  /\ LogOK' /\ BudgetNext
         /\ budget'.settled = budget.settled \cup {CallId(c)}
         /\ budget'.active = [i \in DOMAIN budget.active \ {CallId(c)} |-> budget.active[i]]
<1> DEFINE id == CallId(c)
           u == call[c].used
           known == call[c].known
           e == Reconciled(id, u, known)
<1>1. /\ id \in CallIds /\ id \in ReservationIds /\ u \in Usages /\ known \in BOOLEAN
  BY CurrentCall DEF CallersOK, CallerOK, CallRecord
<1>2. e \in Entry /\ e.type = "reconcile" /\ e.id = id /\ e.usage = u /\ e.known = known
  BY <1>1 DEF Entry, Reconciled
<1>3. /\ Accepts(budget, e) /\ budget' = Applied(budget, e)
      /\ events' \in Seq(Entry) /\ operations' = Len(events')
      /\ operations' = operations + 1 /\ ReplaysTo(events, budget)'
  BY <1>2, EnteredInBoth
<1>4. budget.active[id] = RequestOf(c)
  BY DEF MoneyOK, Paying
<1>5. Reconcile(id, u, known)
  BY <1>2, <1>3, <1>4 DEF Reconcile, Accepts, Applied
<1>6. BudgetInv'
  BY <1>1, <1>5, ReconcileKeeps DEF LogOK
<1>7. /\ budget'.settled = budget.settled \cup {id}
      /\ budget'.active = [i \in DOMAIN budget.active \ {id} |-> budget.active[i]]
  BY <1>5 DEF Reconcile, AfterReconcile, LogOK, BudgetInv, BudgetTypeOK, BudgetRecord
<1> QED BY <1>1, <1>3, <1>5, <1>6, <1>7 DEF LogOK, BudgetNext

-----------------------------------------------------------------------------
(* What a step leaves alone. *)

LEMMA LogUntouched ==
  ASSUME LogOK, UNCHANGED moneyVars
  PROVE  LogOK'
<1>1. BudgetInv'
  BY DEF moneyVars, budgetVars, LogOK, BudgetInv, BudgetTypeOK, BudgetRecord, KnownSpending,
         SpendingIsCovered, AttemptsCountOperations, LogHasRoom
<1> QED BY <1>1 DEF moneyVars, budgetVars, LogOK, ReplaysTo, IsReplay, Accepts, Applied

(* No call starts or stops being paid for.                                 *)
LEMMA MoneyUntouched ==
  ASSUME MoneyOK, UNCHANGED <<moneyVars, forsaken>>,
         \A d \in Callers : /\ Paying(d)' <=> Paying(d)
                            /\ Paying(d) => call'[d].stage = call[d].stage
  PROVE  MoneyOK'
<1>1. budget' = budget /\ forsaken' = forsaken
  BY DEF moneyVars, budgetVars
<1>2. \A d \in Callers : Paying(d) => CallId(d)' = CallId(d) /\ RequestOf(d)' = RequestOf(d)
  BY DEF CallId, RequestOf
<1>3. {CallId(c) : c \in {d \in Callers : Paying(d)}}'
        = {CallId(c) : c \in {d \in Callers : Paying(d)}}
  BY <1>2
<1> QED BY <1>1, <1>2, <1>3 DEF MoneyOK, ReservationsAreCalls

(* The case changes; what an analysis has read is still good unless the    *)
(* revision has moved.                                                     *)
LEMMA CallersOvertaken ==
  ASSUME CallersOK, UNCHANGED call, revision \in Nat, revision' \in Nat,
         \/ revision' > revision
         \/ UNCHANGED <<revision, available, listing, deleted>>
  PROVE  CallersOK'
<1>1. ASSUME NEW c \in Callers
      PROVE  CallerOK(c, call[c])'
  <2>1. CallerOK(c, call[c]) /\ call[c].revision \in Nat
    BY DEF CallersOK, CallerOK, CallRecord
  <2>2. HasRead(call[c]) => HasRead(call[c])'
    <3>1. CASE revision' > revision
      BY <2>1, <3>1 DEF HasRead, CallerOK
    <3>2. CASE UNCHANGED <<revision, available, listing, deleted>>
      BY <3>2 DEF HasRead, ListingPage
    <3> QED BY <3>1, <3>2
  <2> QED BY <2>1, <2>2 DEF CallerOK
<1> QED BY <1>1 DEF CallersOK

LEMMA CaseUntouched ==
  ASSUME CaseOK, UNCHANGED caseVars
  PROVE  CaseOK'
BY DEF caseVars, CaseOK, SnapshotKnowsPublished

(* One call moves.                                                         *)
LEMMA CallMoves ==
  ASSUME CallersOK, UNCHANGED caseVars, NEW c \in Callers, NEW r,
         call' = [call EXCEPT ![c] = r], CallerOK(c, r)
  PROVE  /\ CallersOK'
         /\ call'[c] = r /\ \A d \in Callers : d # c => call'[d] = call[d]
<1>1. call'[c] = r /\ \A d \in Callers : d # c => call'[d] = call[d]
  BY DEF CallersOK
<1>2. \A d, x : CallerOK(d, x) => CallerOK(d, x)'
  BY DEF caseVars, CallerOK, HasRead, ListingPage
<1>3. \A d \in Callers : CallerOK(d, call[d])'
  BY <1>1, <1>2 DEF CallersOK
<1> QED BY <1>1, <1>3 DEF CallersOK

LEMMA EndedOK ==
  ASSUME CallersOK, CaseOK, NEW c \in Callers
  PROVE  CallerOK(c, Ended(c)) /\ Ended(c).pc = "failed"
<1>1. call[c].stage \in Nat /\ call[c].stage \in DOMAIN Stages(c) /\ revision \in Nat
  BY DEF CallersOK, CallerOK, CallRecord, CaseOK
<1>2. Idle \in CallRecord /\ Idle.revision = 0
  BY DEF Idle, CallRecord, PCs
<1>3. /\ Ended(c) \in CallRecord /\ Ended(c).pc = "failed"
      /\ Ended(c).stage = call[c].stage /\ Ended(c).revision = 0
  BY <1>1, <1>2 DEF Ended, CallRecord, PCs
<1>4. HasRead(Ended(c))
  BY <1>3 DEF HasRead
<1> QED BY <1>1, <1>3, <1>4 DEF CallerOK

-----------------------------------------------------------------------------
(* The steps. *)

(* What every step does to the money, seen from the budget.                *)
BudgetStep == BudgetNext \/ UNCHANGED budgetVars

LEMMA OwnerStep ==
  ASSUME AnalysisInv,
         \/ \E a \in Direct : Upload(a)
         \/ \E a \in Processed : Publish(a)
         \/ \E text \in Texts : OfferListing(text)
         \/ ConfirmListing \/ DeleteCase
  PROVE  AnalysisInv' /\ BudgetStep
<1>1. UNCHANGED <<moneyVars, call, forsaken>>
  BY DEF Upload, Publish, OfferListing, ConfirmListing, DeleteCase
<1>2. LogOK'
  BY <1>1, LogUntouched DEF AnalysisInv
<1>3. MoneyOK'
  BY <1>1, MoneyUntouched DEF AnalysisInv, Paying
<1>4. revision \in Nat /\ available \subseteq Artifacts /\ CaseOK
  BY DEF AnalysisInv, CaseOK
<1> DEFINE CaseMoved == /\ CaseOK' /\ revision' \in Nat
                        /\ \/ revision' > revision
                           \/ UNCHANGED <<revision, available, listing, deleted>>
<1>5. CaseMoved
  <2>1. ASSUME NEW a \in Direct, Upload(a) PROVE CaseMoved
    BY <1>4, <2>1, PresentAssumption DEF Upload, CaseOK, SnapshotKnowsPublished, Artifacts
  <2>2. ASSUME NEW a \in Processed, Publish(a) PROVE CaseMoved
    BY <1>4, <2>2 DEF Publish, CaseOK, SnapshotKnowsPublished, Artifacts
  <2>3. ASSUME NEW text \in Texts, OfferListing(text) PROVE CaseMoved
    BY <1>4, <2>3 DEF OfferListing, CaseOK, SnapshotKnowsPublished
  <2>4. CASE ConfirmListing
    BY <1>4, <2>4 DEF ConfirmListing, CaseOK, SnapshotKnowsPublished
  <2>5. CASE DeleteCase
    <3>1. /\ available' = {} /\ deleted' = TRUE /\ revision' = revision + 1
          /\ UNCHANGED <<listing, snapshot, pending>>
      BY <2>5 DEF DeleteCase
    <3>2. SnapshotKnowsPublished'
      BY <3>1 DEF SnapshotKnowsPublished
    <3>3. /\ available' \subseteq Artifacts /\ listing' \in Texts \cup {Null}
          /\ pending' # Null => pending'.text \in Texts
      BY <1>4, <3>1 DEF CaseOK
    <3>4. deleted' \in BOOLEAN
      BY <3>1
    <3>5. revision' \in Nat /\ revision' > revision
      BY <1>4, <3>1
    <3> QED BY <3>2, <3>3, <3>4, <3>5 DEF CaseOK
  <2> QED BY <2>1, <2>2, <2>3, <2>4, <2>5
<1>6. CallersOK'
  BY <1>1, <1>4, <1>5, CallersOvertaken DEF AnalysisInv
<1> QED BY <1>1, <1>2, <1>3, <1>5, <1>6 DEF AnalysisInv, BudgetStep, moneyVars

(* A step of a call that is neither paid for nor becomes so.               *)
LEMMA UnpaidMove ==
  ASSUME AnalysisInv, NEW c \in Callers, NEW r, CallerOK(c, r),
         call' = [call EXCEPT ![c] = r], UNCHANGED <<caseVars, moneyVars, forsaken>>,
         ~Paying(c), r.pc \notin {"send", "reconcile"}
  PROVE  AnalysisInv' /\ BudgetStep
<1>1. /\ CallersOK'
      /\ call'[c] = r /\ \A d \in Callers : d # c => call'[d] = call[d]
  BY CallMoves DEF AnalysisInv
<1>2. MoneyOK'
  BY <1>1, MoneyUntouched DEF AnalysisInv, Paying
<1> QED BY <1>1, <1>2, LogUntouched, CaseUntouched DEF AnalysisInv, BudgetStep, moneyVars

LEMMA LoadStep ==
  ASSUME AnalysisInv, NEW c \in Callers,
         ReadRevision(c) \/ ReadArtifacts(c) \/ ReadListing(c) \/ BuildInputs(c)
  PROVE  AnalysisInv' /\ BudgetStep
<1>1. /\ CallerOK(c, call[c]) /\ call[c] \in CallRecord /\ CaseOK /\ CallersOK
      /\ revision \in Nat
  BY DEF AnalysisInv, CallersOK, CallerOK, CaseOK
<1>2. ~Paying(c) /\ UNCHANGED <<caseVars, moneyVars, forsaken>>
  BY DEF ReadRevision, ReadArtifacts, ReadListing, BuildInputs, Paying
<1> DEFINE Move(r) == /\ CallerOK(c, r) /\ r.pc \notin {"send", "reconcile"}
                      /\ call' = [call EXCEPT ![c] = r]
<1>3. SUFFICES \E r : Move(r)
  BY <1>2, UnpaidMove
<1>4. Move(Ended(c)) \/ call' # [call EXCEPT ![c] = Ended(c)]
  BY <1>1, EndedOK
<1>5. CASE ReadRevision(c)
  <2> DEFINE r == [call[c] EXCEPT !.pc = "load", !.revision = revision]
  <2>1. CASE deleted
    BY <1>4, <1>5, <2>1 DEF ReadRevision, Goes
  <2>2. CASE ~deleted
    <3>1. call' = [call EXCEPT ![c] = r] /\ c \in Analyses /\ call[c].pc = "idle"
      BY <1>5, <2>2 DEF ReadRevision
    <3>2. r.pc = "load" /\ r \in CallRecord
      BY <1>1 DEF CallRecord, PCs
    <3>3. CallerOK(c, r)
      BY <1>1, <3>1, <3>2 DEF CallerOK, HasRead, CallRecord
    <3> QED BY <3>1, <3>2, <3>3
  <2> QED BY <2>1, <2>2
<1>6. CASE ReadArtifacts(c)
  <2> DEFINE r == [call[c] EXCEPT !.rows = available]
  <2>1. CASE deleted
    BY <1>4, <1>6, <2>1 DEF ReadArtifacts, Goes
  <2>2. CASE ~deleted
    <3>1. call' = [call EXCEPT ![c] = r] /\ call[c].pc = "load"
      BY <1>6, <2>2 DEF ReadArtifacts
    <3>2. r.pc = "load" /\ r \in CallRecord
      BY <1>1, <3>1 DEF CallRecord, CaseOK
    <3>3. CallerOK(c, r)
      BY <1>1, <3>1, <3>2 DEF CallerOK, HasRead, CallRecord
    <3> QED BY <3>1, <3>2, <3>3
  <2> QED BY <2>1, <2>2
<1>7. CASE ReadListing(c)
  <2> DEFINE r == [call[c] EXCEPT !.url = IF deleted \/ listing = Null THEN "none" ELSE listing]
  <2>1. call' = [call EXCEPT ![c] = r] /\ call[c].pc = "load"
    BY <1>7 DEF ReadListing
  <2>2. r.pc = "load" /\ r \in CallRecord
    BY <1>1, <2>1 DEF CallRecord, CaseOK
  <2>3. CallerOK(c, r)
    BY <1>1, <2>1, <2>2 DEF CallerOK, HasRead, CallRecord, ListingPage
  <2> QED BY <2>1, <2>2, <2>3
<1>8. CASE BuildInputs(c)
  <2> DEFINE r == [call[c] EXCEPT !.pc = "reserve"]
  <2>1. /\ call[c].pc = "load" /\ call[c].rows # Null /\ call[c].url # Null
        /\ call' = [call EXCEPT ![c] = r] \/ call' = [call EXCEPT ![c] = Ended(c)]
    BY <1>8 DEF BuildInputs, Goes
  <2>2. r.pc = "reserve" /\ r \in CallRecord
    BY <1>1 DEF CallRecord, PCs
  <2>3. CallerOK(c, r)
    BY <1>1, <2>1, <2>2 DEF CallerOK, HasRead, CallRecord
  <2> QED BY <1>4, <2>1, <2>2, <2>3
<1> QED BY <1>5, <1>6, <1>7, <1>8

LEMMA ReserveStep ==
  ASSUME AnalysisInv, NEW c \in Callers, ReserveCall(c)
  PROVE  AnalysisInv' /\ BudgetStep
<1> DEFINE id == CallId(c)
           e == Reserved(id, RequestOf(c))
           r == [call[c] EXCEPT !.pc = "send"]
<1>1. /\ call[c].pc = "reserve" /\ UNCHANGED caseVars /\ UNCHANGED <<spent, overrun>>
      /\ CallerOK(c, call[c]) /\ call[c] \in CallRecord /\ CaseOK /\ CallersOK /\ LogOK /\ MoneyOK
  BY DEF ReserveCall, AnalysisInv, CallersOK, CallerOK
<1>2. \/ Enter(e) /\ call' = [call EXCEPT ![c] = r] /\ UNCHANGED forsaken
      \/ UNCHANGED <<events, budget, operations, forsaken>> /\ call' = [call EXCEPT ![c] = Ended(c)]
      \/ /\ Enter(e) /\ forsaken' = forsaken \cup {id}
         /\ call' = [call EXCEPT ![c] = Ended(c)]
  BY DEF ReserveCall, Goes
<1>3. CallerOK(c, Ended(c)) /\ Ended(c).pc = "failed" /\ CaseOK'
  BY <1>1, EndedOK, CaseUntouched
<1>4. ~Paying(c)
  BY <1>1 DEF Paying
<1>5. CASE UNCHANGED <<events, budget, operations, forsaken>> /\ call' = [call EXCEPT ![c] = Ended(c)]
  BY <1>1, <1>3, <1>4, <1>5, UnpaidMove DEF moneyVars, budgetVars
<1>6. ASSUME Enter(e)
      PROVE  /\ LogOK' /\ BudgetNext
             /\ id \in CallIds /\ id \notin DOMAIN budget.active \cup budget.settled
             /\ budget'.settled = budget.settled
             /\ DOMAIN budget'.active = DOMAIN budget.active \cup {id}
             /\ budget'.active[id] = RequestOf(c)
             /\ \A d \in Callers : d # c /\ Paying(d) =>
                  budget'.active[CallId(d)] = budget.active[CallId(d)]
  <2>1. /\ LogOK' /\ BudgetNext
        /\ id \notin DOMAIN budget.active \cup budget.settled
        /\ budget'.settled = budget.settled
        /\ budget'.active = [i \in DOMAIN budget.active \cup {id} |->
                               IF i = id THEN RequestOf(c) ELSE budget.active[i]]
    BY <1>1, <1>6, EnterReservation
  <2>2. \A d \in Callers : d # c /\ Paying(d) => CallId(d) \in DOMAIN budget.active /\ CallId(d) # id
    BY <1>1 DEF MoneyOK, ReservationsAreCalls, CallId
  <2> QED BY <1>1, <2>1, <2>2, CurrentCall
<1>7. CASE Enter(e) /\ call' = [call EXCEPT ![c] = r] /\ UNCHANGED forsaken
  <2>1. r.pc = "send" /\ r.stage = call[c].stage /\ r \in CallRecord
    BY <1>1 DEF CallRecord, PCs
  <2>2. CallerOK(c, r)
    BY <1>1, <2>1 DEF CallerOK, HasRead, CallRecord
  <2>3. CallersOK' /\ call'[c] = r /\ \A d \in Callers : d # c => call'[d] = call[d]
    BY <1>1, <1>7, <2>2, CallMoves
  <2>4. /\ Paying(c)' /\ \A d \in Callers : d # c => (Paying(d)' <=> Paying(d))
        /\ \A d \in Callers : CallId(d)' = CallId(d) /\ RequestOf(d)' = RequestOf(d)
    BY <2>1, <2>3 DEF Paying, CallId, RequestOf
  <2>5. {CallId(d) : d \in {x \in Callers : Paying(x)}}'
          = {CallId(d) : d \in {x \in Callers : Paying(x)}} \cup {id}
    BY <2>4
  <2>6. MoneyOK'
    BY <1>1, <1>6, <1>7, <2>4, <2>5 DEF MoneyOK, ReservationsAreCalls
  <2> QED BY <1>3, <1>6, <1>7, <2>3, <2>6 DEF AnalysisInv, BudgetStep
<1>8. CASE /\ Enter(e) /\ forsaken' = forsaken \cup {id}
           /\ call' = [call EXCEPT ![c] = Ended(c)]
  <2>1. CallersOK' /\ call'[c] = Ended(c) /\ \A d \in Callers : d # c => call'[d] = call[d]
    BY <1>1, <1>3, <1>8, CallMoves
  <2>2. /\ ~Paying(c)' /\ \A d \in Callers : Paying(d)' <=> Paying(d)
        /\ \A d \in Callers : Paying(d) => CallId(d)' = CallId(d) /\ RequestOf(d)' = RequestOf(d)
    BY <1>3, <1>4, <2>1 DEF Paying, CallId, RequestOf
  <2>3. {CallId(d) : d \in {x \in Callers : Paying(x)}}'
          = {CallId(d) : d \in {x \in Callers : Paying(x)}}
    BY <2>2
  <2>4. MoneyOK'
    BY <1>1, <1>4, <1>6, <1>8, <2>2, <2>3 DEF MoneyOK, ReservationsAreCalls
  <2> QED BY <1>3, <1>6, <1>8, <2>1, <2>4 DEF AnalysisInv, BudgetStep
<1> QED BY <1>2, <1>5, <1>7, <1>8
LEMMA SendStep ==
  ASSUME AnalysisInv, NEW c \in Callers, Send(c)
  PROVE  AnalysisInv' /\ BudgetStep
<1>1. PICK u \in Usages, known \in BOOLEAN :
        call' = [call EXCEPT ![c].pc = "reconcile", ![c].used = u, ![c].known = known]
  BY Zenon DEF Send
<1> DEFINE r == [call[c] EXCEPT !.pc = "reconcile", !.used = u, !.known = known]
<1>2. /\ call' = [call EXCEPT ![c] = r] /\ call[c].pc = "send"
      /\ UNCHANGED <<caseVars, moneyVars, forsaken>>
  BY <1>1 DEF Send
<1>3. CallerOK(c, call[c]) /\ call[c] \in CallRecord
  BY DEF AnalysisInv, CallersOK, CallerOK
<1>4. r \in CallRecord /\ r.pc = "reconcile" /\ r.used = u
  BY <1>3 DEF CallRecord, PCs
<1>5. CallerOK(c, r)
  BY <1>2, <1>3, <1>4 DEF CallerOK, HasRead, CallRecord
<1>6. CallersOK' /\ call'[c] = r /\ \A d \in Callers : d # c => call'[d] = call[d]
  BY <1>2, <1>5, CallMoves DEF AnalysisInv
<1>7. Paying(c) /\ Paying(c)' /\ call'[c].stage = call[c].stage
  BY <1>2, <1>3, <1>4, <1>6 DEF Paying, CallRecord
<1>8. MoneyOK'
  BY <1>2, <1>6, <1>7, MoneyUntouched DEF AnalysisInv, Paying
<1> QED BY <1>2, <1>6, <1>8, LogUntouched, CaseUntouched DEF AnalysisInv, BudgetStep, moneyVars

(* Where a call goes once its usage is entered.                            *)
LEMMA GoesOnOK ==
  ASSUME CallersOK, CaseOK, NEW c \in Callers, call[c].pc = "reconcile",
         GoesOn(c) \/ Goes(c, "failed")
  PROVE  \E r : CallerOK(c, r) /\ r.pc \notin {"send", "reconcile"}
                /\ call' = [call EXCEPT ![c] = r]
<1>1. CallerOK(c, call[c]) /\ call[c] \in CallRecord
  BY DEF CallersOK, CallerOK
<1>2. CASE Goes(c, "failed")
  BY <1>2, EndedOK DEF Goes
<1>3. CASE GoesOn(c)
  <2> DEFINE last == call[c].stage = Len(Stages(c))
             pc == IF ~last THEN "reserve" ELSE IF c \in Analyses THEN "commit" ELSE "done"
             stage == IF last THEN call[c].stage ELSE call[c].stage + 1
             r == [call[c] EXCEPT !.pc = pc, !.stage = stage, !.used = Null]
  <2>1. call' = [call EXCEPT ![c] = r]
    BY <1>3 DEF GoesOn
  <2>2. stage \in DOMAIN Stages(c) /\ stage \in Nat
    BY <1>1, StageNumbers DEF CallerOK
  <2>3. pc \in {"reserve", "commit", "done"} /\ (pc = "commit" => c \in Analyses)
    OBVIOUS
  <2> HIDE DEF last, pc, stage
  <2>4. r \in CallRecord /\ r.pc = pc /\ r.stage = stage
    BY <1>1, <2>2, <2>3 DEF CallRecord, PCs
  <2>5. r.rows = call[c].rows /\ r.url = call[c].url /\ r.revision = call[c].revision
    BY <1>1 DEF CallRecord
  <2> HIDE DEF r
  <2>6. c \in Analyses => HasRead(r)
    BY <1>1, <2>3, <2>4, <2>5 DEF CallerOK, HasRead
  <2>7. CallerOK(c, r)
    BY <1>1, <2>2, <2>3, <2>4, <2>5, <2>6 DEF CallerOK
  <2> QED BY <2>1, <2>3, <2>4, <2>7
<1> QED BY <1>2, <1>3

LEMMA ReconcileStep ==
  ASSUME AnalysisInv, NEW c \in Callers, ReconcileCall(c)
  PROVE  AnalysisInv' /\ BudgetStep
<1> DEFINE id == CallId(c)
           e == Reconciled(id, call[c].used, call[c].known)
<1>1. /\ call[c].pc = "reconcile" /\ UNCHANGED caseVars
      /\ CaseOK /\ CallersOK /\ LogOK /\ MoneyOK
  BY DEF ReconcileCall, AnalysisInv
<1>2. \/ /\ Enter(e) /\ UNCHANGED forsaken
         /\ spent' = Plus(spent, Use(call[c].used))
         /\ overrun' = (overrun \/ ExceedsReservation(RequestOf(c), call[c].used))
         /\ GoesOn(c) \/ Goes(c, "failed")
      \/ /\ forsaken' = forsaken \cup {id} /\ UNCHANGED moneyVars
         /\ Goes(c, "failed")
  BY DEF ReconcileCall
<1>3. PICK r : CallerOK(c, r) /\ r.pc \notin {"send", "reconcile"}
               /\ call' = [call EXCEPT ![c] = r]
  BY <1>1, <1>2, GoesOnOK
<1>4. /\ CallersOK' /\ CaseOK'
      /\ call'[c] = r /\ \A d \in Callers : d # c => call'[d] = call[d]
  BY <1>1, <1>3, CallMoves, CaseUntouched
<1>5. /\ Paying(c) /\ ~Paying(c)' /\ \A d \in Callers : d # c => (Paying(d)' <=> Paying(d))
      /\ \A d \in Callers : d # c => CallId(d)' = CallId(d) /\ RequestOf(d)' = RequestOf(d)
      /\ \A d \in Callers : d # c => CallId(d) # id
  BY <1>1, <1>3, <1>4 DEF Paying, CallId, RequestOf
<1>6. {CallId(d) : d \in {x \in Callers : Paying(x)}}'
        = {CallId(d) : d \in {x \in Callers : Paying(x)}} \ {id}
  BY <1>5
<1>7. /\ id \in CallIds /\ id \in DOMAIN budget.active
      /\ budget.settled \cap DOMAIN budget.active = {}
  BY <1>1, <1>5, CurrentCall
     DEF MoneyOK, ReservationsAreCalls, LogOK, BudgetInv, BudgetTypeOK, BudgetRecord
<1>8. CASE /\ Enter(e) /\ UNCHANGED forsaken
           /\ spent' = Plus(spent, Use(call[c].used))
           /\ overrun' = (overrun \/ ExceedsReservation(RequestOf(c), call[c].used))
  <2>1. /\ LogOK' /\ BudgetNext
        /\ budget'.settled = budget.settled \cup {id}
        /\ budget'.active = [i \in DOMAIN budget.active \ {id} |-> budget.active[i]]
    BY <1>1, <1>8, EnterReconciliation
  <2>2. DOMAIN budget'.active = DOMAIN budget.active \ {id}
    BY <2>1
  <2>3. \A d \in Callers : d # c /\ Paying(d) =>
          budget'.active[CallId(d)] = budget.active[CallId(d)]
    BY <1>1, <1>5, <2>1 DEF MoneyOK, ReservationsAreCalls
  <2>4. MoneyOK'
    BY <1>1, <1>5, <1>6, <1>8, <2>1, <2>2, <2>3 DEF MoneyOK, ReservationsAreCalls
  <2> QED BY <1>4, <2>1, <2>4 DEF AnalysisInv, BudgetStep
<1>9. CASE forsaken' = forsaken \cup {id} /\ UNCHANGED moneyVars
  <2>1. budget' = budget
    BY <1>9 DEF moneyVars, budgetVars
  <2>2. MoneyOK'
    BY <1>1, <1>5, <1>6, <1>7, <1>9, <2>1 DEF MoneyOK, ReservationsAreCalls
  <2> QED BY <1>1, <1>4, <1>9, <2>2, LogUntouched DEF AnalysisInv, BudgetStep, moneyVars
<1> QED BY <1>2, <1>8, <1>9

LEMMA CommitStep ==
  ASSUME AnalysisInv, NEW c \in Callers, CommitAnalysis(c)
  PROVE  AnalysisInv' /\ BudgetStep
<1>1. /\ call[c].pc = "commit" /\ UNCHANGED <<available, listing, deleted, pending>>
      /\ UNCHANGED <<moneyVars, forsaken>> /\ c \in Analyses /\ ~Paying(c)
      /\ CallerOK(c, call[c]) /\ call[c] \in CallRecord /\ CaseOK /\ CallersOK
  BY DEF CommitAnalysis, AnalysisInv, CallersOK, CallerOK, Paying
<1>2. CASE ~(~deleted /\ call[c].revision = revision)
  <2>1. UNCHANGED caseVars /\ call' = [call EXCEPT ![c] = Ended(c)]
    BY <1>1, <1>2 DEF CommitAnalysis, caseVars, Goes
  <2> QED BY <1>1, <2>1, EndedOK, UnpaidMove
<1>3. CASE ~deleted /\ call[c].revision = revision
  <2> DEFINE r == [call[c] EXCEPT !.pc = "done"]
  <2>1. /\ snapshot' = [rows |-> call[c].rows, url |-> call[c].url]
        /\ revision' = revision + 1
        /\ call' = [call EXCEPT ![c] = r]
    BY <1>3 DEF CommitAnalysis, Goes
  <2>2. call[c].rows = available
    BY <1>1, <1>3 DEF CallerOK, HasRead
  <2>3. CaseOK'
    <3>1. SnapshotKnowsPublished'
      BY <1>1, <2>1, <2>2 DEF SnapshotKnowsPublished
    <3> QED BY <1>1, <2>1, <3>1 DEF CaseOK
  <2>4. CallersOK'
    <3>1. r.pc = "done" /\ r \in CallRecord
      BY <1>1 DEF CallRecord, PCs
    <3>2. CallerOK(c, r)
      BY <1>1, <3>1 DEF CallerOK, HasRead, CallRecord
    <3>3. \A d \in Callers : CallerOK(d, call'[d])
      BY <1>1, <2>1, <3>2 DEF CallersOK
    <3>4. \A d, x : CallerOK(d, x) => CallerOK(d, x)'
      <4>1. ASSUME NEW d, NEW x, CallerOK(d, x) PROVE CallerOK(d, x)'
        <5>1. x.revision # revision' /\ x.revision <= revision'
          BY <1>1, <2>1, <4>1 DEF CallerOK, CallRecord, CaseOK
        <5> QED BY <4>1, <5>1 DEF CallerOK, HasRead
      <4> QED BY <4>1
    <3> QED BY <1>1, <2>1, <3>3, <3>4 DEF CallersOK
  <2>5. \A d \in Callers : /\ Paying(d)' <=> Paying(d)
                           /\ Paying(d) => call'[d].stage = call[d].stage
    BY <1>1, <2>1 DEF Paying, CallersOK, CallRecord
  <2>6. MoneyOK'
    BY <1>1, <2>5, MoneyUntouched DEF AnalysisInv
  <2> QED BY <1>1, <2>3, <2>4, <2>6, LogUntouched DEF AnalysisInv, BudgetStep, moneyVars
<1> QED BY <1>2, <1>3

LEMMA CrashStep ==
  ASSUME AnalysisInv, Crash
  PROVE  AnalysisInv' /\ BudgetStep
<1>1. /\ call' = [c \in Callers |-> Ended(c)]
      /\ forsaken' = forsaken \cup {CallId(c) : c \in {d \in Callers : Paying(d)}}
      /\ pending' = Null
      /\ UNCHANGED <<available, listing, revision, snapshot, deleted, moneyVars>>
      /\ CaseOK /\ CallersOK /\ LogOK /\ MoneyOK
  BY DEF Crash, AnalysisInv
<1>2. CaseOK'
  BY <1>1 DEF CaseOK, SnapshotKnowsPublished
<1>3. CallersOK'
  <2>1. \A d, x : CallerOK(d, x) => CallerOK(d, x)'
    BY <1>1 DEF CallerOK, HasRead, ListingPage
  <2> QED BY <1>1, <2>1, EndedOK DEF CallersOK
<1>4. MoneyOK'
  <2>1. \A c \in Callers : ~Paying(c)'
    BY <1>1, EndedOK DEF Paying
  <2>2. {CallId(c) : c \in {d \in Callers : Paying(d)}}' = {}
    BY <2>1
  <2>3. budget' = budget /\ budget.settled \cap DOMAIN budget.active = {}
    BY <1>1 DEF moneyVars, budgetVars, LogOK, BudgetInv, BudgetTypeOK, BudgetRecord
  <2>4. \A c \in Callers : CallId(c) \in CallIds
    BY <1>1, CurrentCall
  <2> QED BY <1>1, <2>1, <2>2, <2>3, <2>4 DEF MoneyOK, ReservationsAreCalls
<1> QED BY <1>1, <1>2, <1>3, <1>4, LogUntouched DEF AnalysisInv, BudgetStep, moneyVars
-----------------------------------------------------------------------------
(* The theorems. *)

LEMMA AnalysisInit ==
  ASSUME Init
  PROVE  AnalysisInv /\ BudgetInit
<1>1. BudgetInit /\ BudgetInv
  BY BudgetStart DEF Init
<1>2. CaseOK
  <2>1. Cardinality(Present) \in Nat
    BY PresentAssumption, FS_CardinalityType
  <2> QED BY <2>1, PresentAssumption DEF Init, CaseOK, SnapshotKnowsPublished, Artifacts
<1>3. CallersOK
  <2>1. revision \in Nat
    BY <1>2 DEF CaseOK
  <2>2. Idle \in CallRecord /\ Ready \in CallRecord
    BY DEF Idle, Ready, CallRecord, PCs
  <2>3. /\ Idle.pc = "idle" /\ Idle.stage = 1 /\ Idle.revision = 0
        /\ Idle.rows = Null /\ Idle.url = Null
        /\ Ready.pc = "reserve" /\ Ready.stage = 1 /\ Ready.revision = 0
    BY DEF Idle, Ready
  <2>4. ASSUME NEW c \in Callers
        PROVE  CallerOK(c, call[c])
    <3>1. CASE c \in Analyses
      <4>1. call[c] = Idle
        BY <3>1 DEF Init
      <4> QED BY <2>1, <2>2, <2>3, <4>1, StageNumbers DEF CallerOK, HasRead
    <3>2. CASE c \notin Analyses
      <4>1. call[c] = Ready
        BY <3>2 DEF Init
      <4> QED BY <2>1, <2>2, <2>3, <3>2, <4>1, StageNumbers DEF CallerOK
    <3> QED BY <3>1, <3>2
  <2> QED BY <2>4 DEF Init, CallersOK
<1>4. LogOK
  <2>1. events = <<>> /\ budget = EmptyBudget /\ operations = 0
    BY DEF Init, BudgetInit
  <2> QED BY <1>1, <2>1, EmptyLogReplays DEF LogOK
<1>5. MoneyOK
  <2>1. \A c \in Callers : ~Paying(c)
    BY DEF Init, Paying, Idle, Ready
  <2>2. forsaken = {} /\ DOMAIN budget.active = {}
    BY DEF Init, BudgetInit, EmptyBudget
  <2> QED BY <2>1, <2>2 DEF MoneyOK, ReservationsAreCalls
<1> QED BY <1>1, <1>2, <1>3, <1>4, <1>5 DEF AnalysisInv

LEMMA AnalysisStep ==
  ASSUME AnalysisInv, [Next]_vars
  PROVE  AnalysisInv' /\ [BudgetNext]_budgetVars
<1>1. ASSUME NEW c \in Callers, Step(c)
      PROVE  AnalysisInv' /\ BudgetStep
  BY <1>1, LoadStep, ReserveStep, SendStep, ReconcileStep, CommitStep DEF Step
<1>2. CASE UNCHANGED vars
  <2>1. UNCHANGED <<caseVars, moneyVars, forsaken, call>>
    BY <1>2 DEF vars
  <2>2. CaseOK' /\ LogOK'
    BY <2>1, CaseUntouched, LogUntouched DEF AnalysisInv
  <2>3. CallersOK'
    BY <2>1, CallersOvertaken DEF caseVars, AnalysisInv, CaseOK
  <2>4. MoneyOK'
    BY <2>1, MoneyUntouched DEF AnalysisInv, Paying
  <2> QED BY <2>1, <2>2, <2>3, <2>4 DEF AnalysisInv, BudgetStep, moneyVars
<1> QED BY <1>1, <1>2, OwnerStep, CrashStep DEF Next, BudgetStep

(* Uploads, imports, deletions and crashes at any moment leave the calls,  *)
(* the log and the budget consistent with each other and with the case.    *)
THEOREM AnalysisInvariant == Spec => []AnalysisInv
BY AnalysisInit, AnalysisStep, PTL DEF Spec

(* Every value of a variable is one the code can store.                    *)
THEOREM AnalysisTypes == Spec => []TypeOK
<1>1. AnalysisInv => TypeOK
  <2> SUFFICES ASSUME AnalysisInv PROVE TypeOK
    OBVIOUS
  <2>1. \A i \in DOMAIN events : events[i] \in Entry
    BY DEF AnalysisInv, LogOK
  <2>2. \A c \in Callers : call[c].stage \in DOMAIN Stages(c)
    BY DEF AnalysisInv, CallersOK, CallerOK
  <2> QED BY <2>1, <2>2 DEF AnalysisInv, CaseOK, LogOK, MoneyOK, TypeOK, Entry
<1> QED BY <1>1, AnalysisInvariant, PTL

(* The log of every behaviour can be replayed, to the very budget an       *)
(* engine would hold that lived as long as the case.                       *)
THEOREM LogCanBeReplayed == Spec => []LogReplays
<1>1. AnalysisInv => LogReplays
  BY ReplayValue DEF AnalysisInv, LogOK, LogReplays
<1> QED BY <1>1, AnalysisInvariant, PTL

(* Appending to the log under the lock implements the budget.              *)
THEOREM LogImplementsBudget == Spec => BudgetSpec
<1>1. AnalysisInv /\ [Next]_vars => [BudgetNext]_budgetVars
  BY AnalysisStep
<1>2. Init => BudgetInit
  BY AnalysisInit
<1> QED BY <1>1, <1>2, AnalysisInvariant, PTL DEF Spec, BudgetSpec

(* So what the budget guarantees, the log guarantees.                      *)
THEOREM CaseSpendingCovered == Spec => []SpendingIsCovered
BY LogImplementsBudget, SpendingCovered, PTL

THEOREM CaseLogHasRoom == Spec => []LogHasRoom
BY LogImplementsBudget, LogKeepsRoom, PTL

(* No way out of a call but a crash or a database error leaks its          *)
(* reservation, and none is given back while its call is under way.        *)
THEOREM NoReservationLeaks == Spec => []ReservationsAreCalls
<1>1. AnalysisInv => ReservationsAreCalls
  BY DEF AnalysisInv, MoneyOK
<1> QED BY <1>1, AnalysisInvariant, PTL

(* An upload that a worker publishes withdraws the snapshot.               *)
THEOREM SnapshotsKnowPublished == Spec => []SnapshotKnowsPublished
<1>1. AnalysisInv => SnapshotKnowsPublished
  BY DEF AnalysisInv, CaseOK
<1> QED BY <1>1, AnalysisInvariant, PTL

(* The revision read first guards all that is read after it: a snapshot is *)
(* only ever committed to the case it was computed from.                   *)
THEOREM SnapshotsAreOfTheirCase == Spec => SnapshotIsOfItsCase
<1>1. ASSUME AnalysisInv, Next, snapshot' # snapshot, snapshot' # Null
      PROVE  ~deleted /\ snapshot'.rows = available /\ snapshot'.url = ListingPage
  <2>1. PICK c \in Callers : CommitAnalysis(c)
    BY <1>1, Zenon DEF Next, Step, Upload, Publish, OfferListing, ConfirmListing, DeleteCase, Crash,
       ReadRevision, ReadArtifacts, ReadListing, BuildInputs, ReserveCall, Send,
       ReconcileCall, caseVars
  <2>2. /\ ~deleted /\ call[c].revision = revision /\ call[c].pc = "commit"
        /\ snapshot' = [rows |-> call[c].rows, url |-> call[c].url]
    BY <1>1, <2>1 DEF CommitAnalysis
  <2>3. CallerOK(c, call[c]) /\ c \in Analyses
    BY <1>1, <2>2 DEF AnalysisInv, CallersOK, CallerOK
  <2> QED BY <2>2, <2>3 DEF CallerOK, HasRead
<1>2. AnalysisInv /\ [Next]_vars =>
        [snapshot' # snapshot /\ snapshot' # Null =>
           /\ ~deleted
           /\ snapshot'.rows = available
           /\ snapshot'.url = IF listing = Null THEN "none" ELSE listing]_vars
  BY <1>1 DEF ListingPage
<1> QED BY <1>2, AnalysisInvariant, PTL DEF Spec, SnapshotIsOfItsCase
PaidCallsCanBeEntered ==
  \A c \in Callers : call[c].pc = "reconcile" /\ ValidUsage(call[c].used) =>
    CanEnter(Reconciled(CallId(c), call[c].used, call[c].known))

(* What a call has used is never refused once it was paid for: the log can *)
(* be replayed, knows the reservation, and is not full.                    *)
THEOREM PaidCallIsEntered == Spec => []PaidCallsCanBeEntered
<1>1. ASSUME AnalysisInv, NEW c \in Callers, call[c].pc = "reconcile", ValidUsage(call[c].used)
      PROVE  CanEnter(Reconciled(CallId(c), call[c].used, call[c].known))
  <2> DEFINE active == DOMAIN budget.active
  <2>1. /\ budget \in BudgetRecord /\ IsFiniteSet(active) /\ LogHasRoom
        /\ operations = Len(events) /\ Replay(events) = budget
        /\ events \in Seq(Entry)
    BY <1>1, ReplayValue DEF AnalysisInv, LogOK, BudgetInv, BudgetTypeOK
  <2>2. CallId(c) \in active
    BY <1>1 DEF AnalysisInv, MoneyOK, ReservationsAreCalls, Paying
  <2>3. Cardinality(active) \in Nat /\ Cardinality(active) # 0
    BY <2>1, <2>2, FS_CardinalityType, FS_EmptySet
  <2>4. operations + Cardinality(active) <= 2 * Limits.attempts
    BY <2>1 DEF LogHasRoom
  <2>5. Limits.attempts \in Int /\ MaxEvents >= 2 * Limits.attempts
    BY LimitsAssumption, LogAssumption DEF Totals
  <2> HIDE DEF active
  <2>6. Len(events) < MaxEvents
    BY <2>1, <2>3, <2>4, <2>5, LogAssumption
  <2>7. Accepts(budget, Reconciled(CallId(c), call[c].used, call[c].known))
    BY <1>1, <2>2 DEF Accepts, Reconciled, CanReconcile, active
  <2> QED BY <2>1, <2>6, <2>7, NullAssumption DEF CanEnter, Rejected
<1>2. AnalysisInv => PaidCallsCanBeEntered
  BY <1>1 DEF PaidCallsCanBeEntered
<1> QED BY <1>2, AnalysisInvariant, PTL
=============================================================================
