-------------------------- MODULE EvidenceBudgetOps --------------------------
(***************************************************************************)
(* The budget of paid model calls of one case: the methods of              *)
(* InMemoryEvidenceBudgetRepository as operators on its totals.            *)
(*                                                                         *)
(* Tokens are counted in thousands, costs in units of 200 000 nano-USD, in *)
(* which the rates of constants.ts are the whole numbers of Cost.          *)
(***************************************************************************)
EXTENDS Integers, FiniteSets

CONSTANTS
  ReservationIds,  \* random identifiers of reservations
  Requests,        \* what callers reserve: [attempts, input, output]
  Usages,          \* what a call may use: [attempts, input, cached, output]
  Limits,          \* EVIDENCE_BUDGET_LIMITS as totals; its cost is the alert
  Concurrency      \* reservations of one case at a time

Totals == [attempts : Int, input : Int, output : Int, cost : Int]
Zero == [attempts |-> 0, input |-> 0, output |-> 0, cost |-> 0]
Plus(t, u) == [attempts |-> t.attempts + u.attempts, input |-> t.input + u.input,
               output |-> t.output + u.output, cost |-> t.cost + u.cost]
Minus(t, u) == [attempts |-> t.attempts - u.attempts, input |-> t.input - u.input,
                output |-> t.output - u.output, cost |-> t.cost - u.cost]
AtMost(t, u) == /\ t.attempts <= u.attempts /\ t.input <= u.input
                /\ t.output <= u.output /\ t.cost <= u.cost

Request == [attempts : Nat \ {0}, input : Nat, output : Nat]
Usage == [attempts : Nat, input : Nat, cached : Nat, output : Nat]

ASSUME LimitsAssumption ==
  Limits \in Totals /\ AtMost(Zero, Limits) /\ Concurrency \in Nat
ASSUME CallsAssumption == Requests \subseteq Request /\ Usages \subseteq Usage
ASSUME OneAttemptAssumption == \A q \in Requests : q.attempts = 1

-----------------------------------------------------------------------------
Cost(input, cached, output) == 10 * (input - cached) + cached + 60 * output

(* The most that a request may use, and what a usage amounts to.           *)
Ask(q) == [attempts |-> q.attempts, input |-> q.input, output |-> q.output,
           cost |-> Cost(q.input, 0, q.output)]
Use(u) == [attempts |-> u.attempts, input |-> u.input, output |-> u.output,
           cost |-> Cost(u.input, u.cached, u.output)]

(* What is entered for a call: of an unknown usage the attempts alone.     *)
Entered(u, known) ==
  IF known THEN Use(u)
           ELSE [attempts |-> u.attempts, input |-> 0, output |-> 0, cost |-> 0]

ExceedsReservation(q, u) ==
  u.attempts > q.attempts \/ u.input > q.input \/ u.output > q.output

ValidUsage(u) == u.attempts >= 1 /\ u.cached <= u.input

EmptyBudget ==
  [reserved |-> Zero, actual |-> Zero, unknownUsage |-> FALSE,
   active |-> [id \in {} |-> {}], settled |-> {}]

Committed(b) == Plus(b.actual, b.reserved)

\* FAULT: attempts are not limited.
FitsTokens(b, q) ==
  AtMost([Plus(Committed(b), Ask(q)) EXCEPT !.attempts = 0], Limits)

FitsLimits(b, q) == AtMost(Plus(Committed(b), Ask(q)), Limits)

\* FAULT: an unknown usage counts as none.
CanReserveAnyway(b, id, q) ==
  /\ id \notin DOMAIN b.active \cup b.settled
  /\ b.actual.cost < Limits.cost
  /\ Cardinality(DOMAIN b.active) < Concurrency
  /\ FitsLimits(b, q)

CanReserve(b, id, q) ==
  /\ id \notin DOMAIN b.active \cup b.settled
  /\ ~b.unknownUsage
  /\ b.actual.cost < Limits.cost
  /\ Cardinality(DOMAIN b.active) < Concurrency
  /\ FitsLimits(b, q)

AfterReserve(b, id, q) ==
  [b EXCEPT !.reserved = Plus(@, Ask(q)),
            !.active = [i \in DOMAIN @ \cup {id} |-> IF i = id THEN q ELSE @[i]]]

CanReconcile(b, id, u) == id \in DOMAIN b.active /\ ValidUsage(u)

AfterReconcile(b, id, u, known) ==
  [b EXCEPT !.reserved = Minus(@, Ask(b.active[id])),
            !.actual = Plus(@, Entered(u, known)),
            !.unknownUsage = @ \/ ~known,
            !.active = [i \in DOMAIN @ \ {id} |-> @[i]],
            !.settled = @ \cup {id}]
=============================================================================
