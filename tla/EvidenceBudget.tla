---------------------------- MODULE EvidenceBudget ----------------------------
(***************************************************************************)
(* What the budget promises its callers: a call reserves the most it may   *)
(* use, is sent, and is reconciled with what it did use, as far as the     *)
(* provider said so.  The log that PostgreSQL stores implements it         *)
(* (CaseAnalysis).                                                         *)
(***************************************************************************)
EXTENDS EvidenceBudgetOps

VARIABLES
  budget,      \* reserved and actual totals, unknownUsage, active, settled
  spent,       \* history: what the reconciled calls really used
  overrun,     \* history: some call used more than it had reserved
  operations   \* reservations and reconciliations accepted so far

budgetVars == <<budget, spent, overrun, operations>>

-----------------------------------------------------------------------------
BudgetInit ==
  /\ budget = EmptyBudget
  /\ spent = Zero
  /\ overrun = FALSE
  /\ operations = 0

Reserve(id, q) ==
  /\ CanReserve(budget, id, q)
  /\ budget' = AfterReserve(budget, id, q)
  /\ operations' = operations + 1
  /\ UNCHANGED <<spent, overrun>>

(* The call of reservation id used u; known says whether it was reported.  *)
Reconcile(id, u, known) ==
  /\ CanReconcile(budget, id, u)
  /\ budget' = AfterReconcile(budget, id, u, known)
  /\ spent' = Plus(spent, Use(u))
  /\ overrun' = (overrun \/ ExceedsReservation(budget.active[id], u))
  /\ operations' = operations + 1

BudgetNext ==
  \E id \in ReservationIds :
    \/ \E q \in Requests : Reserve(id, q)
    \/ \E u \in Usages, known \in BOOLEAN : Reconcile(id, u, known)

(* Reservations and reconciliations in the order of the lock: what the     *)
(* stored log has to implement, replayed by every operation.               *)
BudgetSpec == BudgetInit /\ [][BudgetNext]_budgetVars

-----------------------------------------------------------------------------
Reservations == UNION {[ids -> Requests] : ids \in SUBSET ReservationIds}

BudgetRecord == [reserved : Totals, actual : Totals, unknownUsage : BOOLEAN,
                 active : Reservations, settled : SUBSET ReservationIds]

BudgetTypeOK ==
  /\ budget \in BudgetRecord
  /\ budget.settled \cap DOMAIN budget.active = {}
  /\ spent \in Totals
  /\ overrun \in BOOLEAN
  /\ operations \in Nat

(* Unless a provider uses more than was reserved for a call, what the calls *)
(* of a case really used, reported or not, and what running calls may still *)
(* use stays within every limit: unknown usage and calls whose answer was   *)
(* lost included (the unknownUsage check of reserve; no reset of a          *)
(* reservation that nobody reconciles).                                     *)
SpendingIsCovered ==
  ~overrun => AtMost(Plus(spent, budget.reserved), Limits)

(* A call is never paid for and then refused by the log, which               *)
(* EvidenceBudgetRepository bounds: each reservation takes one of the        *)
(* attempts for good, so the log ends before its bound.                      *)
LogHasRoom ==
  operations + Cardinality(DOMAIN budget.active) <= 2 * Limits.attempts
=============================================================================
