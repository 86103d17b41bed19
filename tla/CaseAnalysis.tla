----------------------------- MODULE CaseAnalysis -----------------------------
(***************************************************************************)
(* Paid calls on one case: analyses (analyzeRealCase), which read the case *)
(* and its revision, make three calls and commit a snapshot against that   *)
(* revision, and the OCR of scanned contracts (BudgetedScannedPdfOcr).     *)
(* Meanwhile the owner uploads, imports a listing URL or deletes the case. *)
(* The budget is the log of PostgresEvidenceBudgetRepository: each         *)
(* operation locks the row, replays the log and appends to it.  What       *)
(* EvidenceBudget calls budget is here an engine that lives as long as the *)
(* case and takes what the log takes: nothing reads it.                    *)
(***************************************************************************)
EXTENDS EvidenceBudget, Sequences

CONSTANTS
  Analyses,     \* requests to analyse the case
  Readers,      \* OCR calls for it
  Direct,       \* uploads that finalizeArtifact makes available
  Processed,    \* uploads that commitAvailable publishes
  Present,      \* the uploads there at the start
  Kind,         \* of an upload: "listing", "viewing" or "contract"
  Texts,        \* contents of a listing page
  Null,
  MaxEvents,    \* bound of the code on the log
  MaxRevision,  \* bound of the model on imports
  MaxMishaps    \* bound of the model on errors and crashes

ASSUME PresentAssumption ==
  /\ Present \subseteq Direct \cup Processed /\ IsFiniteSet(Present)
  /\ Direct \cap Processed = {}
ASSUME LogAssumption == MaxEvents \in Nat /\ 2 * Limits.attempts <= MaxEvents
ASSUME NullAssumption == Null \notin BudgetRecord

Callers == Analyses \cup Readers
Artifacts == Direct \cup Processed

VARIABLES
  events,     \* the log of the budget
  available,  \* uploads of the case that are available
  listing,    \* text of the imported listing URL
  revision, snapshot, deleted,   \* of the case
  pending,    \* a listing page that waits for the owner's confirmation
  call,       \* what each caller does
  forsaken,   \* history: reservations whose caller lost track of them
  mishaps     \* database errors and crashes so far

caseVars == <<available, listing, revision, snapshot, deleted, pending>>
moneyVars == <<events, budgetVars>>
vars == <<caseVars, moneyVars, call, forsaken, mishaps>>

-----------------------------------------------------------------------------
(* What each call of a caller reserves, in the order of the calls.         *)
Stages(c) ==
  IF c \in Analyses
  THEN << [attempts |-> 1, input |-> 20, output |-> 12],
          [attempts |-> 1, input |-> 200, output |-> 12],
          [attempts |-> 1, input |-> 200, output |-> 12] >>
  ELSE << [attempts |-> 1, input |-> 200, output |-> 24] >>

CallIds == UNION {{<<c, n>> : n \in DOMAIN Stages(c)} : c \in Callers}
StageRequests == UNION {{Stages(c)[n] : n \in DOMAIN Stages(c)} : c \in Callers}

(* The budget of the case serves these calls.                              *)
ASSUME CallersAssumption ==
  CallIds \subseteq ReservationIds /\ StageRequests \subseteq Requests

-----------------------------------------------------------------------------
(* The log. *)

Reserved(id, q) == [type |-> "reserve", id |-> id, request |-> q]
Reconciled(id, u, known) ==
  [type |-> "reconcile", id |-> id, usage |-> u, known |-> known]

Rejected == Null   \* EVIDENCE_BUDGET_STATE_INVALID

Accepts(b, e) == IF e.type = "reserve" THEN CanReserve(b, e.id, e.request)
                                       ELSE CanReconcile(b, e.id, e.usage)

Applied(b, e) == IF e.type = "reserve" THEN AfterReserve(b, e.id, e.request)
                                       ELSE AfterReconcile(b, e.id, e.usage, e.known)

\* FAULT: a restart forgets the reservations that are still open.
ReplaySettledOnly(log) ==
  LET closed == {log[i].id : i \in {k \in DOMAIN log : log[k].type = "reconcile"}}
      kept == SelectSeq(log, LAMBDA e : e.id \in closed)
      after[n \in 0 .. Len(kept)] ==
        IF n = 0 THEN EmptyBudget ELSE Applied(after[n - 1], kept[n])
  IN  after[Len(kept)]

Replay(log) ==
  LET after[n \in 0 .. Len(log)] ==
        IF n = 0 THEN EmptyBudget
        ELSE LET b == after[n - 1]
             IN  IF b # Rejected /\ Accepts(b, log[n]) THEN Applied(b, log[n])
                                                       ELSE Rejected
  IN  after[Len(log)]

\* FAULT: what the engine refuses is entered as well.
EnterAnything(e) == Len(events) < MaxEvents /\ Replay(events) # Rejected

(* The transaction that enters e: it is refused when the log cannot be     *)
(* replayed, when the engine refuses it, or when the log is full.          *)
CanEnter(e) ==
  /\ Len(events) < MaxEvents
  /\ LET b == Replay(events) IN b # Rejected /\ Accepts(b, e)

Enter(e) ==
  /\ CanEnter(e)
  /\ events' = Append(events, e)
  /\ budget' = Applied(budget, e)
  /\ operations' = operations + 1

-----------------------------------------------------------------------------
Idle == [pc |-> "idle", stage |-> 1, revision |-> 0, rows |-> Null,
         url |-> Null, used |-> Null, known |-> FALSE]

Ready == [Idle EXCEPT !.pc = "reserve"]

Init ==
  /\ events = <<>>
  /\ BudgetInit
  /\ available = Present
  /\ listing = Null
  /\ revision = Cardinality(Present)
  /\ snapshot = Null
  /\ deleted = FALSE
  /\ pending = Null
  /\ call = [c \in Callers |-> IF c \in Analyses THEN Idle ELSE Ready]
  /\ forsaken = {}
  /\ mishaps = 0

-----------------------------------------------------------------------------
(* The owner and the workers change the case. *)

(* finalizeArtifact leaves the snapshot and the status of the case alone.  *)
Upload(a) ==
  /\ ~deleted /\ a \notin available
  /\ available' = available \cup {a}
  /\ revision' = revision + 1
  /\ UNCHANGED <<listing, snapshot, deleted, pending, moneyVars, call, forsaken,
                 mishaps>>

\* FAULT: the snapshot stays, as in finalizeArtifact.
PublishBesideSnapshot(a) ==
  /\ ~deleted /\ a \notin available
  /\ available' = available \cup {a}
  /\ revision' = revision + 1
  /\ UNCHANGED <<listing, snapshot, deleted, pending, moneyVars, call, forsaken,
                 mishaps>>

Publish(a) ==
  /\ ~deleted /\ a \notin available
  /\ available' = available \cup {a}
  /\ revision' = revision + 1
  /\ snapshot' = Null
  /\ UNCHANGED <<listing, deleted, pending, moneyVars, call, forsaken, mishaps>>

(* The revision is read before the page is fetched.  Whatever changes in   *)
(* the meantime makes the offer stale, as it does later on; a stale offer  *)
(* goes, unless only the transaction that would import it notices.         *)
OfferListing(text) ==
  /\ ~deleted /\ revision < MaxRevision
  /\ pending' = [text |-> text, revision |-> revision]
  /\ UNCHANGED <<available, listing, revision, snapshot, deleted, moneyVars, call,
                 forsaken, mishaps>>

ConfirmListing ==
  /\ pending # Null /\ ~deleted
  /\ IF pending.revision = revision
     THEN listing' = pending.text /\ revision' = revision + 1 /\ pending' = Null
     ELSE UNCHANGED <<listing, revision>> /\ pending' \in {pending, Null}
  /\ UNCHANGED <<available, snapshot, deleted, moneyVars, call, forsaken, mishaps>>

DeleteCase ==
  /\ ~deleted
  /\ deleted' = TRUE
  /\ available' = {}
  /\ revision' = revision + 1
  /\ UNCHANGED <<listing, snapshot, pending, moneyVars, call, forsaken,
                 mishaps>>

-----------------------------------------------------------------------------
(* An analysis reads the case: its revision, then, side by side and in no  *)
(* transaction, its uploads and its listing page.                          *)

Ended(c) == [Idle EXCEPT !.pc = "failed", !.stage = call[c].stage]

Goes(c, pc) ==
  call' = [call EXCEPT ![c] = IF pc = "failed" THEN Ended(c) ELSE [@ EXCEPT !.pc = pc]]

ReadRevision(c) ==
  /\ c \in Analyses /\ call[c].pc = "idle"
  /\ IF deleted THEN Goes(c, "failed")
     ELSE call' = [call EXCEPT ![c].pc = "load", ![c].revision = revision]
  /\ UNCHANGED <<caseVars, moneyVars, forsaken, mishaps>>

\* FAULT: the revision is read with the uploads.
ReadArtifactsAndRevision(c) ==
  /\ call[c].pc = "load" /\ call[c].rows = Null
  /\ IF deleted THEN Goes(c, "failed")
     ELSE call' = [call EXCEPT ![c].rows = available, ![c].revision = revision]
  /\ UNCHANGED <<caseVars, moneyVars, forsaken, mishaps>>

ReadArtifacts(c) ==
  /\ call[c].pc = "load" /\ call[c].rows = Null
  /\ IF deleted THEN Goes(c, "failed")
     ELSE call' = [call EXCEPT ![c].rows = available]
  /\ UNCHANGED <<caseVars, moneyVars, forsaken, mishaps>>

ReadListing(c) ==
  /\ call[c].pc = "load" /\ call[c].url = Null
  /\ call' = [call EXCEPT ![c].url = IF deleted \/ listing = Null THEN "none" ELSE listing]
  /\ UNCHANGED <<caseVars, moneyVars, forsaken, mishaps>>

(* One listing, uploaded or imported, one contract and a viewing.          *)
Complete(rows, url) ==
  LET count(kind) == Cardinality({a \in rows : Kind[a] = kind})
  IN  /\ count("listing") + (IF url = "none" THEN 0 ELSE 1) = 1
      /\ count("viewing") \in 1 .. 12
      /\ count("contract") = 1

BuildInputs(c) ==
  /\ call[c].pc = "load" /\ call[c].rows # Null /\ call[c].url # Null
  /\ Goes(c, IF Complete(call[c].rows, call[c].url) THEN "reserve" ELSE "failed")
  /\ UNCHANGED <<caseVars, moneyVars, forsaken, mishaps>>

-----------------------------------------------------------------------------
(* A paid call: reserve, send, reconcile. *)

CallId(c) == <<c, call[c].stage>>
RequestOf(c) == Stages(c)[call[c].stage]

(* A database error may come before or after the transaction commits.      *)
Faulty == mishaps < MaxMishaps /\ mishaps' = mishaps + 1

ReserveCall(c) ==
  LET e == Reserved(CallId(c), RequestOf(c)) IN
  /\ call[c].pc = "reserve"
  /\ \/ Enter(e) /\ Goes(c, "send") /\ UNCHANGED <<forsaken, mishaps>>
     \/ /\ \/ ~CanEnter(e) /\ UNCHANGED mishaps
           \/ Faulty
        /\ Goes(c, "failed")
        /\ UNCHANGED <<events, budget, operations, forsaken>>
     \/ /\ Faulty /\ Enter(e)
        /\ forsaken' = forsaken \cup {CallId(c)}
        /\ Goes(c, "failed")
  /\ UNCHANGED <<caseVars, spent, overrun>>

\* FAULT: an error of the provider is thrown on at once.
SendOrThrow(c) ==
  /\ call[c].pc = "send"
  /\ \/ \E u \in Usages : call' = [call EXCEPT ![c].pc = "reconcile", ![c].used = u,
                                              ![c].known = TRUE]
     \/ Goes(c, "failed")
  /\ UNCHANGED <<caseVars, moneyVars, forsaken, mishaps>>

(* The provider uses u; its answer may lack the usage, or be an error.     *)
Send(c) ==
  /\ call[c].pc = "send"
  /\ \E u \in Usages, known \in BOOLEAN :
       call' = [call EXCEPT ![c].pc = "reconcile", ![c].used = u, ![c].known = known]
  /\ UNCHANGED <<caseVars, moneyVars, forsaken, mishaps>>

(* Anything but a known usage within the reservation ends the caller.      *)
Proceeds(c) == call[c].known /\ ~ExceedsReservation(RequestOf(c), call[c].used)

\* FAULT: one stage too many.
GoesOnPastLast(c) ==
  call' = [call EXCEPT ![c] = [@ EXCEPT !.pc = "reserve", !.stage = @ + 1, !.used = Null]]

GoesOn(c) ==
  LET last == call[c].stage = Len(Stages(c))
      next == IF last THEN call[c].stage ELSE call[c].stage + 1
      pc == IF ~last THEN "reserve" ELSE IF c \in Analyses THEN "commit" ELSE "done"
  IN  call' = [call EXCEPT ![c] =
        [@ EXCEPT !.pc = pc, !.stage = next, !.used = Null]]

ReconcileCall(c) ==
  LET e == Reconciled(CallId(c), call[c].used, call[c].known) IN
  /\ call[c].pc = "reconcile"
  /\ \/ /\ Enter(e)
        /\ spent' = Plus(spent, Use(call[c].used))
        /\ overrun' = (overrun \/ ExceedsReservation(RequestOf(c), call[c].used))
        /\ \/ Proceeds(c) /\ GoesOn(c) /\ UNCHANGED mishaps
           \/ ~Proceeds(c) /\ Goes(c, "failed") /\ UNCHANGED mishaps
           \/ Faulty /\ Goes(c, "failed")
        /\ UNCHANGED forsaken
     \/ /\ \/ ~CanEnter(e) /\ UNCHANGED mishaps
           \/ Faulty
        /\ forsaken' = forsaken \cup {CallId(c)}
        /\ Goes(c, "failed")
        /\ UNCHANGED moneyVars
  /\ UNCHANGED caseVars

CommitAnalysis(c) ==
  /\ call[c].pc = "commit"
  /\ IF ~deleted /\ call[c].revision = revision
     THEN /\ snapshot' = [rows |-> call[c].rows, url |-> call[c].url]
          /\ revision' = revision + 1
          /\ Goes(c, "done")
     ELSE UNCHANGED <<snapshot, revision>> /\ Goes(c, "failed")
  /\ UNCHANGED <<available, listing, deleted, pending, moneyVars, forsaken, mishaps>>

-----------------------------------------------------------------------------
Paying(c) == call[c].pc \in {"send", "reconcile"}

Crash ==
  /\ Faulty
  /\ call' = [c \in Callers |-> Ended(c)]
  /\ forsaken' = forsaken \cup {CallId(c) : c \in {d \in Callers : Paying(d)}}
  /\ pending' = Null
  /\ UNCHANGED <<available, listing, revision, snapshot, deleted, moneyVars>>

Step(c) ==
  \/ ReadRevision(c) \/ ReadArtifacts(c) \/ ReadListing(c) \/ BuildInputs(c)
  \/ ReserveCall(c) \/ Send(c) \/ ReconcileCall(c) \/ CommitAnalysis(c)

Next ==
  \/ \E c \in Callers : Step(c)
  \/ \E a \in Direct : Upload(a)
  \/ \E a \in Processed : Publish(a)
  \/ \E text \in Texts : OfferListing(text)
  \/ ConfirmListing
  \/ DeleteCase
  \/ Crash

Spec == Init /\ [][Next]_vars

-----------------------------------------------------------------------------
TypeOK ==
  /\ operations = Len(events)
  /\ \A i \in DOMAIN events :
       /\ events[i].id \in CallIds
       /\ \/ events[i].type = "reserve" /\ events[i].request \in StageRequests
          \/ events[i].type = "reconcile" /\ events[i].usage \in Usages
  /\ available \subseteq Artifacts
  /\ listing \in Texts \cup {Null}
  /\ revision \in Nat
  /\ deleted \in BOOLEAN
  /\ forsaken \subseteq CallIds
  /\ \A c \in Callers : call[c].stage \in DOMAIN Stages(c)

(* The budget that PostgreSQL keeps is BudgetSpec of EvidenceBudget: the    *)
(* log accepts what an engine would that lived as long as the case.  Every *)
(* log that was written can be replayed, to the state of that engine.      *)
LogReplays == Replay(events) = budget

(* The reservations that count are the calls that are under way, and those *)
(* whose caller crashed or failed at the database: runRealCaseAnalysis and *)
(* BudgetedScannedPdfOcr leak none on any other way out.                   *)
ReservationsAreCalls ==
  DOMAIN budget.active = {CallId(c) : c \in {d \in Callers : Paying(d)}}
                                 \cup (forsaken \ budget.settled)

(* A snapshot is committed only for the very uploads and listing page that *)
(* it was computed from, although these are read one after the other and   *)
(* long before, and never for a deleted case.                              *)
SnapshotIsOfItsCase ==
  [][snapshot' # snapshot /\ snapshot' # Null =>
       /\ ~deleted
       /\ snapshot'.rows = available
       /\ snapshot'.url = IF listing = Null THEN "none" ELSE listing]_vars

(* Of the changes that come after a snapshot, an upload that a worker      *)
(* publishes withdraws it (commitAvailable).  Uploads that are finalized   *)
(* at once, and listing pages, do not.                                     *)
SnapshotKnowsPublished ==
  snapshot # Null => available \cap Processed \subseteq snapshot.rows
=============================================================================
