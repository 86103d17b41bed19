--------------------------- MODULE SubsidyPrecheck ---------------------------
(* The rent subsidy precheck: a form whose answers the server evaluates    *)
(* with the rules of the year 115, and the page that shows the verdict.    *)
(* Nothing is stored; amounts and days are small numbers in their order.   *)
EXTENDS Naturals, FiniteSets

CONSTANTS
  Cities,            \* counties and cities with rent and income limits
  RentCap,           \* city -> highest monthly rent
  IncomeLimit,       \* city -> basis -> income limit
  MaxRent,           \* 100 million; the form's rents are 1 .. MaxRent
  FirstDay, LastDay, \* the days of the program year
  VerifiedOn,        \* the day the official sources were read
  MaxAge,            \* days for which that reading is good, 31
  LastToday,         \* the page is used on a day of 0 .. LastToday
  Touched            \* questions the user of a run answers

Enumerated == [
  nationalityAndRegistration |-> {"roc_national_with_domestic_household_registration", "other"},
  ageBasis |-> {"adult", "listed_minor_exception", "other_minor"},
  householdHomeOwnership |-> {"no_self_owned_home", "shared_under_40_sqm",
    "announced_demolition", "over_half_damaged", "other_self_owned_home"},
  incomeThresholdBasis |-> {"standard", "newlywed_or_household_with_minor_child"},
  incomeComparedWithApplicableThreshold |-> {"below", "at_or_above"},
  otherHousingAssistance |-> {"none", "other_rent_subsidy_will_relinquish",
    "qualifying_social_housing_subsidy_will_relinquish", "received_only_by_other_member",
    "minor_student_dormitory_subsidy", "receiving_without_confirmed_exception"},
  leaseTiming |-> {"started_or_starts_within_60_days", "outside_allowed_timing"},
  buildingBasis |-> {"qualifying_proof", "same_address_114_carryover_exception",
    "not_confirmed_qualifying"},
  applicantIsNamedLeaseholder |-> {"yes", "no"},
  leaseIsGenuine |-> {"yes", "no"},
  landlordIsRelative |-> {"yes", "no"},
  housingProgramType |-> {"ordinary_or_allowed_exception", "disallowed_social_housing"},
  leaseUseIncludesResidence |-> {"yes", "no"},
  is24HourCareInstitution |-> {"yes", "no"}]

Numbers == [applicationDate |-> FirstDay - 1 .. LastDay + 1, monthlyRentTwd |-> 1 .. MaxRent]

Questions == DOMAIN Enumerated \cup DOMAIN Numbers

(* The answer "unknown"; of a number, an empty field.                      *)
Unknown(q) == IF q \in DOMAIN Numbers THEN 0 ELSE "unknown"

Open(f, q) == f.answers[q] = Unknown(q)

Answers(q) == IF q \in DOMAIN Numbers THEN Numbers[q] ELSE Enumerated[q]

SubsidyAssumption ==
  /\ {FirstDay, LastDay, VerifiedOn, MaxAge, LastToday} \subseteq Nat /\ FirstDay > 1
  /\ MaxRent \in Nat \ {0} /\ RentCap \in [Cities -> 1 .. MaxRent]
  /\ IncomeLimit \in [Cities -> [Enumerated.incomeThresholdBasis -> 1 .. MaxRent]]
  /\ Touched \subseteq Questions

-----------------------------------------------------------------------------
(* The answer of each enumerated question that is a preliminary match;     *)
(* any other known one (a listed exception too) needs review.              *)
Matching == [
  nationalityAndRegistration |-> "roc_national_with_domestic_household_registration",
  ageBasis |-> "adult",
  householdHomeOwnership |-> "no_self_owned_home",
  otherHousingAssistance |-> "none",
  leaseTiming |-> "started_or_starts_within_60_days",
  buildingBasis |-> "qualifying_proof",
  applicantIsNamedLeaseholder |-> "yes",
  leaseIsGenuine |-> "yes",
  landlordIsRelative |-> "no",
  housingProgramType |-> "ordinary_or_allowed_exception",
  leaseUseIncludesResidence |-> "yes",
  is24HourCareInstitution |-> "no"]

Criteria == DOMAIN Matching \cup {"application_window", "income", "monthly_rent_cap"}

Check(known, matches) == IF ~known THEN "insufficient_information"
                         ELSE IF matches THEN "preliminary_match" ELSE "needs_review"

Judged(status) == [status |-> status, threshold |-> 0]

Basis == "incomeThresholdBasis"
Compared == "incomeComparedWithApplicableThreshold"

(* An unknown basis shows the higher limit but decides nothing.            *)
EvaluateIncome(f) ==
  [status |-> Check(~Open(f, Basis) /\ ~Open(f, Compared), f.answers[Compared] = "below"),
   threshold |-> IF Open(f, Compared) THEN 0
     ELSE IncomeLimit[f.city][IF Open(f, Basis) THEN "newlywed_or_household_with_minor_child"
                              ELSE f.answers[Basis]]]

EvaluateRent(f) ==
  [status |-> Check(~Open(f, "monthlyRentTwd"), f.answers.monthlyRentTwd <= RentCap[f.city]),
   threshold |-> RentCap[f.city]]

EvaluateWindow(f) ==
  Judged(Check(~Open(f, "applicationDate"),
               f.answers.applicationDate >= FirstDay /\ f.answers.applicationDate <= LastDay))

Checks(f) == [c \in Criteria |->
  CASE c = "income" -> EvaluateIncome(f)
    [] c = "monthly_rent_cap" -> EvaluateRent(f)
    [] c = "application_window" -> EvaluateWindow(f)
    [] OTHER -> Judged(Check(~Open(f, c), f.answers[c] = Matching[c]))]

\* FAULT: missing answers hide what needs review.
OverallUnknownFirst(checks) ==
  LET some(status) == \E c \in Criteria : checks[c].status = status IN
  IF some("insufficient_information") THEN "insufficient_information"
  ELSE IF some("needs_review") THEN "needs_review"
  ELSE "preliminary_match"

Overall(checks) ==
  LET some(status) == \E c \in Criteria : checks[c].status = status IN
  IF some("needs_review") THEN "needs_review"
  ELSE IF some("insufficient_information") THEN "insufficient_information"
  ELSE "preliminary_match"

Evaluate(f) == [checks |-> Checks(f), overall |-> Overall(Checks(f))]

(* assertCurrentSubsidySources: neither in the future nor too old.         *)
SourcesAreCurrent(day) == day >= VerifiedOn /\ day - VerifiedOn <= MaxAge

-----------------------------------------------------------------------------
VARIABLES
  form,     \* [city, answers] in the fields of the page
  sent,     \* the form of the request under way, or NoForm
  reply,    \* "none", "invalid", "outdated" or the verdict, on its way back
  shown,    \* NoForm or [verdict, of]: the verdict shown, and history: of what
  error,    \* "", "form", "outdated" or "failed"
  today,    \* the server's date
  edited    \* history: the form was changed while the request was under way

precheckVars == <<form, sent, reply, shown, error, today, edited>>

NoForm == [city |-> ""]
Nothing == [overall |-> "none"]

Fitting(q) == CASE q \in DOMAIN Matching -> Matching[q]
                [] q = "applicationDate" -> FirstDay
                [] OTHER -> Unknown(q)

FreshForm == [city |-> "", answers |-> [q \in Questions |-> Unknown(q)]]

(* The page starts with nothing answered; a run may begin where all but    *)
(* the questions it touches have been answered already.                    *)
PrecheckInit ==
  /\ form \in {FreshForm,
       [FreshForm EXCEPT !.answers = [q \in Questions |->
          IF q \in Touched THEN Unknown(q) ELSE Fitting(q)]]}
  /\ sent = NoForm /\ reply = Nothing /\ shown = NoForm /\ error = ""
  /\ today \in 0 .. LastToday
  /\ edited = FALSE

Submitting == sent # NoForm

\* FAULT: the verdict stays when the form changes.
ChangeKeepingVerdict(next) ==
  /\ next # form /\ form' = next
  /\ error' = ""
  /\ edited' = Submitting
  /\ UNCHANGED <<sent, reply, shown, today>>

(* Every change takes back what the page shows, not what it has asked.     *)
Change(next) ==
  /\ next # form /\ form' = next
  /\ shown' = NoForm /\ error' = ""
  /\ edited' = Submitting
  /\ UNCHANGED <<sent, reply, today>>

Submit(rentIsNumber) ==
  /\ ~Submitting
  /\ shown' = NoForm
  /\ edited' = FALSE
  /\ IF form.city = "" \/ ~rentIsNumber
     THEN error' = "form" /\ UNCHANGED sent
     ELSE error' = "" /\ sent' = form
  /\ UNCHANGED <<form, reply, today>>

(* The route checks the request, the body and the sources, then evaluates. *)
Serve(accepted) ==
  /\ Submitting /\ reply = Nothing
  /\ reply' = IF ~accepted THEN [overall |-> "invalid"]
              ELSE IF ~SourcesAreCurrent(today) THEN [overall |-> "outdated"]
              ELSE Evaluate(sent)
  /\ UNCHANGED <<form, sent, shown, error, today, edited>>

Statuses == {"preliminary_match", "needs_review", "insufficient_information"}

(* parsePrecheckView: 15 criteria, limits that are amounts or not there.   *)
Parses(view) ==
  /\ view.overall \in Statuses
  /\ Cardinality(DOMAIN view.checks) = 15
  /\ \A c \in DOMAIN view.checks :
       view.checks[c].status \in Statuses /\ view.checks[c].threshold <= MaxRent

Receive ==
  /\ Submitting /\ reply # Nothing
  /\ IF reply.overall = "outdated" THEN error' = "outdated" /\ UNCHANGED shown
     ELSE IF reply.overall # "invalid" /\ Parses(reply)
     THEN shown' = [city |-> sent.city, verdict |-> reply, of |-> sent] /\ UNCHANGED error
     ELSE error' = "failed" /\ UNCHANGED shown
  /\ sent' = NoForm /\ reply' = Nothing
  /\ UNCHANGED <<form, today, edited>>

(* No answer within 15 s, or the connection is lost.                       *)
GiveUp ==
  /\ Submitting
  /\ error' = "failed" /\ sent' = NoForm /\ reply' = Nothing
  /\ UNCHANGED <<form, shown, today, edited>>

PrecheckNext ==
  \/ \E city \in Cities : Change([form EXCEPT !.city = city])
  \/ \E q \in Touched : \E answer \in Answers(q) \cup {Unknown(q)} :
       Change([form EXCEPT !.answers[q] = answer])
  \/ \E rentIsNumber \in BOOLEAN : Submit(rentIsNumber)
  \/ \E accepted \in BOOLEAN : Serve(accepted)
  \/ Receive \/ GiveUp

-----------------------------------------------------------------------------
PrecheckTypeOK ==
  /\ form.city \in Cities \cup {""}
  /\ \A q \in Questions : form.answers[q] \in Answers(q) \cup {Unknown(q)}
  /\ error \in {"", "form", "outdated", "failed"}
  /\ shown # NoForm => error = ""

(* A form that could follow: the same one with its open questions answered.*)
Fills(questions) ==
  {g \in [questions -> UNION {Answers(q) : q \in questions}] :
     \A q \in questions : g[q] \in Answers(q)}

Completions(f) ==
  LET open == {q \in Questions : Open(f, q)}
      words == (open \cap Touched) \ DOMAIN Numbers
      numbers == open \cap Touched \cap DOMAIN Numbers
  IN  {[f EXCEPT !.answers = [q \in Questions |->
          IF q \in words THEN g[q] ELSE IF q \in numbers THEN h[q]
          ELSE IF q \in open THEN Fitting(q) ELSE f.answers[q]]] :
        g \in Fills(words), h \in Fills(numbers)}

(* A verdict is never taken back by answering more: what needs review      *)
(* needs it however the open questions are answered, a match has no open   *)
(* question, and where information is missing some answers lead to a match *)
(* (but not where the income was said to be too high for an open basis).   *)
VerdictIsFinal ==
  form.city # "" =>
    LET verdict(f) == Overall(Checks(f))
        high == Open(form, Basis) /\ form.answers[Compared] = "at_or_above"
    IN
    CASE verdict(form) = "needs_review" ->
           \A f \in Completions(form) : verdict(f) = "needs_review"
      [] verdict(form) = "preliminary_match" ->
           \A q \in Questions : ~Open(form, q)
      [] OTHER -> high \/ \E f \in Completions(form) : verdict(f) # "needs_review"

(* The page shows the verdict on the form it sent, and that is the form it *)
(* shows unless the form was changed while the page was waiting; and no    *)
(* verdict of the server is one that the page cannot read.                 *)
VerdictIsOfTheForm ==
  /\ shown # NoForm => /\ shown.verdict = Evaluate(shown.of)
                       /\ shown.of = form \/ edited
  /\ reply.overall \in Statuses => Parses(reply)
=============================================================================
