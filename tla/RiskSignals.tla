------------------------------ MODULE RiskSignals ------------------------------
(* The deterministic part of a live analysis: what is made of the claims,  *)
(* observations, clauses, payment cues, candidate facts and disclosure     *)
(* statements that the four provider stages extracted.  A behaviour reads  *)
(* entities one by one and then composes the analysis.                     *)
EXTENDS Naturals, Sequences, FiniteSets, SequencesExt

CONSTANTS
  Refs,        \* locators' ids, chosen by the provider: a set of ids
  Official,    \* the reference of the official rent context
  RefLimit,    \* references of one finding or signal in a snapshot: 8 in the code
  MaxReads,    \* bound: topic -> entities read in one behaviour
  Null

RiskAssumption == Official \notin Refs /\ RefLimit \in 2 .. Cardinality(Refs)

Threshold == 2     \* the rent that is "significantly below" the official context

VARIABLES
  read,       \* what the stages extracted, and what the request says
  analysis    \* Null, or the composed analysis

riskVars == <<read, analysis>>

-----------------------------------------------------------------------------
Money(amount, period) == [type |-> "money", amount |-> amount, period |-> period]
Truth(value) == [type |-> "boolean", value |-> value]

(* Bound: what may be claimed, and what may be seen or stipulated.         *)
Claimed == {<<"monthly_rent", Money(1, "month")>>, <<"monthly_rent", Money(3, "month")>>,
            <<"monthly_rent", Money(3, "one_time")>>, <<"rent_subsidy", Truth(TRUE)>>}
Shown == {<<"monthly_rent", Money(1, "month"), TRUE>>, <<"monthly_rent", Money(1, "month"), FALSE>>,
          <<"monthly_rent", Money(3, "month"), TRUE>>, <<"monthly_rent", Null, TRUE>>,
          <<"rent_subsidy", Truth(FALSE), TRUE>>}

ClaimOf(key, value, ref) == [key |-> key, value |-> value, ref |-> ref]
ItemOf(key, value, shown, adequate, ref) ==
  [key |-> key, value |-> value, shown |-> shown, adequate |-> adequate, ref |-> ref]

Present(value, refs) == [status |-> "present", value |-> value, refs |-> refs]
Absent == [status |-> "not_present"]
Unknown == [status |-> "unknown"]

(* Values that the evaluator does not tell apart are one "cue".            *)
CandidateValues ==
  [remoteViewingArrangement |-> {"cue"}, unfamiliarLinkOrCredentialRequest |-> {"cue"},
   paymentRequest |-> {"cue"},
   paymentPartyRelationship |-> {"verified_consistent", "inconsistent"},
   lettingAuthorityVerification |-> {"verified", "unknown"},
   pressureLanguage |-> {"cue"}, paymentMethod |-> {"ordinary_domestic", "gift_card"},
   redirectedAccountVerification |-> {"cue"}]
Candidates == DOMAIN CandidateValues

-----------------------------------------------------------------------------
(* Claims against the viewing and the contract.                            *)
Relation(value, claimed) ==
  CASE value = Null -> "not_mentioned"
    [] value # Null /\ value = claimed -> "same"
    [] value # Null /\ value # claimed /\ value.type = claimed.type
       /\ (value.type = "money" => value.period = claimed.period) -> "opposite"
    [] OTHER -> "not_mentioned"

Comparable(claim, r) ==
  SelectSeq(r.observations \o r.clauses, LAMBDA item : item.key = claim.key)

Adequate(claim, r, relation) ==
  \E i \in DOMAIN Comparable(claim, r) :
    LET item == Comparable(claim, r)[i] IN
    item.shown /\ item.adequate /\ Relation(item.value, claim.value) = relation

\* FAULT: support is looked for first.
SupportFirst(claim, r) ==
  CASE Adequate(claim, r, "same") -> "supported"
    [] Adequate(claim, r, "opposite") /\ ~Adequate(claim, r, "same") -> "contradicted"
    [] OTHER -> "insufficient_evidence"

CompareClaim(claim, r) ==
  CASE Adequate(claim, r, "opposite") -> "contradicted"
    [] Adequate(claim, r, "same") /\ ~Adequate(claim, r, "opposite") -> "supported"
    [] OTHER -> "insufficient_evidence"

Cited(seq) == ToSet(SubSeq(seq, 1, IF Len(seq) < RefLimit THEN Len(seq) ELSE RefLimit))

Finding(claim, r) ==
  LET items == Comparable(claim, r) IN
  [status |-> CompareClaim(claim, r),
   refs |-> IF items = << >> THEN {claim.ref} ELSE Cited([i \in DOMAIN items |-> items[i].ref])]

Findings(r) == [i \in DOMAIN r.claims |-> Finding(r.claims[i], r)]

(* Only the first contradicted claim is taken, and it counts only when its *)
(* locator and those of its finding are at least two.                      *)
Contradiction(r) ==
  LET first == SelectInSeq(Findings(r), LAMBDA f : f.status = "contradicted")
      refs == {r.claims[first].ref} \cup Findings(r)[first].refs IN
  IF first = 0 \/ (first # 0 /\ Cardinality(refs) < 2) THEN Absent ELSE Present("pair", refs)

RestrictsSubsidy(clause) ==
  /\ clause.key = "rent_subsidy"
  /\ clause.value = Truth(FALSE)

(* RP-010: whatever clause restricts the subsidy, the first one is cited.  *)
SubsidyCheck(r) ==
  [result |-> IF \E i \in DOMAIN r.clauses : RestrictsSubsidy(r.clauses[i])
              THEN "possible_difference" ELSE "missing_information",
   refs |-> {r.clauses[1].ref}]

-----------------------------------------------------------------------------
(* The signals FRS-001 to FRS-010.                                         *)
Check(status, refs) == [status |-> status, refs |-> refs]
Missing(refs) == Check("insufficient_information", refs)
Clear(refs) == Check("not_detected_in_provided_data", refs)
Detected(refs) == IF refs = {} THEN Missing({}) ELSE Check("detected", refs)

(* A cue of the interaction takes the place of the candidate.              *)
Payment(r) == IF r.cue = Null THEN r.candidates.paymentRequest ELSE Present("cue", {r.cue})

Frs001(r) ==
  CASE r.cue = Null -> Missing({})
    [] r.cue # Null /\ r.paidFirst -> Detected({r.cue})
    [] OTHER -> Clear({r.cue})

Simple(candidate, harmless) ==
  CASE candidate.status = "unknown" -> Missing({})
    [] candidate.status = "not_present" -> Clear({})
    [] candidate.status = "present" ->
         IF candidate.value \in harmless THEN Clear(candidate.refs) ELSE Detected(candidate.refs)

\* FAULT: a question the interaction does not answer counts as settled.
SilenceSettles(payment, fact, settled) ==
  CASE payment.status = "unknown" -> Missing({})
    [] payment.status = "not_present" -> Clear({})
    [] payment.status = "present" /\ fact.status # "present" -> Clear(payment.refs)
    [] payment.status = "present" /\ fact.status = "present" ->
         IF fact.value = settled THEN Clear(payment.refs \cup fact.refs)
         ELSE Detected(payment.refs \cup fact.refs)

(* FRS-004 and FRS-005: a payment request, and what is known of its payee. *)
AboutPayment(payment, fact, settled) ==
  CASE payment.status = "unknown" -> Missing({})
    [] payment.status = "not_present" -> Clear({})
    [] payment.status = "present" /\ fact.status # "present" -> Missing(payment.refs)
    [] payment.status = "present" /\ fact.status = "present" ->
         IF fact.value = settled THEN Clear(payment.refs \cup fact.refs)
         ELSE Detected(payment.refs \cup fact.refs)

RentClaim(r) ==
  SelectInSeq(r.claims, LAMBDA c :
    c.key = "monthly_rent" /\ c.value.type = "money" /\ c.value.period = "month")

\* FAULT: a low rent is a signal by itself.
LowRentAlone(r, companions) ==
  LET rent == RentClaim(r)
      refs == {Official, r.claims[rent].ref} IN
  CASE rent = 0 \/ ~r.official -> Missing({})
    [] rent # 0 /\ r.official /\ r.claims[rent].value.amount >= Threshold -> Clear(refs)
    [] OTHER -> Detected(refs)

(* FRS-009: a low rent counts only beside another detected signal, of      *)
(* which the first one is cited.                                           *)
Frs009(r, companions) ==
  LET rent == RentClaim(r)
      refs == {Official, r.claims[rent].ref}
      first == SelectInSeq(companions, LAMBDA c : c.status = "detected") IN
  CASE rent = 0 \/ ~r.official -> Missing({})
    [] rent # 0 /\ r.official /\ r.claims[rent].value.amount >= Threshold -> Clear(refs)
    [] rent # 0 /\ r.official /\ r.claims[rent].value.amount < Threshold ->
         IF first # 0 THEN Detected(refs \cup companions[first].refs)
         ELSE IF \E i \in DOMAIN companions : companions[i].status = "insufficient_information"
              THEN Missing(refs)
              ELSE Clear(refs)

(* FRS-009 is judged from the eight signals before FRS-010 and from FRS-010*)
(* itself, and put in its place.                                           *)
Signals(r) ==
  LET c == r.candidates
      others == <<Frs001(r), Simple(c.remoteViewingArrangement, {}),
                  Simple(c.unfamiliarLinkOrCredentialRequest, {}),
                  AboutPayment(Payment(r), c.paymentPartyRelationship, "verified_consistent"),
                  AboutPayment(Payment(r), c.lettingAuthorityVerification, "verified"),
                  Simple(c.pressureLanguage, {}), Simple(c.paymentMethod, {"ordinary_domestic"}),
                  Simple(Contradiction(r), {}), Simple(c.redirectedAccountVerification, {})>> IN
  InsertAt(others, 9, Frs009(r, others))

-----------------------------------------------------------------------------
(* What is said of a non-natural death in the flat, for one period.        *)
Excluded == {"rumor"}
Eligible(r, period) ==
  {s \in r.statements : s.period = period /\ s.kind \notin Excluded /\ s.ref # Null
                        /\ s.answer # "unknown"}

\* FAULT: the first answer is taken.
FirstAnswer(r, period) ==
  LET said == {s.answer : s \in Eligible(r, period)} IN
  IF said = {} THEN [status |-> "insufficient_evidence", answer |-> "unknown", refs |-> {}]
  ELSE [status |-> "supported", answer |-> CHOOSE a \in said : TRUE,
        refs |-> {s.ref : s \in Eligible(r, period)}]

Disclosed(r, period) ==
  LET said == {s.answer : s \in Eligible(r, period)}
      refs == {s.ref : s \in Eligible(r, period)} IN
  CASE said = {} -> [status |-> "insufficient_evidence", answer |-> "unknown", refs |-> {}]
    [] Cardinality(said) = 1 ->
         [status |-> "supported", answer |-> CHOOSE a \in said : TRUE, refs |-> refs]
    [] OTHER -> [status |-> "contradicted", answer |-> "unknown", refs |-> refs]

Periods == {"during_owner_holding", "before_owner_holding_known"}

-----------------------------------------------------------------------------
(* The analysis.  A snapshot takes at most RefLimit references of a signal.*)
Failed(code) == [ok |-> FALSE, code |-> code]

FitSnapshot(signals) == \A i \in DOMAIN signals : Cardinality(signals[i].refs) <= RefLimit

Compose(r) ==
  CASE r.clauses = << >> -> Failed("CONTRACT_LOCATOR_REQUIRED")
    [] r.clauses # << >> /\ ~FitSnapshot(Signals(r)) -> Failed("TOO_MANY_REFERENCES")
    [] OTHER -> [ok |-> TRUE, code |-> "none", findings |-> Findings(r), signals |-> Signals(r),
                 subsidy |-> SubsidyCheck(r), disclosed |-> [p \in Periods |-> Disclosed(r, p)]]

-----------------------------------------------------------------------------
(* Bounds: a behaviour reads either evidence, or the interaction beside a  *)
(* given listing and contract, or disclosures.  Statements of an excluded  *)
(* kind or without a locator come from a report's input, not from a        *)
(* provider.                                                               *)
SomeRef == CHOOSE x \in Refs : TRUE
FewRefs == CHOOSE s \in SUBSET Refs : SomeRef \in s /\ Cardinality(s) = 2
RefSets == {{SomeRef}, Refs}

Empty(topic, official, paidFirst, default) ==
  [topic |-> topic, official |-> official, paidFirst |-> paidFirst, claims |-> << >>,
   observations |-> << >>, clauses |-> << >>, cue |-> Null,
   candidates |-> [c \in Candidates |-> default], statements |-> {}, reads |-> 0]

Given(r) ==
  [r EXCEPT !.claims = <<ClaimOf("monthly_rent", Money(1, "month"), SomeRef)>>,
            !.clauses = <<ItemOf("monthly_rent", Null, TRUE, TRUE, SomeRef)>>]

RiskInit ==
  /\ \E official, paidFirst \in BOOLEAN, default \in {Absent, Unknown} :
       \/ read = Empty("evidence", TRUE, FALSE, default)
       \/ read = Given(Empty("interaction", official, paidFirst, default))
       \/ read = Given(Empty("disclosures", FALSE, FALSE, Unknown))
  /\ analysis = Null

Reads(topic) ==
  /\ analysis = Null /\ read.topic = topic /\ read.reads < MaxReads[topic]

ReadClaim(c) ==
  /\ Reads("evidence") /\ read.observations = << >> /\ read.clauses = << >>
  /\ read' = [read EXCEPT !.claims = Append(@, c), !.reads = @ + 1]
  /\ UNCHANGED analysis

ReadObservation(o) ==
  /\ Reads("evidence") /\ read.clauses = << >>
  /\ read' = [read EXCEPT !.observations = Append(@, o), !.reads = @ + 1]
  /\ UNCHANGED analysis

ReadClause(k) ==
  /\ Reads("evidence")
  /\ read' = [read EXCEPT !.clauses = Append(@, k), !.reads = @ + 1]
  /\ UNCHANGED analysis

ReadCue ==
  /\ Reads("interaction") /\ read.cue = Null
  /\ read' = [read EXCEPT !.cue = SomeRef, !.reads = @ + 1]
  /\ UNCHANGED analysis

ReadCandidate(c, candidate) ==
  /\ Reads("interaction") /\ read.candidates[c] \in {Absent, Unknown}
  /\ candidate # read.candidates[c]
  /\ read' = [read EXCEPT !.candidates[c] = candidate, !.reads = @ + 1]
  /\ UNCHANGED analysis

ReadStatement(s) ==
  /\ Reads("disclosures") /\ s \notin read.statements
  /\ read' = [read EXCEPT !.statements = @ \cup {s}, !.reads = @ + 1]
  /\ UNCHANGED analysis

Analyze ==
  /\ analysis = Null /\ analysis' = Compose(read)
  /\ UNCHANGED read

RiskNext ==
  \/ \E kv \in Claimed, ref \in FewRefs : ReadClaim(ClaimOf(kv[1], kv[2], ref))
  \/ \E kv \in Shown, ref \in FewRefs :
       \/ ReadObservation(ItemOf(kv[1], kv[2], kv[2] # Null, kv[3], ref))
       \/ ReadClause(ItemOf(kv[1], kv[2], TRUE, kv[3], ref))
  \/ ReadCue
  \/ \E c \in Candidates :
       \E candidate \in {Absent, Unknown}
                        \cup {Present(v, refs) : v \in CandidateValues[c], refs \in RefSets} :
         ReadCandidate(c, candidate)
  \/ \E period \in Periods, answer \in {"yes", "no", "unknown"}, kind \in {"signed", "rumor"},
        ref \in {Null, SomeRef} :
       ReadStatement([period |-> period, answer |-> answer, kind |-> kind, ref |-> ref])
  \/ Analyze
-----------------------------------------------------------------------------
RiskTypeOK ==
  /\ read.reads \in 0 .. MaxReads[read.topic]
  /\ analysis # Null => analysis.ok = (analysis.code = "none")

(* No alarm from nothing: a detected signal cites what a provider located, *)
(* each kind its own: the cue or the candidate, and the payment request    *)
(* with the fact about the payee.  FRS-008 stands on a claim that adequate *)
(* evidence contradicts (evaluate-extended-signals.ts, live composition).  *)
FoundSignals == {i \in DOMAIN analysis.signals : analysis.signals[i].status = "detected"}

CandidateOf(i) ==
  CASE i = 2 -> "remoteViewingArrangement" [] i = 3 -> "unfamiliarLinkOrCredentialRequest"
    [] i = 4 -> "paymentPartyRelationship" [] i = 5 -> "lettingAuthorityVerification"
    [] i = 6 -> "pressureLanguage" [] i = 7 -> "paymentMethod"
    [] i = 10 -> "redirectedAccountVerification"

AlarmsAreGrounded ==
  analysis # Null /\ analysis.ok =>
    \A i \in FoundSignals :
      /\ analysis.signals[i].refs # {}
      /\ i = 1 => read.cue \in analysis.signals[i].refs
      /\ i \in {2, 3, 4, 5, 6, 7, 10} =>
           /\ read.candidates[CandidateOf(i)].status = "present"
           /\ read.candidates[CandidateOf(i)].refs \subseteq analysis.signals[i].refs
      /\ i \in {4, 5} => read.cue # Null \/ read.candidates.paymentRequest.status = "present"
      /\ i = 8 => \E k \in DOMAIN read.claims :
                    /\ Adequate(read.claims[k], read, "opposite")
                    /\ read.claims[k].ref \in analysis.signals[i].refs

(* docs/FRAUD_RISK_SIGNALS.md:66: a low rent is never a signal by itself;  *)
(* beside another one it is cited with the official context.               *)
LowRentNeedsCompany ==
  analysis # Null /\ analysis.ok /\ 9 \in FoundSignals =>
    /\ Official \in analysis.signals[9].refs
    /\ \E i \in FoundSignals \ {9} : analysis.signals[i].refs \subseteq analysis.signals[9].refs

(* What was not settled is not reported as absent: FRS-001 to FRS-007 and  *)
(* FRS-010 say "not detected" only of an interaction that answers them.    *)
SilenceIsNotAbsence ==
  analysis # Null /\ analysis.ok =>
    \A i \in {2, 3, 4, 5, 6, 7, 10} :
      analysis.signals[i].status = "not_detected_in_provided_data" =>
        \/ read.candidates[CandidateOf(i)].status = "present"
        \/ i \in {4, 5} /\ Payment(read).status = "not_present"
        \/ i \notin {4, 5} /\ read.candidates[CandidateOf(i)].status = "not_present"

(* An analysis whose provider stages were paid is lost only without a      *)
(* clause, or when a signal gathered more references than a snapshot takes.*)
LostOnlyForReferences ==
  analysis # Null /\ ~analysis.ok =>
    \/ read.clauses = << >>
    \/ \E c \in Candidates : read.candidates[c].status = "present"
                               /\ Cardinality(read.candidates[c].refs) > 1
    \/ Contradiction(read).status = "present"

(* A period's answer is given only when every eligible statement gives it; *)
(* nothing is said on the word of an excluded source or without a locator. *)
DisclosureIsUnanimous ==
  analysis # Null /\ analysis.ok =>
    \A p \in Periods :
      LET said == {s \in read.statements : s.period = p /\ s.kind = "signed" /\ s.ref # Null} IN
      /\ analysis.disclosed[p].status = "supported" =>
           \A s \in said : s.answer \in {analysis.disclosed[p].answer, "unknown"}
      /\ analysis.disclosed[p].answer # "unknown" => analysis.disclosed[p].refs # {}
      /\ (\E s, t \in said : s.answer = "yes" /\ t.answer = "no")
         => analysis.disclosed[p].status = "contradicted"

(* Reading more never takes a contradiction back: no later observation or  *)
(* clause makes a contradicted claim supported or open again.              *)
ContradictionsStand ==
  \A i \in DOMAIN read.claims, m \in 0 .. Len(read.observations), n \in 0 .. Len(read.clauses) :
    LET earlier == [read EXCEPT !.observations = SubSeq(@, 1, m), !.clauses = SubSeq(@, 1, n)] IN
    CompareClaim(read.claims[i], earlier) = "contradicted"
    => CompareClaim(read.claims[i], read) = "contradicted"
=============================================================================
