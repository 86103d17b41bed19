--------------------------- MODULE ProviderAnswers ---------------------------
(* What the three OpenAI adapters (conversation intent, scanned-PDF OCR,   *)
(* analysis) make of a provider's answer, and how the analysis adapter     *)
(* decides that what was extracted is really in the artifacts it sent.     *)
(* A character stands for a Unicode code point.                            *)
EXTENDS Naturals, Sequences, FiniteSets

CONSTANTS
  Book,        \* page -> text of the contract; page 1 is also the listing's
               \* and the interaction's text
  Excerpts,    \* texts that an answer may quote
  Artifact,    \* the artifact of a call with one artifact
  Frames,      \* artifact -> its frame, or Null, in a call with images
  Strange,     \* an artifact that was not sent
  Null

Offsets == 0 .. 4      \* bound: places that an answer may name

ProviderAssumption ==
  /\ {<< >>} \cap Excerpts = {}
  /\ \A p \in DOMAIN Book : Len(Book[p]) <= 3
  /\ Strange \notin {Artifact} \cup DOMAIN Frames

VARIABLES
  asked,     \* [adapter, input], or Null
  reply,     \* what came back, or Null
  outcome    \* what the adapter returned or threw, or Null

providerVars == <<asked, reply, outcome>>

-----------------------------------------------------------------------------
(* Inputs and answers.                                                     *)
Inputs == {"listing text", "listing image", "images", "contract", "interaction"}

Questions ==
  {[adapter |-> a, input |-> "none"] : a \in {"conversation", "ocr"}}
  \cup {[adapter |-> "analysis", input |-> i] : i \in Inputs}

ListsOf(input) ==
  CASE input \in {"listing text", "listing image"} -> {"claims"}
    [] input = "images" -> {"observations"}
    [] input = "contract" -> {"clauses", "disclosures"}
    [] input = "interaction" -> {"cues", "candidates"}

AllowedArtifacts(input) == IF input = "images" THEN DOMAIN Frames ELSE {Artifact}
SomeArtifacts(input) == AllowedArtifacts(input) \cup {Strange}

(* The locators of an answer: of an image, of a page, of a text, of a      *)
(* frame of a video.                                                       *)
Locators(input) ==
  LET places == [start : Offsets \ {4}, end : Offsets, excerpt : Excerpts]
      artifacts == SomeArtifacts(input) IN
  {[type |-> "image", artifact |-> a, ordered |-> b] : a \in artifacts, b \in BOOLEAN}
  \cup {[type |-> "video", artifact |-> a, frame |-> Frames[f]] :
          a \in artifacts, f \in {g \in DOMAIN Frames : Frames[g] # Null}}
  \cup {[type |-> "pdf", artifact |-> Artifact, page |-> p, start |-> q.start, end |-> q.end,
         excerpt |-> q.excerpt] : p \in DOMAIN Book \cup {Len(Book) + 1}, q \in places}
  \cup {[type |-> "text", artifact |-> Artifact, start |-> q.start, end |-> q.end,
         excerpt |-> q.excerpt] : q \in places}

Entities(input) ==
  {[list |-> l, case |-> c, artifact |-> a, locator |-> loc] :
     l \in ListsOf(input), c \in {"this", "other"}, a \in SomeArtifacts(input),
     loc \in Locators(input)}

Thrown == {"401", "400", "429", "no answer"}

Answer(status, refuses, entities, usage) ==
  [status |-> status, refuses |-> refuses, entities |-> entities, usage |-> usage]

-----------------------------------------------------------------------------
(* The checks of the analysis adapter.                                     *)
Ordered(loc) ==
  CASE loc.type = "image" -> loc.ordered
    [] loc.type = "video" -> TRUE
    [] OTHER -> loc.start < loc.end

\* FAULT: a quotation is looked for anywhere from its start on.
ExcerptSomewhere(text, start, end, excerpt) ==
  \E i \in start .. Len(text) - Len(excerpt) : SubSeq(text, i + 1, i + Len(excerpt)) = excerpt

(* Array.slice: a range that leaves the text is cut.                       *)
ExactPageExcerpt(text, start, end, excerpt) ==
  SubSeq(text, start + 1, IF end < Len(text) THEN end ELSE Len(text)) = excerpt

Page(loc) == IF loc.page \in DOMAIN Book THEN Book[loc.page] ELSE << >>

Occurrences(text, excerpt) ==
  {i \in 0 .. Len(text) - Len(excerpt) : SubSeq(text, i + 1, i + Len(excerpt)) = excerpt}

\* FAULT: the first of several occurrences is taken.
MovableToFirst(text, excerpt) == Occurrences(text, excerpt) # {}

Movable(text, excerpt) == Cardinality(Occurrences(text, excerpt)) = 1

(* A clause whose range is wrong is moved to the one place on that page    *)
(* that reads the same.                                                    *)
Resolve(e) ==
  LET loc == e.locator
      first == CHOOSE i \in Occurrences(Page(loc), loc.excerpt) :
                 \A j \in Occurrences(Page(loc), loc.excerpt) : i <= j IN
  IF \/ e.list # "clauses" \/ loc.type # "pdf"
     \/ ExactPageExcerpt(Page(loc), loc.start, loc.end, loc.excerpt)
     \/ ~Movable(Page(loc), loc.excerpt)
  THEN e
  ELSE [e EXCEPT !.locator.start = first, !.locator.end = first + Len(loc.excerpt)]

OnItsPage(loc) ==
  loc.type = "pdf" /\ ExactPageExcerpt(Page(loc), loc.start, loc.end, loc.excerpt)
InTheText(loc) ==
  loc.type = "text" /\ ExactPageExcerpt(Book[1], loc.start, loc.end, loc.excerpt)

ValidMedia(e) ==
  /\ e.artifact \in DOMAIN Frames
  /\ IF Frames[e.artifact] = Null THEN e.locator.type = "image"
     ELSE e.locator.type = "video" /\ e.locator.frame = Frames[e.artifact]

(* Of the cues of an interaction, and of what is seen in the image of a    *)
(* listing, only the owner is checked.                                     *)
ValidPlace(input, e) ==
  CASE e.list = "clauses" -> OnItsPage(e.locator)
    [] e.list = "disclosures" ->
         /\ e.case = "this" /\ e.artifact = Artifact /\ e.locator.artifact = Artifact
         /\ OnItsPage(e.locator)
    [] e.list = "claims" /\ input = "listing text" -> InTheText(e.locator)
    [] e.list = "observations" -> ValidMedia(e)
    [] e.list = "candidates" -> e.locator.artifact = Artifact /\ InTheText(e.locator)
    [] OTHER -> TRUE

ValidOwner(input, e) ==
  e.list \notin {"disclosures", "candidates"} =>
    /\ e.case = "this" /\ e.artifact \in AllowedArtifacts(input)
    /\ e.artifact = e.locator.artifact

(* A locator's error is told from others by its path, which for the lists  *)
(* of fraud candidates does not name it.                                   *)
IssueCode(e) == IF e.list = "candidates" THEN "SCHEMA_INVALID" ELSE "LOCATOR_INVALID"

-----------------------------------------------------------------------------
Refused(code, usage) == [ok |-> FALSE, code |-> code, usage |-> usage, entities |-> {}]

ClientError(adapter, thrown) ==
  CASE thrown = "401" -> "AUTH_FAILED"
    [] thrown = "429" -> "RATE_LIMITED"
    [] thrown = "400" /\ adapter = "analysis" -> "SCHEMA_INVALID"
    [] OTHER -> "UNAVAILABLE"

\* FAULT: no error carries the usage.
UsageNever(adapter, r) == "unknown"

(* Only the conversation's errors carry the usage of a paid answer.        *)
UsageOfError(adapter, r) == IF adapter = "conversation" THEN r.usage ELSE "unknown"

Analyzed(input, r, usage) ==
  LET resolved == {Resolve(e) : e \in r.entities}
      bad == {e \in r.entities : ~Ordered(e.locator)}
            \cup {e \in r.entities : e.list = "disclosures" /\ e.locator.type # "pdf"} IN
  IF bad # {} THEN {Refused(IssueCode(e), usage) : e \in bad}
  ELSE IF \E e \in resolved : ~ValidPlace(input, e) \/ ~ValidOwner(input, e)
       THEN {Refused("LOCATOR_INVALID", usage)}
       ELSE {[ok |-> TRUE, code |-> "none", usage |-> r.usage, entities |-> resolved]}

Judged(q, r) ==
  LET usage == UsageOfError(q.adapter, r) IN
  CASE r.status = "incomplete" -> {Refused("INCOMPLETE", usage)}
    [] r.status # "incomplete" /\ r.refuses -> {Refused("REFUSED", usage)}
    [] r.status = "failed" /\ ~r.refuses -> {Refused("UNAVAILABLE", usage)}
    [] r.status = "garbled" /\ ~r.refuses -> {Refused("SCHEMA_INVALID", usage)}
    [] r.status = "completed" /\ ~r.refuses -> Analyzed(q.input, r, usage)

-----------------------------------------------------------------------------
ProviderInit == asked = Null /\ reply = Null /\ outcome = Null

Call(q) ==
  /\ asked = Null /\ asked' = q
  /\ UNCHANGED <<reply, outcome>>

CallFails(thrown) ==
  /\ asked # Null /\ reply = Null
  /\ reply' = [thrown |-> thrown]
  /\ outcome' = Refused(ClientError(asked.adapter, thrown), "unknown")
  /\ UNCHANGED asked

CallAnswers(r) ==
  /\ asked # Null /\ reply = Null
  /\ reply' = r
  /\ outcome' \in Judged(asked, r)
  /\ UNCHANGED asked

ProviderNext ==
  \/ \E q \in Questions : Call(q)
  \/ \E thrown \in Thrown : CallFails(thrown)
  \/ \E status \in {"incomplete", "failed", "garbled", "completed"}, refuses \in BOOLEAN,
        usage \in {"known", "unknown"} : CallAnswers(Answer(status, refuses, {}, usage))
  \/ /\ asked # Null /\ asked.input # "none" /\ reply = Null
     /\ \E e \in Entities(asked.input) : CallAnswers(Answer("completed", FALSE, {e}, "known"))

-----------------------------------------------------------------------------
ProviderTypeOK ==
  /\ asked = Null \/ asked \in Questions
  /\ (reply = Null) = (outcome = Null)

(* Whatever an accepted analysis names is where it says: in an artifact of *)
(* the call, on that page or in that text or frame, word for word from its *)
(* start.  The end may lie beyond the end of the text (slice cuts), and    *)
(* cues and claims of an image are only bound to their artifact.           *)
Quotes(text, loc) ==
  /\ loc.start + Len(loc.excerpt) <= Len(text)
  /\ SubSeq(text, loc.start + 1, loc.start + Len(loc.excerpt)) = loc.excerpt
  /\ \/ loc.end = loc.start + Len(loc.excerpt)
     \/ loc.start + Len(loc.excerpt) = Len(text) /\ loc.end > Len(text)

AcceptedIsGrounded ==
  outcome # Null /\ outcome.ok =>
    \A e \in outcome.entities :
      /\ e.locator.artifact \in AllowedArtifacts(asked.input)
      /\ e.list \in {"clauses", "disclosures"} => Quotes(Book[e.locator.page], e.locator)
      /\ e.list = "candidates" \/ asked.input = "listing text" => Quotes(Book[1], e.locator)
      /\ e.locator.type = "video" /\ asked.input = "images"
         => e.locator.frame = Frames[e.locator.artifact]

(* An adapter changes of an answer only the place of a clause, and that    *)
(* only to the one place on its page where the same words stand.           *)
MovedToTheOnlyPlace ==
  outcome # Null /\ outcome.ok =>
    \A e \in outcome.entities \ reply.entities :
      \E o \in reply.entities :
        /\ e.list = "clauses" /\ o = [e EXCEPT !.locator.start = o.locator.start,
                                              !.locator.end = o.locator.end]
        /\ Occurrences(Book[e.locator.page], e.locator.excerpt) = {e.locator.start}

(* The usage of a paid answer is passed on as it was reported: by every    *)
(* success, and by the conversation's errors too, so that its budget is    *)
(* not closed for want of it.                                              *)
UsageIsPassedOn ==
  outcome # Null /\ "usage" \in DOMAIN reply =>
    /\ outcome.ok \/ asked.adapter = "conversation" => outcome.usage = reply.usage
    /\ outcome.usage = "known" => reply.usage = "known"
=============================================================================
