------------------------------ MODULE RealHome ------------------------------
(* The page of a real case (RealDemoHome and its ProcessingCard), the      *)
(* routes that it calls, and the cookies that it shares with other tabs.   *)
(* The page does one thing at a time; its handlers go on with what they    *)
(* captured when they began (view), while the card polls and other tabs    *)
(* sign in and out.  Requests time out and go on at the server; answers    *)
(* are lost.                                                               *)
EXTENDS Naturals, FiniteSets, FiniteSetsExt

CONSTANTS
  None,
  Files, MimeOf,         \* what can be attached, and what it turns out to be
  MaxCases,              \* bound: cases created
  MaxUploads,            \* bound: upload identities
  MaxStrays,             \* bound: requests the page gave up, still on their way
  MaxVisits              \* bound: what happens to the account elsewhere

Mimes == {"image", "text_pdf", "scan", "video"}
Kinds == {"listing_image", "viewing_image", "contract_pdf", "follow_up_image", "viewing_video"}

RealHomeAssumption ==
  /\ MimeOf \in [Files -> Mimes]
  /\ {MaxCases, MaxUploads, MaxStrays, MaxVisits} \subseteq Nat

Cases == 1..MaxCases

VARIABLES
  home,     \* the page: session, case, receipts, files, card
  doing,    \* the handler that runs: its request, its answer, its closure; or None
  strays,   \* requests that the page no longer waits for
  polled,   \* a poll of the card that found the file available, or None
  acted,    \* the answer of its last confirm or cancel on its way, or None
  minted,   \* upload identities made so far
  cases,    \* the server's cases, with their processing records
  account,  \* the account cookie is that of a live session
  visits,   \* how often that changed elsewhere
  unsure    \* cases of which the page was not told something

homeVars == <<home, doing, strays, polled, acted, minted, cases, account, visits, unsure>>

NoCase == 0
FreshHome ==
  [session |-> "loading", fresh |-> FALSE, case |-> NoCase, receipts |-> {}, url |-> FALSE,
   file |-> None, ocr |-> FALSE, identity |-> 0, processing |-> None, saver |-> FALSE]

NewCase(owner) ==
  [owner |-> owner, artifacts |-> {}, url |-> FALSE, jobs |-> {}]

HomeInit ==
  /\ home = FreshHome
  /\ doing = None
  /\ strays = {}
  /\ polled = None /\ acted = None
  /\ minted = 0
  /\ cases = [c \in Cases |-> NewCase("nobody")]
  /\ account \in BOOLEAN
  /\ visits = 0
  /\ unsure = {}

-----------------------------------------------------------------------------
(* resolveCurrentCaseActor: the account goes before the guest.             *)
Actor == IF account THEN "account" ELSE "guest"
Owned(c) == c \in Cases /\ cases[c].owner = Actor

Outcome(after, signedIn, is, of) ==
  [cases |-> after, account |-> signedIn, answer |-> [is |-> is, of |-> of]]
Said(is) == Outcome(cases, account, is, None)

Created ==
  {Outcome([cases EXCEPT ![c] = NewCase(Actor)], account, "created", c) :
     c \in {d \in Cases : /\ cases[d].owner = "nobody"
                          /\ \A e \in 1..(d - 1) : cases[e].owner # "nobody"}}

(* A new revision of the case: what was queued at another is out of date.  *)
Revised(case) == [case EXCEPT !.jobs = {[j EXCEPT !.current = FALSE] : j \in @}]

WithArtifact(case, artifact) == Revised([case EXCEPT !.artifacts = @ \cup {artifact}])

Stored(case, file) == \E a \in case.artifacts : a.file = file

(* POST uploads: an image or a PDF with text is stored, a scan with        *)
(* consent or a video is queued; the key is that of queued files only.     *)
Uploaded(r) ==
  LET case == cases[r.case]
      artifact == [file |-> r.file, kind |-> r.kind, key |-> r.key]
      job == [artifact |-> artifact, by |-> Actor, current |-> TRUE, state |-> "queued"]
  IN
  IF MimeOf[r.file] \in {"image", "text_pdf"}
  THEN IF Stored(case, r.file) THEN {}
       ELSE {Outcome([cases EXCEPT ![r.case] = WithArtifact(case, artifact)],
                     account, "stored", artifact)}
  ELSE IF MimeOf[r.file] = "scan" /\ ~r.consent THEN {Said("ocr")}
  ELSE IF \E j \in case.jobs : j.artifact = artifact /\ j.by = Actor
       THEN {Outcome(cases, account, "queued", artifact)}
       ELSE {Outcome([cases EXCEPT ![r.case].jobs = @ \cup {job}], account, "queued", artifact)}

(* The conversation, as the page sees it: a confirmed link is added if the *)
(* offer still holds (RealConversation).                                   *)
Recognized(r) ==
  {Said(IF r.text = "start" THEN "start" ELSE "other")} \cup
  IF r.text = "confirm"
  THEN {Outcome([cases EXCEPT ![r.case] = Revised([@ EXCEPT !.url = TRUE])],
                account, "added", None)}
  ELSE {}

IsListing(a) == a.kind = "listing_image"
IsContract(a) == a.kind = "contract_pdf"
IsViewing(a) == a.kind \in {"viewing_image", "viewing_video"}
SeesRoom(a) == IsViewing(a) \/ a.kind = "follow_up_image"

(* hasRequiredArtifacts of the page, and the same of loadAnalysisPayloads. *)
Required(artifacts, url) ==
  /\ Cardinality({a \in artifacts : IsListing(a)}) + (IF url THEN 1 ELSE 0) = 1
  /\ \E a \in artifacts : SeesRoom(a)
  /\ Cardinality({a \in artifacts : IsContract(a)}) = 1

(* DELETE tries the account and then the guest; a deletion whose cleaning  *)
(* failed may be asked for again.                                          *)
Deleted(c) ==
  IF cases[c].owner \in {"guest", Actor}
  THEN {Outcome([cases EXCEPT ![c] = NewCase("gone")], account, is, None) :
          is \in {"done", "refused"}}
  ELSE IF cases[c].owner = "gone" THEN {Said("done")} ELSE {}

Saved(c) ==
  IF account /\ cases[c].owner = "guest"
  THEN {Outcome([cases EXCEPT ![c] = Revised([@ EXCEPT !.owner = "account"])],
                account, "done", None)}
  ELSE {}

(* What a route may do and answer: a stale CSRF token, a case of another   *)
(* and any failure are all refused.                                        *)
Outcomes(r) ==
  {Said("refused")} \cup
  IF r.op = "guest" THEN {Said("done")}
  ELSE IF ~r.fresh THEN {}
  ELSE CASE r.op = "create" -> Created
         [] r.op = "logout" -> {Outcome(cases, FALSE, "done", None)}
         [] r.op = "delete" -> Deleted(r.case)
         [] r.op = "save" -> Saved(r.case)
         [] r.op = "upload" -> IF Owned(r.case) THEN Uploaded(r) ELSE {}
         [] r.op = "text" -> IF Owned(r.case) THEN Recognized(r) ELSE {}
         [] r.op = "analyse" ->
              IF Owned(r.case) /\ Required(cases[r.case].artifacts, cases[r.case].url)
              THEN {Said("done")} ELSE {}

(* An account that ran out makes the case the guest's, unknown to the page.*)
Serves ==
  /\ doing # None /\ doing.answer = None
  /\ \E o \in Outcomes(doing.request) :
       /\ doing' = [doing EXCEPT !.answer = o.answer]
       /\ cases' = o.cases /\ account' = o.account
       /\ unsure' = IF o.answer.is = "created" /\ home.session = "account" /\ ~account
                    THEN unsure \cup {o.answer.of} ELSE unsure
  /\ UNCHANGED <<home, strays, polled, acted, minted, visits>>

ServesStray ==
  /\ \E r \in strays : \E o \in Outcomes(r) :
       strays' = strays \ {r} /\ cases' = o.cases /\ account' = o.account
  /\ UNCHANGED <<home, doing, polled, acted, minted, unsure, visits>>

-----------------------------------------------------------------------------
HasSession == home.session \in {"guest", "account"}
Idle == doing = None

(* What a handler of the page captures when it begins.                     *)
View ==
  [receipts |-> home.receipts, url |-> home.url, processing |-> home.processing,
   fresh |-> home.fresh]

Ask(op, case, view) ==
  [op |-> op, case |-> case, fresh |-> view.fresh, text |-> None, file |-> None, key |-> 0,
   kind |-> None, consent |-> FALSE]

(* A handler waits for the answer of request; next is what it does then.   *)
Waits(request, view, next) ==
  [request |-> request, answer |-> None, view |-> IF next = None THEN None ELSE view,
   next |-> next]

AskText(text, case, view) == [Ask("text", case, view) EXCEPT !.text = text]

NextKind(receipts, url) ==
  IF ~url /\ ~\E a \in receipts : IsListing(a) THEN "listing_image"
  ELSE IF ~\E a \in receipts : IsViewing(a) THEN "viewing_image"
  ELSE IF ~\E a \in receipts : IsContract(a) THEN "contract_pdf"
  ELSE "follow_up_image"

Accepts(kind, mime) ==
  IF kind = "contract_pdf" THEN mime \in {"text_pdf", "scan"}
  ELSE mime = "image" \/ (kind = "viewing_image" /\ mime = "video")

(* upload: nothing while a card is shown, and only what comes next.        *)
MayUpload(view, file) ==
  view.processing = None /\ Accepts(NextKind(view.receipts, view.url), MimeOf[file])

(* uploadIdentity: a file keeps its key until it is answered for.          *)
UploadKey(page) == IF page.identity = 0 THEN minted + 1 ELSE page.identity

Uploads(page, view, consent) ==
  IF MayUpload(view, page.file)
  THEN LET mime == MimeOf[page.file]
           key == UploadKey(page)
           kind == IF mime = "video" THEN "viewing_video" ELSE NextKind(view.receipts, view.url)
       IN /\ home' = [page EXCEPT !.identity = key]
          /\ minted' = Max({minted, key})
          /\ doing' = Waits([Ask("upload", page.case, view) EXCEPT
                               !.file = page.file, !.key = key, !.kind = kind,
                               !.consent = consent], view, None)
  ELSE home' = page /\ doing' = None /\ UNCHANGED minted

(* Picking a file anew makes another File of it: no identity, no consent.  *)
Picked(file) ==
  IF file = None THEN home ELSE [home EXCEPT !.file = file, !.identity = 0, !.ocr = FALSE]

(* createCase from submitDraft, by name or by the link of a listing.       *)
Creates(text) ==
  /\ Idle /\ HasSession /\ home.case = NoCase
  /\ \E c \in Cases : cases[c].owner = "nobody"
  /\ doing' = Waits(Ask("create", NoCase, View), View, IF text = "link" THEN "name" ELSE None)
  /\ UNCHANGED <<home, strays, polled, acted, minted, cases, account, unsure, visits>>

(* submitDraft with a case: the text, then the file.                       *)
Submits(text, file) ==
  LET page == Picked(file) IN
  /\ Idle /\ HasSession /\ home.case # NoCase
  /\ page.file # None => minted < MaxUploads
  /\ IF text # None
     THEN /\ home' = page
          /\ doing' = Waits(AskText(text, home.case, View), View,
                            IF page.file # None THEN "upload"
                            ELSE IF text = "start" THEN "analyse" ELSE None)
          /\ UNCHANGED minted
     ELSE page.file # None /\ Uploads(page, View, FALSE)
  /\ UNCHANGED <<strays, polled, acted, cases, account, unsure, visits>>

(* The button that agrees to the recognition of a scan: upload(true).      *)
ConsentsToOcr ==
  /\ Idle /\ HasSession /\ home.ocr /\ home.file # None
  /\ home.identity # 0 \/ minted < MaxUploads
  /\ Uploads(home, View, TRUE)
  /\ UNCHANGED <<strays, polled, acted, cases, account, unsure, visits>>

Asks(op) ==
  /\ Idle
  /\ CASE op = "delete" -> HasSession /\ home.case # NoCase
       [] op = "logout" -> home.session = "account"
       [] op = "save" -> home.session = "guest" /\ home.saver /\ home.case # NoCase
  /\ doing' = Waits(Ask(op, home.case, View), View, None)
  /\ UNCHANGED <<home, strays, polled, acted, minted, cases, account, unsure, visits>>

(* clearCaseProjection                                                     *)
Cleared == [FreshHome EXCEPT !.session = home.session, !.fresh = home.fresh]

(* The page after a failure; a refusal and a lost answer look the same.    *)
Failed ==
  CASE doing.request.op = "save" -> [home EXCEPT !.saver = FALSE]
    [] doing.request.op = "guest" -> [home EXCEPT !.session = "unavailable"]
    [] OTHER -> home

Answered(op) ==
  /\ doing # None /\ doing.answer # None
  /\ doing.request.op = op /\ doing.answer.is # "refused"
  /\ UNCHANGED <<strays, polled, acted, cases, account, unsure, visits>>

HearsRefusal ==
  /\ doing # None /\ doing.answer # None /\ doing.answer.is = "refused"
  /\ home' = Failed
  /\ doing' = None
  /\ UNCHANGED <<strays, polled, acted, minted, cases, account, unsure, visits>>

HearsCreated ==
  /\ Answered("create")
  /\ home' = [home EXCEPT !.case = doing.answer.of]
  /\ doing' = IF doing.next = "name"
              THEN Waits(AskText("link", doing.answer.of, doing.view), doing.view, None)
              ELSE None
  /\ UNCHANGED minted

(* recognizeText and what submitDraft does after it.                       *)
HearsText ==
  LET page == [home EXCEPT !.url = @ \/ doing.answer.is = "added"] IN
  /\ Answered("text")
  /\ IF doing.next = "upload" THEN Uploads(page, doing.view, FALSE)
     ELSE /\ home' = page
          /\ doing' = IF /\ doing.next = "analyse" /\ doing.answer.is = "start"
                         /\ Required(doing.view.receipts, doing.view.url)
                      THEN Waits(Ask("analyse", home.case, doing.view), doing.view, None)
                      ELSE None
          /\ UNCHANGED minted

HearsUploaded ==
  LET of == doing.answer.of
      sent == [home EXCEPT !.file = None, !.identity = 0]
  IN
  /\ Answered("upload")
  /\ home' = CASE doing.answer.is = "ocr" -> [home EXCEPT !.ocr = TRUE]
               [] doing.answer.is = "queued" ->
                    [sent EXCEPT !.processing = of, !.ocr = FALSE]
               [] doing.answer.is = "stored" -> [sent EXCEPT !.receipts = @ \cup {of}]
  /\ doing' = None
  /\ UNCHANGED minted

(* The analysis is shown; what it says is CaseAnalysis.                    *)
HearsAnalysis ==
  /\ Answered("analyse")
  /\ doing' = None
  /\ UNCHANGED <<home, minted>>

HearsDeleted ==
  /\ Answered("delete")
  /\ home' = Cleared
  /\ doing' = None
  /\ UNCHANGED minted

(* logout clears the page and asks for a guest session.                    *)
HearsLoggedOut ==
  /\ Answered("logout")
  /\ home' = [Cleared EXCEPT !.session = "loading"]
  /\ doing' = Waits(Ask("guest", NoCase, View), View, None)
  /\ UNCHANGED minted

HearsGuest ==
  /\ Answered("guest")
  /\ home' = [home EXCEPT !.session = "guest"]
  /\ doing' = None
  /\ UNCHANGED minted

HearsSaved ==
  /\ Answered("save")
  /\ home' = [home EXCEPT !.session = "account", !.saver = FALSE]
  /\ doing' = None
  /\ UNCHANGED minted

(* useAbortableFetch gives up, or the connection does: the request may     *)
(* have been answered, be on its way or be lost.                           *)
Abandoned ==
  /\ strays' \in {strays} \cup
       IF doing # None /\ doing.answer = None /\ Cardinality(strays) < MaxStrays
       THEN {strays \cup {doing.request}} ELSE {}
  /\ doing' = None

GivesUp ==
  /\ doing # None
  /\ Abandoned
  /\ home' = Failed
  /\ unsure' = unsure \cup ({doing.request.case} \ {NoCase})
  /\ UNCHANGED <<polled, acted, minted, cases, account, visits>>

-----------------------------------------------------------------------------
(* The page is loaded; the first effect finds out who the visitor is.      *)
Reload ==
  /\ home # FreshHome
  /\ home' = FreshHome
  /\ Abandoned
  /\ UNCHANGED <<polled, acted, minted, cases, account, unsure, visits>>

LoadsSession(available) ==
  /\ home.session = "loading" /\ Idle
  /\ home' = IF available THEN [home EXCEPT !.session = Actor, !.fresh = TRUE]
             ELSE [home EXCEPT !.session = "unavailable"]
  /\ UNCHANGED <<doing, strays, polled, acted, minted, cases, account, unsure, visits>>

(* GET /api/auth/session replaces the CSRF cookie of every tab: the token  *)
(* that a running handler has captured is stale.                           *)
Rotated ==
  doing' = IF doing # None /\ doing.view # None THEN [doing EXCEPT !.view.fresh = FALSE] ELSE doing

(* The second effect of the page, with every focus.                        *)
RefreshesAccount ==
  /\ home.session = "guest" /\ home.case # NoCase
  /\ home' = [home EXCEPT !.fresh = TRUE, !.saver = account]
  /\ Rotated
  /\ UNCHANGED <<strays, polled, acted, minted, cases, account, unsure, visits>>

(* AuthPanel in another tab loads its session, then signs in or out.       *)
SignsElsewhere ==
  /\ visits < MaxVisits /\ visits' = visits + 1
  /\ account' = ~account
  /\ home' = [home EXCEPT !.fresh = FALSE]
  /\ Rotated
  /\ UNCHANGED <<strays, polled, acted, minted, cases, unsure>>

SessionRunsOut ==
  /\ visits < MaxVisits /\ visits' = visits + 1
  /\ account /\ account' = FALSE
  /\ UNCHANGED <<home, doing, strays, polled, acted, minted, cases, unsure>>

-----------------------------------------------------------------------------
JobsOf(c) == IF c \in Cases THEN cases[c].jobs ELSE {}
WithJob(case, job, state) == [case EXCEPT !.jobs = (@ \ {job}) \cup {[job EXCEPT !.state = state]}]

(* finalize: of the revision it was queued at, and only once.              *)
Publishes(case, job) ==
  /\ job.by = case.owner /\ job.current
  /\ ~Stored(case, job.artifact.file)

Published(case, job) == WithArtifact(WithJob(case, job, "available"), job.artifact)

(* The worker (ArtifactProcessing): a scan waits for its confirmation, a   *)
(* video is published.                                                     *)
JobEnds(c, job, fails) ==
  /\ job \in JobsOf(c) /\ job.state = "queued"
  /\ cases' = [cases EXCEPT ![c] =
       IF fails \/ job.by # @.owner THEN WithJob(@, job, "failed")
       ELSE IF MimeOf[job.artifact.file] = "scan" THEN WithJob(@, job, "unconfirmed")
       ELSE IF Publishes(@, job) THEN Published(@, job) ELSE WithJob(@, job, "failed")]
  /\ UNCHANGED <<home, doing, strays, polled, acted, minted, account, unsure, visits>>

(* The record that the card is about, for the actor that queued it.        *)
CardJobs ==
  {j \in JobsOf(home.case) : j.artifact = home.processing /\ j.by = Actor /\ Owned(home.case)}

(* poll reads the status: only that the file is available changes the page.*)
Polls ==
  /\ home.processing # None /\ polled = None
  /\ \E j \in CardJobs : j.state = "available"
  /\ polled' = [case |-> home.case, of |-> home.processing]
  /\ UNCHANGED <<home, doing, strays, acted, minted, cases, account, unsure, visits>>

\* FAULT: what arrives after the card is gone counts.
AlwaysMounted(message) == TRUE

(* Unmounting aborts the card's requests; its key is case and artifact.    *)
Mounted(message) == message.case = home.case /\ message.of = home.processing

(* onFinished                                                              *)
Finished(receipts) ==
  [home EXCEPT !.receipts = @ \cup receipts, !.processing = None]

PollArrives ==
  /\ polled # None
  /\ polled' = None
  /\ home' = IF Mounted(polled) THEN Finished({polled.of}) ELSE home
  /\ UNCHANGED <<doing, strays, acted, minted, cases, account, unsure, visits>>

(* mutate: the confirmation publishes, the cancellation ends what is not   *)
(* published; a stale token or a text of another revision is refused.      *)
Acts(action) ==
  /\ home.processing # None /\ acted = None
  /\ action = "confirm" => MimeOf[home.processing.file] = "scan"
  /\ LET able == {j \in CardJobs : /\ home.fresh
                                   /\ IF action = "cancel" THEN j.state # "available"
                                      ELSE j.state = "unconfirmed" /\ Publishes(cases[home.case], j)}
     IN
     /\ acted' = [case |-> home.case, of |-> home.processing, action |-> action,
                  ok |-> able # {}]
     /\ cases' = IF able = {} THEN cases
                 ELSE LET j == CHOOSE k \in able : TRUE IN
                      [cases EXCEPT ![home.case] = IF action = "cancel"
                                                   THEN WithJob(@, j, "cancelled")
                                                   ELSE Published(@, j)]
  /\ UNCHANGED <<home, doing, strays, polled, minted, account, unsure, visits>>

\* FAULT: the card ends with the click.
EndsByClick(message) == message.action = "cancel"

EndsCard(message) == message.action = "cancel" /\ message.ok

ActArrives(lost) ==
  /\ acted # None
  /\ acted' = None
  /\ home' = IF ~lost /\ Mounted(acted) /\ EndsCard(acted) THEN Finished({}) ELSE home
  /\ UNCHANGED <<doing, strays, polled, minted, cases, account, unsure, visits>>

-----------------------------------------------------------------------------
HomeNext ==
  \/ Serves
  \/ ServesStray
  \/ \E text \in {"other", "link"} : Creates(text)
  \/ \E text \in {"other", "start", "confirm", None}, f \in Files \cup {None} : Submits(text, f)
  \/ ConsentsToOcr
  \/ \E op \in {"delete", "logout", "save"} : Asks(op)
  \/ HearsRefusal
  \/ HearsCreated
  \/ HearsText
  \/ HearsUploaded
  \/ HearsAnalysis
  \/ HearsDeleted
  \/ HearsLoggedOut
  \/ HearsGuest
  \/ HearsSaved
  \/ GivesUp
  \/ Reload
  \/ \E available \in BOOLEAN : LoadsSession(available)
  \/ RefreshesAccount
  \/ SignsElsewhere
  \/ SessionRunsOut
  \/ \E c \in Cases : \E job \in cases[c].jobs, fails \in BOOLEAN : JobEnds(c, job, fails)
  \/ Polls
  \/ PollArrives
  \/ \E action \in {"confirm", "cancel"} : Acts(action)
  \/ \E lost \in BOOLEAN : ActArrives(lost)

-----------------------------------------------------------------------------
Artifacts == [file : Files, kind : Kinds, key : 1..MaxUploads]

HomeTypeOK ==
  /\ home.session \in {"loading", "guest", "account", "unavailable"}
  /\ home.case \in {NoCase} \cup Cases
  /\ home.receipts \subseteq Artifacts
  /\ home.processing \in Artifacts \cup {None}
  /\ minted \in 0..MaxUploads /\ visits \in 0..MaxVisits /\ unsure \subseteq Cases
  /\ \A c \in Cases : cases[c].artifacts \subseteq Artifacts

(* What the page shows is in the case it shows: no receipt, card or link   *)
(* of a case that was left, and none that the server does not have.        *)
ShownIsStored ==
  IF home.case = NoCase THEN home = Cleared
  ELSE cases[home.case].owner # "gone" =>
    /\ home.receipts \subseteq cases[home.case].artifacts
    /\ home.url => cases[home.case].url
    /\ home.processing # None =>
         \E j \in cases[home.case].jobs : j.artifact = home.processing

(* As long as no answer was lost, the page has everything of the case but  *)
(* what its card is about, and a case of an account page is the account's. *)
PageKnowsTheCase ==
  home.case # NoCase /\ home.case \notin unsure /\ Idle
    /\ cases[home.case].owner # "gone" =>
    /\ cases[home.case].artifacts \subseteq home.receipts \cup {home.processing}
    /\ cases[home.case].url => home.url
    /\ home.session = "account" => cases[home.case].owner = "account"
=============================================================================
