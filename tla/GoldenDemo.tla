----------------------------- MODULE GoldenDemo -----------------------------
(* The sealed demo case: the panel of a page (GoldenUploadPanel), the      *)
(* upload service, and the fixture analysis and its follow-up.  Pages are  *)
(* reloaded and answers are lost; one server process, in which an upload   *)
(* and an analysis take several turns of the event loop.                   *)
EXTENDS Naturals, FiniteSets, FiniteSetsExt, Functions, TLC

CONSTANTS
  Nothing,
  Tabs,                  \* pages that are open
  Required, CloseUp,     \* GOLDEN_ARTIFACTS: those an analysis needs, the follow-up
  Bytes,                 \* of each artifact, a PDF counting none
  CaseImageBytes,        \* UPLOAD_LIMITS.caseOriginalImageBytes
  MaxReceipts

Artifacts == Required \cup {CloseUp}

GoldenAssumption ==
  /\ CloseUp \notin Required
  /\ Bytes \in [Artifacts -> Nat] /\ {CaseImageBytes, MaxReceipts} \subseteq Nat

VARIABLES
  page,        \* page[t]: states of the uploads, the analysis, the follow-up; busy
  sent,        \* upload requests on their way: [tab, artifact, waits]
  activeCase,  \* the case is in #activeCases
  uploading,   \* uploads in the service: [tab, artifact, waits, stored]
  receipts,    \* both maps of the receipt store: artifact -> receipt
  analysing,   \* pages whose analysis runs: {} or one, which may have gone
  followUp     \* the follow-up state: [revision], or Nothing before an analysis

goldenVars == <<page, sent, activeCase, uploading, receipts, analysing, followUp>>

Statuses == {"idle", "pending", "success", "failure"}

FreshPage ==
  [uploads |-> [a \in Artifacts |-> "idle"], receipts |-> << >>, busy |-> Nothing,
   analysis |-> "idle", closeUp |-> "idle"]

GoldenInit ==
  /\ page = [t \in Tabs |-> FreshPage]
  /\ sent = {}
  /\ activeCase = FALSE
  /\ uploading = {}
  /\ receipts = << >>
  /\ analysing = {}
  /\ followUp = Nothing

-----------------------------------------------------------------------------
(* loadArtifact: the file is fetched and sent.                             *)
LoadArtifact(t, a) ==
  /\ page[t].busy = Nothing /\ page[t].uploads[a] # "success"
  /\ page' = [page EXCEPT ![t].uploads[a] = "pending", ![t].busy = a]
  /\ sent' = sent \cup {[tab |-> t, artifact |-> a, waits |-> TRUE]}
  /\ UNCHANGED <<activeCase, uploading, receipts, analysing, followUp>>

(* The answer of an upload reaches its page, if the page still waits.      *)
UploadShown(request, receipt) ==
  LET t == request.tab
      a == request.artifact
      shown == [page[t] EXCEPT !.uploads[a] = IF receipt = Nothing THEN "failure" ELSE "success",
                               !.busy = Nothing]
  IN
  IF ~request.waits THEN page
  ELSE [page EXCEPT ![t] =
         IF receipt = Nothing THEN shown
         ELSE [shown EXCEPT !.receipts = (a :> receipt) @@ @,
                            !.analysis = IF a = CloseUp THEN @ ELSE "idle",
                            !.closeUp = IF a = CloseUp THEN @ ELSE "idle"]]

Forgotten(requests, t) ==
  {IF r.tab = t THEN [r EXCEPT !.waits = FALSE] ELSE r : r \in requests}

(* The file, the connection or the answer is lost; the request may be on   *)
(* its way or at work, and stays there.                                    *)
UploadLost(t, arrives) ==
  /\ page[t].busy # Nothing
  /\ page' = [page EXCEPT ![t].uploads[page[t].busy] = "failure", ![t].busy = Nothing]
  /\ sent' = Forgotten(IF arrives THEN sent ELSE {r \in sent : r.tab # t \/ ~r.waits}, t)
  /\ uploading' = Forgotten(uploading, t)
  /\ UNCHANGED <<activeCase, receipts, analysing, followUp>>

Reload(t) ==
  /\ page' = [page EXCEPT ![t] = FreshPage]
  /\ sent' = Forgotten(sent, t)
  /\ uploading' = Forgotten(uploading, t)
  /\ analysing' = {IF r = t THEN Nothing ELSE r : r \in analysing}
  /\ UNCHANGED <<activeCase, receipts, followUp>>

-----------------------------------------------------------------------------
\* FAULT: two uploads of the case at a time.
AcquiresAnyway == TRUE

(* InMemorySyntheticUploadCoordinator.acquire; each request of the panel   *)
(* has a new key, so none is a replay by its key.                          *)
Acquires == ~activeCase

(* #guardTransport: what the panel sends names one of the artifacts, its   *)
(* file and its type.  refused stands for a profile, a host, an origin, a  *)
(* token or a header that is not the panel's, for the rate limit           *)
(* (RateLimits) and for a manifest that cannot be read.                    *)
Reaches(request, refused) == request.artifact \in Artifacts /\ ~refused

(* SyntheticUploadService.handle up to the stream; an artifact that is     *)
(* stored is refused.  originalImageBytes is read before the stream.       *)
UploadArrives(request, refused) ==
  /\ request \in sent
  /\ sent' = sent \ {request}
  /\ IF Reaches(request, refused) /\ Acquires /\ request.artifact \notin DOMAIN receipts
     THEN /\ activeCase' = TRUE
          /\ uploading' = uploading \cup
               {[stored |-> SumFunctionOnSet(Bytes, DOMAIN receipts)] @@ request}
          /\ UNCHANGED page
     ELSE page' = UploadShown(request, Nothing) /\ UNCHANGED <<activeCase, uploading>>
  /\ UNCHANGED <<receipts, analysing, followUp>>

FitsCase(upload) == upload.stored + Bytes[upload.artifact] <= CaseImageBytes

(* #process, the sanitizer or the text extraction: a receipt of its own,   *)
(* or none for a file that is refused; nor for a stream that breaks.       *)
Processed == {Nothing, Cardinality(DOMAIN receipts) + 1}

(* guardSingleUploadRequest, #process, and the receipt is saved.           *)
UploadEnds(upload, receipt) ==
  LET saved == receipt # Nothing /\ FitsCase(upload) /\ upload.artifact \notin DOMAIN receipts IN
  /\ upload \in uploading
  /\ receipt \in Processed
  /\ uploading' = uploading \ {upload}
  /\ activeCase' = FALSE
  /\ receipts' = IF saved THEN (upload.artifact :> receipt) @@ receipts ELSE receipts
  /\ page' = UploadShown(upload, IF saved THEN receipt ELSE Nothing)
  /\ UNCHANGED <<sent, analysing, followUp>>

-----------------------------------------------------------------------------
(* runFixtureAnalysis and the route: one run at a time.  The receipts are  *)
(* looked up when it starts; no receipt is ever removed.                   *)
RunAnalysis(t) ==
  /\ page[t].analysis # "pending"
  /\ \A a \in Required : page[t].uploads[a] = "success"
  /\ IF analysing = {}
     THEN /\ analysing' = {t}
          /\ page' = [page EXCEPT ![t].analysis = "pending"]
     ELSE page' = [page EXCEPT ![t].analysis = "failure"] /\ UNCHANGED analysing
  /\ UNCHANGED <<sent, activeCase, uploading, receipts, followUp>>

AnalysisLost(t) ==
  /\ t \in analysing
  /\ analysing' = {Nothing}
  /\ page' = [page EXCEPT ![t].analysis = "failure"]
  /\ UNCHANGED <<sent, activeCase, uploading, receipts, followUp>>

\* FAULT: the follow-up starts anew with every analysis.
RegisteredAnew == [revision |-> 0]

(* registerFollowUpBaseSnapshot: the fixture snapshot is always the same.  *)
Registered == IF followUp = Nothing THEN [revision |-> 0] ELSE followUp

AnalysisEnds(t, ok) ==
  /\ t \in analysing
  /\ analysing' = {}
  /\ followUp' = IF ok THEN Registered ELSE followUp
  /\ page' = IF t = Nothing THEN page
             ELSE [page EXCEPT ![t].analysis = IF ok THEN "success" ELSE "failure",
                               ![t].closeUp = IF ok THEN "idle" ELSE @]
  /\ UNCHANGED <<sent, activeCase, uploading, receipts>>

-----------------------------------------------------------------------------
(* applyWallFollowUp, always for revision 0 and with a new key.            *)
ApplyFollowUp(t) ==
  /\ page[t].analysis = "success" /\ page[t].uploads[CloseUp] = "success"
  /\ page[t].closeUp \notin {"pending", "success"}
  /\ page' = [page EXCEPT ![t].closeUp = "pending"]
  /\ UNCHANGED <<sent, activeCase, uploading, receipts, analysing, followUp>>

(* ApplyWallFollowUpUseCase over the repository in memory, which answers   *)
(* in the same turn of the event loop.  The request or its answer may be   *)
(* lost.                                                                   *)
Applies == followUp # Nothing /\ followUp.revision = 0

(* saveAtomic of the repository in memory.                                 *)
SavedFollowUp == [followUp EXCEPT !.revision = @ + 1]

FollowUpEnds(t, arrives, answered) ==
  /\ page[t].closeUp = "pending"
  /\ followUp' = IF arrives /\ Applies THEN SavedFollowUp ELSE followUp
  /\ page' = [page EXCEPT ![t].closeUp =
       IF arrives /\ Applies /\ answered THEN "success" ELSE "failure"]
  /\ UNCHANGED <<sent, activeCase, uploading, receipts, analysing>>

-----------------------------------------------------------------------------
GoldenNext ==
  \/ \E t \in Tabs, a \in Artifacts : LoadArtifact(t, a)
  \/ \E t \in Tabs, arrives \in BOOLEAN : UploadLost(t, arrives)
  \/ \E t \in Tabs : Reload(t) \/ RunAnalysis(t) \/ AnalysisLost(t) \/ ApplyFollowUp(t)
  \/ \E request \in sent, refused \in BOOLEAN : UploadArrives(request, refused)
  \/ \E upload \in uploading, receipt \in 1 .. MaxReceipts \cup {Nothing} : UploadEnds(upload, receipt)
  \/ \E t \in analysing, ok \in BOOLEAN : AnalysisEnds(t, ok)
  \/ \E t \in Tabs, arrives, answered \in BOOLEAN : FollowUpEnds(t, arrives, answered)

GoldenSpec == GoldenInit /\ [][GoldenNext]_goldenVars

-----------------------------------------------------------------------------
GoldenTypeOK ==
  /\ \A t \in Tabs :
       /\ \A a \in Artifacts : page[t].uploads[a] \in Statuses
       /\ {page[t].analysis, page[t].closeUp} \subseteq Statuses
  /\ activeCase \in BOOLEAN
  /\ DOMAIN receipts \subseteq Artifacts
  /\ Cardinality(analysing) <= 1

(* What a page shows as done is done, by the very receipt it holds: after  *)
(* lost answers, reloads and other pages too; and the follow-up that a     *)
(* page saw applied is not undone by the next analysis.                    *)
PageShowsTheTruth ==
  \A t \in Tabs :
    /\ \A a \in Artifacts : page[t].uploads[a] = "success" =>
         a \in DOMAIN receipts /\ page[t].receipts[a] = receipts[a]
    /\ page[t].analysis = "success" =>
         followUp # Nothing /\ Required \subseteq DOMAIN receipts
    /\ page[t].closeUp = "success" => followUp.revision = 1

(* The case is marked while an upload is at work and no longer, whichever  *)
(* way it ends.                                                            *)
UploadsKeepTheCase == activeCase <=> uploading # {}

(* The images of the case stay within their limit, though each upload      *)
(* reads what is stored before its own stream.                             *)
ImagesStayWithinLimit == SumFunctionOnSet(Bytes, DOMAIN receipts) <= CaseImageBytes
=============================================================================
