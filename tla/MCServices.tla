------------------------------ MODULE MCServices ------------------------------
(* The services that share no state with each other, side by side in one   *)
(* run of TLC: Init chooses the part that runs, the others keep still.     *)
EXTENDS MCServiceParts

CONSTANTS
  \* RateLimits
  Actors, Sources, TokenCost, Burst, IdleTtl, MaxBuckets, Scopes, CounterWindow,
  CounterMax, MaxCounters,
  \* RealHome
  Files, MaxCases, MaxUploads, MaxStrays, MaxVisits,
  \* SubsidyPrecheck
  Cities, LastToday,
  \* values
  photo, scan, clip

MimeOf == (photo :> "image") @@ (scan :> "scan")

(* The keys, clicks, tabs, codes and outputs of the parts are the same two *)
(* values; nothing but equality tells them apart.                          *)
ServicesSymmetry == Permutations(Keys)

FirstPassword == CHOOSE password \in Passwords : TRUE

JobRequest(key, case, priority) ==
  [actor |-> "a", key |-> key, caseId |-> case, type |-> "video",
   priority |-> priority, expectedRevision |-> 0]
JobRequests == {JobRequest(1, "c1", 1), JobRequest(1, "c2", 1), JobRequest(2, "c1", 0)}

VARIABLES
  part,
  buckets, counters, granted,
  home, doing, strays, polled, acted, minted, cases, signedIn, visits, unsure,
  form, sentForm, reply, shown, error, today, edited,
  jobs, keyIndex, issued, jobLeases, claims,
  draft, shownTurns, warning, flight, cards, issue, server, history,
  asked, answer, outcome,
  read, analysis,
  tools, attempt, spaces, orphans, mishap,
  intake, session, stuck, receipt

ratesVars == <<buckets, counters, granted>>
homeVars == <<home, doing, strays, polled, acted, minted, cases, signedIn, visits, unsure>>
precheckVars == <<form, sentForm, reply, shown, error, today, edited>>
memoryVars == <<jobs, keyIndex, issued, jobLeases, claims>>
shellVars == <<draft, shownTurns, warning, flight, cards, issue, server, history>>
providerVars == <<asked, answer, outcome>>
riskVars == <<read, analysis>>
videoVars == <<tools, attempt, spaces, orphans, mishap>>
intakeVars == <<intake, session, stuck, receipt>>

Rates == INSTANCE RateLimits WITH MaxTime <- 4
Home == INSTANCE RealHome WITH None <- Null, account <- signedIn
Late == INSTANCE RealHome WITH None <- Null, account <- signedIn,
  Files <- {clip}, MimeOf <- (clip :> "video"), MaxUploads <- 1, MaxStrays <- 1, MaxVisits <- 0
Precheck == INSTANCE SubsidyPrecheck WITH sent <- sentForm,
  RentCap <- [city \in Cities |-> 1],
  IncomeLimit <- [city \in Cities |->
    [standard |-> 1, newlywed_or_household_with_minor_child |-> 2]],
  MaxRent <- 2, FirstDay <- 2, LastDay <- 3, VerifiedOn <- 1, MaxAge <- 0,
  Touched <- {"monthlyRentTwd", "incomeThresholdBasis", "incomeComparedWithApplicableThreshold"}
Memory == INSTANCE MemoryJobQueue WITH
  records <- jobs, index <- keyIndex, leases <- jobLeases, clock <- now, MaxClock <- MaxTime,
  JobIds <- Tabs, Workers <- {"w"}, Requests <- JobRequests,
  MaxRecords <- 2, MaxRunning <- 1, MaxAttempts <- 2, LeaseMs <- 1, RetryDelayMs <- 1,
  TerminalRetentionMs <- 1, MaxLeases <- 2
Shell == INSTANCE ConversationShell WITH
  turns <- shownTurns, Issues <- {}, MaxSends <- 3, MaxEdits <- 2
Cards == INSTANCE ConversationShell WITH
  turns <- shownTurns, Issues <- Offers, MaxSends <- 1, MaxEdits <- 1, Warned <- {}
Provider == INSTANCE ProviderAnswers WITH reply <- answer,
  Book <- <<<<"x", "y", "x">>, <<"y">>>>, Excerpts <- {<<"x">>, <<"y">>, <<"x", "y">>},
  Artifact <- "a", Frames <- ("a" :> Null) @@ ("b" :> 7), Strange <- "c"
Risks == INSTANCE RiskSignals WITH Refs <- {"r1", "r2", "r3"}, Official <- "official",
  RefLimit <- 2, MaxReads <- [evidence |-> 3, interaction |-> 2, disclosures |-> 3]
Clip(id, duration, sizes) ==
  [id |-> id, bytes |-> 1, ftyp |-> TRUE,
   inspection |-> [duration |-> duration, pixels |-> 1, rate |-> 1],
   pictures |-> [i \in DOMAIN sizes |-> [size |-> sizes[i], valid |-> TRUE]]]
Clips == {
  Clip("whole", 3, <<1, 2>>), Clip("longest", 5, <<1, 1, 2>>),
  Clip("even", 4, <<1, 1, 1>>), Clip("tail missing", 3, <<1>>), Clip("heavy", 6, <<2, 2, 1>>),
  [Clip("odd frame", 1, <<1>>) EXCEPT !.pictures[1].valid = FALSE],
  Clip("large frame", 1, <<3>>),
  Clip("too long", 7, <<1>>), [Clip("unreadable", 1, <<1>>) EXCEPT !.inspection = Null],
  [Clip("wide", 1, <<1>>) EXCEPT !.inspection.pixels = 2],
  [Clip("fast", 1, <<1>>) EXCEPT !.inspection.rate = 2],
  [Clip("empty", 1, <<1>>) EXCEPT !.bytes = 0], [Clip("text", 1, <<1>>) EXCEPT !.ftyp = FALSE]}
Framing == INSTANCE VideoFrames WITH None <- Null, Extractors <- {"e1"}, Videos <- Clips,
  Spaces <- {"s1", "s2"}, MaxVideoBytes <- 1, MaxDuration <- 6, MaxPixels <- 1, MaxRate <- 1,
  FrameInterval <- 2, MaxFrames <- 3, MaxFrameBytes <- 2, MaxBundle <- 5, Overhead <- 1,
  Pinned <- "pinned"
Sharing == INSTANCE VideoFrames WITH None <- Null, Extractors <- {"e1", "e2"},
  Videos <- {Clip("whole", 3, <<1, 2>>), Clip("no picture", 1, << >>)},
  Spaces <- {"s1", "s2"}, MaxVideoBytes <- 1, MaxDuration <- 6, MaxPixels <- 1, MaxRate <- 1,
  FrameInterval <- 2, MaxFrames <- 3, MaxFrameBytes <- 2, MaxBundle <- 5, Overhead <- 1,
  Pinned <- "pinned"
Body(kind, mime, magic, content) ==
  [kind |-> kind, mime |-> mime, magic |-> magic, named |-> TRUE, agreed |-> TRUE,
   chunks |-> <<[size |-> 1, bytes |-> TRUE], [size |-> 0, bytes |-> TRUE]>>,
   breaks |-> FALSE, content |-> content]
Contract(items1, items2) ==
  [load |-> "fine", active |-> {}, secret |-> FALSE,
   pages |-> <<[items |-> items1, active |-> {}], [items |-> items2, active |-> {}]>>]
Lease(doc) ==
  [Body("contract_pdf", "application/pdf", "application/pdf", doc)
    EXCEPT !.chunks = <<[size |-> 1, bytes |-> TRUE]>>]
Image(copy) ==
  Body("listing_image", "image/png", "image/png",
       [format |-> "image/png", pixels |-> 1, pages |-> 1, copy |-> copy])
Copy == [edge |-> 1, metadata |-> {}, srgb |-> TRUE]
Leases == {
  Contract(<<<<"_", "x", "_", "_", "y">>, <<"_">>, <<"z">>>>, <<>>),
  Contract(<<<<"x">>>>, <<<<"y", "_">>>>), Contract(<<<<"_">>>>, <<>>),
  Contract(<<<<"x", "y", "z">>, <<"x", "y", "z">>>>, <<<<"x", "y", "z">>>>),
  [Contract(<<<<"x">>>>, <<>>) EXCEPT !.secret = TRUE],
  [Contract(<<<<"x">>>>, <<>>) EXCEPT !.load = "encrypted"],
  [Contract(<<<<"x">>>>, <<>>) EXCEPT !.load = "damaged"],
  [Contract(<<<<"x">>>>, <<>>) EXCEPT !.active = {"form", "link"}],
  [Contract(<<<<"x">>>>, <<>>) EXCEPT !.active = {"link"}],
  [Contract(<<>>, <<>>) EXCEPT !.pages[2].active = {"script"}],
  [Contract(<<<<"x">>>>, <<>>) EXCEPT !.pages[2].active = {"attachment"}],
  [Contract(<<>>, <<>>) EXCEPT !.pages = << >>],
  [Contract(<<>>, <<>>) EXCEPT !.pages = [i \in 1 .. 3 |-> @[1]]]}
Bodies == {Lease(d) : d \in Leases}
  \cup {[Lease(Contract(<<>>, <<>>)) EXCEPT !.agreed = FALSE],
        Body("viewing_video", "video/mp4", "video/mp4", Null),
        Body("viewing_video", "video/mp4", "application/pdf", Null),
        Body("contract_pdf", "image/png", "image/png", Null),
        Body("listing_image", "image/png", Null, Null),
        [Image(Copy) EXCEPT !.named = FALSE], [Image(Copy) EXCEPT !.breaks = TRUE],
        [Image(Copy) EXCEPT !.chunks = << >>], [Image(Copy) EXCEPT !.chunks[2].bytes = FALSE],
        [Image(Copy) EXCEPT !.chunks[1].size = 2], [Image(Copy) EXCEPT !.chunks[2].size = 2],
        [Image(Copy) EXCEPT !.content.pages = 2], [Image(Copy) EXCEPT !.content.pixels = 2],
        [Image(Copy) EXCEPT !.content.format = "image/jpeg"]}
  \cup {Image(c) : c \in {Copy, [Copy EXCEPT !.edge = 2], [Copy EXCEPT !.srgb = FALSE],
                         [Copy EXCEPT !.metadata = {"exif"}]}}
Taking == INSTANCE UploadIntake WITH None <- Null, Requests <- Bodies,
  MaxBytes <- [kind \in {"listing_image", "contract_pdf", "viewing_video"} |-> 2],
  MaxPages <- 2, MaxText <- 18, MaxPixels <- 1, MaxEdge <- 1, LocatorLength <- 1

ASSUME ServicesAssumption ==
  /\ Rates!RatesAssumption
  /\ Home!RealHomeAssumption
  /\ Late!RealHomeAssumption
  /\ Precheck!SubsidyAssumption
  /\ Memory!MemoryAssumption
  /\ Shell!ShellAssumption
  /\ Cards!ShellAssumption
  /\ Provider!ProviderAssumption
  /\ Risks!RiskAssumption
  /\ Framing!VideoAssumption
  /\ Sharing!VideoAssumption
  /\ Taking!IntakeAssumption

-----------------------------------------------------------------------------
Parts == {"turns", "confirmations", "tokens", "counters", "talk", "accounts", "pipeline",
          "golden", "live", "home", "late", "disk", "store", "precheck", "memory", "shell", "cards",
          "lan", "front", "answers", "risk", "video", "sharing", "intake",
          "records"}
Timeless == Parts \ {"turns", "confirmations", "tokens", "counters", "talk", "memory"}

Init ==
  /\ part \in Parts
  /\ ClockInit
  /\ Guided!TurnsInit
  /\ Confirmed!ConfirmationsInit
  /\ Rates!RatesInit
  /\ Real!TalkInit
  /\ Auth!AccountsInit
  /\ \A u \in Users :
       account[u] \in {Auth!NoAccount} \cup
         IF part = "accounts" THEN {Auth!Existing(FirstPassword)} ELSE {}
  /\ Pipeline!PipelineInit
  /\ Golden!GoldenInit
  /\ Paid!LiveInit
  /\ Home!HomeInit
  /\ IF part = "disk" THEN Disk!RuntimeInit ELSE Store!RuntimeInit
  /\ Precheck!PrecheckInit
  /\ part \notin {"home", "late"} => ~signedIn
  /\ part \notin {"lan", "front"} => rule = "off"
  /\ part # "precheck" => today = 0 /\ form = Precheck!FreshForm
  /\ Memory!MemoryInit
  /\ IF part = "cards" THEN Cards!ShellInit ELSE Shell!ShellInit
  /\ IF part = "front" THEN Fronting!LanInit ELSE Lan!LanInit
  /\ Provider!ProviderInit
  /\ Risks!RiskInit
  /\ part # "risk" => read = Risks!Empty("evidence", TRUE, FALSE, Risks!Absent)
  /\ IF part = "sharing" THEN Sharing!VideoInit ELSE Framing!VideoInit
  /\ part # "video" => tools = [t \in Framing!Tools |-> "pinned"]
  /\ Taking!IntakeInit
  /\ Cases!RecordsInit

OthersRest ==
  /\ UNCHANGED part
  /\ IF part \in Timeless THEN UNCHANGED now ELSE TRUE
  /\ IF part # "turns" THEN UNCHANGED turnsVars ELSE TRUE
  /\ IF part # "confirmations" THEN UNCHANGED confirmationsVars ELSE TRUE
  /\ IF part \notin {"tokens", "counters"} THEN UNCHANGED ratesVars ELSE TRUE
  /\ IF part # "talk" THEN UNCHANGED talkVars ELSE TRUE
  /\ IF part # "accounts" THEN UNCHANGED accountsVars ELSE TRUE
  /\ IF part # "pipeline" THEN UNCHANGED pipelineVars ELSE TRUE
  /\ IF part # "golden" THEN UNCHANGED goldenVars ELSE TRUE
  /\ IF part # "live" THEN UNCHANGED liveVars ELSE TRUE
  /\ IF part \notin {"home", "late"} THEN UNCHANGED homeVars ELSE TRUE
  /\ IF part \notin {"disk", "store"} THEN UNCHANGED runtimeVars ELSE TRUE
  /\ IF part # "precheck" THEN UNCHANGED precheckVars ELSE TRUE
  /\ IF part # "memory" THEN UNCHANGED memoryVars ELSE TRUE
  /\ IF part \notin {"shell", "cards"} THEN UNCHANGED shellVars ELSE TRUE
  /\ IF part \notin {"lan", "front"} THEN UNCHANGED lanVars ELSE TRUE
  /\ IF part # "answers" THEN UNCHANGED providerVars ELSE TRUE
  /\ IF part # "risk" THEN UNCHANGED riskVars ELSE TRUE
  /\ IF part \notin {"video", "sharing"} THEN UNCHANGED videoVars ELSE TRUE
  /\ IF part # "intake" THEN UNCHANGED intakeVars ELSE TRUE
  /\ IF part # "records" THEN UNCHANGED recordsVars ELSE TRUE

TurnsPart == part = "turns" /\ Guided!TurnsNext /\ OthersRest
ConfirmationsPart == part = "confirmations" /\ Confirmed!ConfirmationsNext /\ OthersRest
TokensPart == part = "tokens" /\ Rates!TokensNext /\ OthersRest
CountersPart == part = "counters" /\ Rates!CountersNext /\ OthersRest
TalkPart == part = "talk" /\ Real!TalkNext /\ OthersRest
AccountsPart == part = "accounts" /\ Auth!AccountsNext /\ OthersRest
PipelinePart == part = "pipeline" /\ Pipeline!PipelineNext /\ OthersRest
GoldenPart == part = "golden" /\ Golden!GoldenNext /\ OthersRest
LivePart == part = "live" /\ Paid!LiveNext /\ OthersRest
HomePart == part = "home" /\ Home!HomeNext /\ OthersRest
LatePart == part = "late" /\ Late!HomeNext /\ OthersRest
DiskPart == part = "disk" /\ Disk!RuntimeNext /\ OthersRest
StorePart == part = "store" /\ Store!RuntimeNext /\ OthersRest
PrecheckPart == part = "precheck" /\ Precheck!PrecheckNext /\ OthersRest
MemoryPart == part = "memory" /\ Memory!MemoryNext /\ OthersRest
ShellPart == part = "shell" /\ Shell!ShellNext /\ OthersRest
CardsPart == part = "cards" /\ Cards!ShellNext /\ OthersRest
LanPart == part = "lan" /\ Lan!LanNext /\ OthersRest
FrontPart == part = "front" /\ Fronting!LanNext /\ OthersRest
AnswersPart == part = "answers" /\ Provider!ProviderNext /\ OthersRest
RiskPart == part = "risk" /\ Risks!RiskNext /\ OthersRest
VideoPart == part = "video" /\ Framing!VideoNext /\ OthersRest
SharingPart == part = "sharing" /\ Sharing!VideoNext /\ OthersRest
IntakePart == part = "intake" /\ Taking!IntakeNext /\ OthersRest
RecordsPart == part = "records" /\ Cases!RecordsNext /\ OthersRest

Next ==
  \/ TurnsPart
  \/ ConfirmationsPart
  \/ TokensPart
  \/ CountersPart
  \/ TalkPart
  \/ AccountsPart
  \/ PipelinePart
  \/ GoldenPart
  \/ LivePart
  \/ HomePart
  \/ LatePart
  \/ DiskPart
  \/ StorePart
  \/ PrecheckPart
  \/ MemoryPart
  \/ ShellPart
  \/ CardsPart
  \/ LanPart
  \/ FrontPart
  \/ AnswersPart
  \/ RiskPart
  \/ VideoPart
  \/ SharingPart
  \/ IntakePart
  \/ RecordsPart

vars ==
  <<part, now, turnsVars, confirmationsVars, ratesVars, talkVars,
    accountsVars, pipelineVars, goldenVars, liveVars, homeVars,
    runtimeVars, precheckVars, memoryVars, shellVars, lanVars, providerVars, riskVars, videoVars, intakeVars, recordsVars>>

Spec == Init /\ [][Next]_vars

-----------------------------------------------------------------------------
(* Every service keeps to its types and its bounds.                        *)
ServicesTypeOK ==
  /\ part = "turns" => Guided!TurnsTypeOK
  /\ part = "confirmations" => Confirmed!ConfirmationsTypeOK
  /\ part \in {"tokens", "counters"} => Rates!RatesTypeOK
  /\ part = "talk" => Real!TalkTypeOK
  /\ part = "accounts" => Auth!AccountsTypeOK
  /\ part = "pipeline" => Pipeline!PipelineTypeOK
  /\ part = "golden" => Golden!GoldenTypeOK
  /\ part = "live" => Paid!LiveTypeOK
  /\ part = "home" => Home!HomeTypeOK
  /\ part = "late" => Late!HomeTypeOK
  /\ part = "disk" => Disk!RuntimeTypeOK
  /\ part = "store" => Store!RuntimeTypeOK
  /\ part = "precheck" => Precheck!PrecheckTypeOK
  /\ part = "memory" => Memory!MemoryTypeOK
  /\ part = "shell" => Shell!ShellTypeOK
  /\ part = "cards" => Cards!ShellTypeOK
  /\ part = "lan" => Lan!LanTypeOK
  /\ part = "front" => Fronting!LanTypeOK
  /\ part = "answers" => Provider!ProviderTypeOK
  /\ part = "risk" => Risks!RiskTypeOK
  /\ part = "video" => Framing!VideoTypeOK
  /\ part = "sharing" => Sharing!VideoTypeOK
  /\ part = "intake" => Taking!IntakeTypeOK
  /\ part = "records" => Cases!RecordsTypeOK

(* An idempotency key is answered once: by the turns of both conversations,*)
(* by the live analysis and by its follow-up; and a case is saved once at  *)
(* a revision.                                                             *)
OneAnswer ==
  /\ part = "turns" => Guided!OneAnswerPerKey /\ Guided!OneTurnPerAck
  /\ part = "talk" => Real!OneReplyPerKey
  /\ part = "live" => Paid!ResultsArePaidOnce
  /\ part = "store" => Store!OneSavePerRevision
  /\ part = "records" => Cases!SavesBuildOnEachOther

(* Whatever marks work in progress (leases, reservations, busy flags, open *)
(* stage keys, lock files, run directories) is there exactly while the     *)
(* work runs, on every way out of it.                                      *)
MarksFollowWork ==
  /\ part = "turns" => Guided!LeaseIsTheCall
  /\ part = "turns" => Guided!StoresAgree
  /\ part = "talk" => Real!TurnHoldsItsCase
  /\ part = "pipeline" => Pipeline!KeyIsWorkedOnOnce
  /\ part = "golden" => Golden!UploadsKeepTheCase
  /\ part = "live" => Paid!RunHoldsItsReservation
  /\ part = "disk" => Disk!LockIsTheCleanup
  /\ part = "disk" => Disk!RunInUseIsKept
  /\ part = "disk" => Disk!LeftoversAreOwned
  /\ part = "store" => Store!RunInUseIsKept
  /\ part = "lan" => Lan!ResultsAreRemoved
  /\ part = "front" => Fronting!FrontsEndCleanly
  /\ part = "video" => Framing!SpacesBelongToWork
  /\ part = "sharing" => Sharing!SpacesBelongToWork
  /\ part = "intake" => Taking!PdfIsClosed
  /\ part = "records" => Cases!DeletionIsMarked

(* The rate limits let through what they promise and no more, and whoever  *)
(* waits as long as told gets through; no more of an upload is held than   *)
(* its kind may have, nor more images than their case.                     *)
RatesHold ==
  /\ part \in {"tokens", "counters"} => Rates!RatesAreBounded /\ Rates!WaitingIsEnough
  /\ part = "intake" => Taking!BodyIsBounded
  /\ part = "golden" => Golden!ImagesStayWithinLimit

(* A password reset takes hold, and only the last code of an account works.*)
AccountsHold ==
  part = "accounts" => Auth!ResetTakesHold /\ Auth!LastCodeOnly

(* What is put together from several results belongs together: the stages  *)
(* of a snapshot, and what a page shows with what the server has.          *)
ResultsHangTogether ==
  /\ part = "pipeline" => Pipeline!SnapshotHangsTogether
  /\ part = "golden" => Golden!PageShowsTheTruth
  /\ part \in {"home", "late"} => Home!ShownIsStored
  /\ part \in {"home", "late"} => Home!PageKnowsTheCase
  /\ part = "memory" => Memory!IndexIsTheJobs
  /\ part = "shell" => Shell!ShownTurnsAreAnswers
  /\ part = "cards" => Cards!CardsTellTheTruth
  /\ part = "lan" => Lan!ReportedRuleWasSo
  /\ part = "video" => Framing!BundlesAreTheirVideos
  /\ part = "sharing" => Sharing!BundlesAreTheirVideos
  /\ part = "intake" => Taking!PiecesAreInTheirPage

(* A verdict follows from the facts it names, whatever is learned later.   *)
VerdictsHold ==
  /\ part = "precheck" => Precheck!VerdictIsFinal
  /\ part = "precheck" => Precheck!VerdictIsOfTheForm
  /\ part = "answers" => Provider!AcceptedIsGrounded
  /\ part = "answers" => Provider!MovedToTheOnlyPlace
  /\ part = "answers" => Provider!UsageIsPassedOn
  /\ part = "risk" => Risks!AlarmsAreGrounded
  /\ part = "risk" => Risks!LowRentNeedsCompany
  /\ part = "risk" => Risks!SilenceIsNotAbsence
  /\ part = "risk" => Risks!LostOnlyForReferences
  /\ part = "risk" => Risks!DisclosureIsUnanimous
  /\ part = "risk" => Risks!ContradictionsStand
  /\ part = "video" => Framing!DamagedBundlesAreRefused
  /\ part = "video" => Framing!OnlyPinnedToolsRun
  /\ part = "intake" => Taking!KeptFilesAreHarmless
  /\ part = "intake" => Taking!ScansHaveNoText

(* A case or a session changes only by the step that its owner took for    *)
(* just the state it was in.                                               *)
StepsAreAuthorized ==
  /\ Confirmed!CaseChangesAsConfirmed
  /\ Real!ListingIsAsOffered
  /\ Auth!SessionIsHandedOn
  /\ Memory!MemoryLifeSpec
=============================================================================
