---------------------------- MODULE MCServiceParts ----------------------------
(* The services that ServicePartsProofs proves about, each an instance of  *)
(* its module with variables of its own.  MCServices adds the others and   *)
(* sets them side by side.                                                 *)
EXTENDS ServiceClock, FiniteSets, TLC

CONSTANTS
  Null,
  \* ConversationTurns
  Turns, Keys, Texts, Warned, TheCase, PendingTtl, CompletedRetention, MaxRecords,
  AckTtl, AckRetention, MaxAcks, WindowLength, Live,
  \* CaseConfirmations
  Offers, Clicks, ConfirmationTtl, MaxConfirmations,
  \* RealConversation
  Says, SayKeys, Pages, TurnRetention, OfferTtl, MaxTurns, MaxChanges,
  \* Accounts
  Users, Passwords, Calls, MaxSessions, Codes,
  \* AnalysisPipeline
  Runs, Outputs, MaxRevision,
  \* GoldenDemo
  Tabs, CaseImageBytes, MaxReceipts,
  \* LiveAnalysis
  Posts, PostKeys, Payloads, FollowUps, Concurrency,
  \* WindowsRuntime
  Processes, Pids, Savers,
  \* values
  listing, wall, monday

Asked == [attempts |-> 1, input |-> 2, output |-> 1]
Used == {[attempts |-> 1, input |-> 1, output |-> 1], [attempts |-> 1, input |-> 3, output |-> 1]}
WindowLimits == [attempts |-> 2, input |-> 5, output |-> 3]

Candidates ==
  {[type |-> "profile", changes |-> [rent |-> 1]], [type |-> "profile", changes |-> [rent |-> 2]],
   [type |-> "timeline", changes |-> [viewing |-> monday]]}

Remarks == {[kind |-> "link", warned |-> FALSE], [kind |-> "confirm", warned |-> FALSE],
            [kind |-> "other", warned |-> TRUE]}

Commands == {<<1, 1, 1, 1>>, <<2, 1, 1, 1>>}

Required == {listing}
CloseUp == wall
Bytes == (listing :> 1) @@ (wall :> 1)

(* Small and large requests, so that each of the four limits is met.       *)
Ask(input) == [attempts |-> 1, input |-> input, output |-> 12]
StageAsks == <<Ask(20), Ask(200), Ask(200), Ask(20)>>
Requests == {StageAsks[s] : s \in DOMAIN StageAsks}
Usages == {[attempts |-> 1, input |-> 10, cached |-> 2, output |-> 5],
           [attempts |-> 1, input |-> 300, cached |-> 0, output |-> 5]}
Limits == [attempts |-> 6, input |-> 500, output |-> 50, cost |-> 10000]
ReservationIds == Posts \X DOMAIN StageAsks

VARIABLES
  turn, store, responses, acks, liveLease, windows,
  offer, confirmations, csrf, aggregate, click,
  say, turns, active, pending, warnings, realCase,
  account, sessions, codes, mail, call,
  run, revision, activeKeys, attempts, stageRuns, snapshot,
  page, sent, activeCase, uploading, receipts, analysing, followUp,
  post, running, completed, budget, liveBase, followed, follow,
  rootMarker, lockFile, dirs, proc, save, blame,
  rule, network, operator, front, port,
  records, requests, caller

turnsVars == <<turn, store, responses, acks, liveLease, windows>>
confirmationsVars == <<offer, confirmations, csrf, aggregate, click>>
talkVars == <<say, turns, active, pending, warnings, realCase>>
accountsVars == <<account, sessions, codes, mail, call>>
pipelineVars == <<run, revision, activeKeys, attempts, stageRuns, snapshot>>
goldenVars == <<page, sent, activeCase, uploading, receipts, analysing, followUp>>
liveVars == <<post, running, completed, budget, liveBase, followed, follow>>
runtimeVars == <<rootMarker, lockFile, dirs, proc, save, blame>>
lanVars == <<rule, network, operator, front, port>>
recordsVars == <<records, requests, caller>>

Guided == INSTANCE ConversationTurns
Confirmed == INSTANCE CaseConfirmations
Real == INSTANCE RealConversation WITH None <- Null
Auth == INSTANCE Accounts WITH Unset <- Null
Pipeline == INSTANCE AnalysisPipeline WITH None <- Null
Golden == INSTANCE GoldenDemo WITH Nothing <- Null
Paid == INSTANCE LiveAnalysis
Disk == INSTANCE WindowsRuntime WITH Mishaps <- {"crash", "error"}, Savers <- {"w"}
Store == INSTANCE WindowsRuntime WITH Mishaps <- {"crash"}, Processes <- {1}
Lan == INSTANCE SecureLan WITH Operators <- Tabs, Fronts <- {}, MaxOpen <- 0,
  Actions <- {"Enable", "Disable", "InstallDisabled"}, Networks <- {"Private"}
Fronting == INSTANCE SecureLan WITH Operators <- {}, Fronts <- Tabs, MaxOpen <- 1,
  Actions <- {}, Networks <- {"Private", "Public"}
Cases == INSTANCE CaseRecords WITH None <- Null,
  Owners <- Pids, CaseIds <- Pages, Callers <- Says, MaxSaves <- 2

ASSUME PartsAssumption ==
  /\ Guided!StoreOptionsAssumption
  /\ Guided!TurnsAssumption
  /\ Confirmed!ConfirmationsAssumption
  /\ Real!RealConversationAssumption
  /\ Auth!AccountsAssumption
  /\ Pipeline!PipelineAssumption
  /\ Golden!GoldenAssumption
  /\ Paid!LiveAnalysisAssumption
  /\ Disk!RuntimeAssumption
  /\ Store!RuntimeAssumption
  /\ Lan!SecureLanAssumption
  /\ Fronting!SecureLanAssumption
  /\ Cases!RecordsAssumption
===============================================================================
