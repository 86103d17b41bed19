# RentProof in TLA+

RentProof helps a tenant to check a rental before signing: the tenant opens a
case, uploads screenshots, a contract and a viewing video, and the server
extracts evidence, asks for confirmations and reports. What can go wrong in ways
that are hard to test are the parts that share state: the background queue, the
processing of uploads by workers while the owner goes on clicking, the deletion of
cases, the budgets of model calls, the stores behind a conversation, the accounts,
the pages that wait for answers, and the readers of foreign files. This directory
models these parts in TLA+, checks them with TLC and proves the most important
results with TLAPS.

Paths below are relative to the repository; `P/` stands for
`src/adapters/database/postgres/`.

## 1. Inventory

| Component | State | Operations | Interacts with | What is hard | Correct means |
|---|---|---|---|---|---|
| Job queue `src/application/jobs/persistent-job-queue.ts` | one JSON snapshot: revision and job records | enqueue, claim, renew, complete, fail, cancel, delete, purgeCase, purgeDeletedCase, get, maintenance before each of them | state store (compare-and-swap on the text), worker, processing service | callers that interleave between read and write; expiry, retry and retention by the clock; stale leases | snapshot always passes its own integrity check; a lost lease stays lost; attempts are bounded; live work is not dropped; every lease ends |
| Job worker and pump `src/application/jobs/job-worker.ts`, `src/server/real-demo/processing.ts` | lease at hand, handler in progress | claim, gate, renew, handle, complete or fail | queue, processing service | stalls past the lease, lost acknowledgements, crash | a success is reported only for settled work |
| Artifact processing `src/application/processing/`, `P/processing-repository.ts` | processing records, confirmations, published rows | enqueue, status, confirm, cancel, handle | queue, encrypted store, case | many awaits between reading a record and replacing it; duplicates; cancellation against commit | what is listed can be opened; what is asked to be confirmed is on disk; records do not go back; no stray files; quota |
| Encrypted store `src/adapters/storage/encrypted-real-artifacts.ts` | a directory per artifact | save, writePrepared, read, deleteArtifact, deleteCase | all that upload or delete | partial writes, deletion during a write | see above |
| Case lifecycle `src/application/real-demo/`, `P/real-demo-repository.ts` | cases with status, owner, revision; artifact rows; deletion requests | reserve, finalize, abandon, deleteCase, completeCaseDeletion, transferGuestCase, analysis commit | store, queue, retention worker | an upload between admission and finalization while the case is deleted, transferred or purged | a completed deletion left nothing; a kept case is readable |
| Retention worker `src/application/retention/service.ts`, `P/retention-repository.ts`, `scripts/retention-purge.mts` | claims in the database | claimNext, complete, fail, purgeExpiredMetadata | database, store; runs beside the web process | two runs at once, lost acknowledgements, crash between claim and report, a request whose case is gone | only what is expired or deleted is erased; each request is held once; deletions finish |
| Evidence budget `src/application/analysis-budget/`, `P/evidence-budget-repository.ts` | reservations and actual usage per case; event log | reserve, reconcile | analysis, OCR | limits in four dimensions, concurrency of two, replay of a bounded log | spending never exceeds the limits; no reservation leaks |
| Case analysis `src/server/real-demo/analysis.ts` | none of its own | three stages, commit against a revision | budget, OpenAI, case | the case changes between reading and committing | a snapshot belongs to the revision it was computed from |
| OCR use cases `src/application/ocr/` | confirmations | prepare, confirm | processing, budget | expiry, single use | a confirmation is used once, for the case revision it was made for |
| Guided conversation `src/application/conversation/`, `src/app/api/cases/[caseId]/conversation/turns/route.ts`, `src/server/conversation/live/` | idempotency records and case leases, acknowledgements, completed responses, the live lease and its budget window | send a turn, warn, acknowledge, answer, expire | one process, awaits between the stores | leases that expire under a slow turn, retries, bounds of the maps | one answer per key, one turn per acknowledgement, no leaked lease or reservation |
| Case commands `src/server/conversation/confirmation/`, `src/application/case-commands/` | confirmations, CSRF hashes, the case with its revision | offer, confirm, apply | the conversation, its page | stale candidates, two clicks, used although the save failed | a case changes only as confirmed, at the revision shown |
| Rate limits `src/application/conversation/security/token-bucket.ts`, `src/server/auth/rate-limit.ts` | buckets, counters | take | every route | clocks that step back, forgotten buckets, a full map | rate held over any stretch; waiting as told is enough |
| Conversation of a real case `src/app/api/real-cases/[caseId]/conversation/route.ts` | completed turns, active cases, the listing page on offer | say, fetch, save | database, listing import | the case changes between offer and confirmation; keys expire | the page that was offered, at that revision |
| Accounts and sessions `src/application/auth/`, `P/self-hosted-auth-repository.ts` | users, challenges, sessions | register, verify, sign in, rehash, rotate, reset, log out | mail, every route | a reset overtaking a sign-in or a rotation | a reset takes hold; only the last code works; a session is handed on once |
| Analysis pipeline `src/application/pipeline/` | stage runs, held stage keys, revision | analyze, claim and release a stage key, commit | model adapters | reuse, failure between claim and release | a key is worked on once; a snapshot hangs together |
| Live analysis `src/server/analysis/live/`, its route | completed runs, the running flag, the budget | four paid stages, composition | budget, model, follow-ups | failures between reserve and reconcile, retries | a key is paid for once; no reservation leaks |
| Follow-ups `src/application/follow-ups/`, `src/server/follow-ups/` | the base snapshot and its revision | register, apply | analysis, golden panel | a new analysis under a follow-up | one result per key, on the base it was made for |
| Golden demo `src/components/uploads/golden-upload-panel.tsx`, `src/server/uploads/` | page state, receipts, replay keys, the running upload | upload, reload, analyse, follow up | one server, several pages | lost answers, reloads, two pages | a page shows only what is so |
| Real case page `src/components/real-demo/` | session, case, receipts, cards | upload, poll, confirm, cancel, delete, transfer, analyse | every route of the real case | late answers, stale closures, a second tab, CSRF rotation | no receipt, card or link of another case |
| Conversation page `src/components/conversation/` | draft, turns, warning, card | send, acknowledge, confirm | turn and confirmation routes | lost and late answers while the tenant types | each turn shown is one answer to that text |
| Subsidy precheck `src/domain/subsidy/`, its page and route | the form, the verdict shown | change, send, answer | sources with a date | missing answers, edits while waiting | a verdict is final, and of the form |
| Case state repositories `P/repositories.ts` | rows of cases, deletion requests | create, load, save at a revision, ask for deletion | the retention worker | two loads of one revision, a deletion between load and save | no save is lost; a case that is to be deleted stays marked |
| Windows runtime `src/adapters/storage/windows-runtime/`, `json-state/` | root marker, lock file, run directories, case files | start, clean up, save, stop | processes on one disk | crash during clean-up, stop under a save | a run in use is kept; leftovers can be removed; one save per revision |
| LAN front `scripts/lan-firewall.mts`, `scripts/run-secure-lan.mts` | the firewall rule, result files, the proxy and its child | enable, disable, verify; start, drain, stop | an elevated helper, Next | time limits, late helpers, signals | a reported rule was so; nothing is left behind |
| OpenAI adapters `src/adapters/openai/` | none | validate an answer, move quotations, report usage | budget callers | offsets that miss, usage of refused answers | an accepted quotation stands where it says |
| Signals `src/domain/fraud/`, `src/domain/evidence/`, the live composition | none | compare, evaluate, compose | four model answers | what is missing, ambiguous or contradictory | no alarm without grounds, silence is not absence |
| Video preparation `src/adapters/ingestion/ffmpeg/`, `src/application/video/` | private directories | inspect, plan, extract, pack, unpack | FFmpeg, encrypted store | failures between frames, limits of the bundle | a bundle holds the planned frames; no directory is left |
| Upload intake `src/application/uploads/`, `src/adapters/documents/pdfjs/`, `src/adapters/ingestion/sharp/` | the body so far, the PDF.js session | guard, read, extract, inspect, sanitize | PDF.js, sharp | errors and deadlines while a session is open | bounded bodies, closed sessions, harmless files |
| Costs, official rules, history, offline demo, scripts | none | | | | not modelled, see section 9 |

The full list with its status is `components` in PROJECT.json; the hazards, each
at the line where it bites, are under `hazards`.

The parts meet like this. A request of the owner writes the database, then the
files, then the queue, in an order that differs from operation to operation; no
transaction spans two of them. The workers run in the web process and learn of a
cancellation or deletion only when they ask: by the gate, by the lease, by the
guards in the `where` clauses of their final transaction. The retention worker is
another process, started by the host; it shares the database and the directory
tree with the web process and nothing else.

## 2. Plan

| Step | Modules | State |
|---|---|---|
| 1 | `LeasedJobs`, `JobQueueOps`, `JobQueue`, `JobQueueCas`: the queue, abstract, atomic and with its compare-and-swap | done, its safety proved |
| 2 | `ArtifactProcessing`: uploads, workers and deletion over `LeasedJobs` | done, its safety proved |
| 3 | `CaseRetention`: the life and end of cases, the retention worker | done, its safety proved |
| 4 | `EvidenceBudgetOps`, `EvidenceBudget`, `CaseAnalysis`: limits, reservations and the replayed log; the analysis that reserves, calls and commits against a revision | done, its safety proved |
| 5 | `ConversationStores`, `ConversationTurns`, `CaseConfirmations`, `RateLimits`, `RealConversation`: the conversations, their limits and what they change | done, safety proved but for the limits |
| 6 | `Accounts`, `AnalysisPipeline`, `LiveAnalysis`, `GoldenDemo`, `WindowsRuntime`, `MemoryJobQueue`, `SecureLan`, `CaseRecords` | done, safety proved (section 7 says which) |
| 7 | the pages: `RealHome`, `ConversationShell`, `SubsidyPrecheck` | done, checked |
| 8 | readers and composers of data: `UploadIntake`, `VideoFrames`, `ProviderAnswers`, `RiskSignals` | done, checked |
| proofs | a module of theorems for each of 1 to 4, `ServicePartsProofs` and `ServicesProofs` for 5, 6 and the resources of 8 | done |

Abstract specifications worth stating: the life of a leased job (`LeasedJobs`,
stated and implemented by both queues and used by the processing); a budget that is spent
once (`EvidenceBudget`, implemented by the replayed log).

## 3. Modules

| Module | Models |
|---|---|
| `LeasedJobs` | The promise of the queue: a job is new, queued, running under one lease, settled or gone; attempts only grow; only the holder of the current lease renews or settles a running job. Not a translation of code: the abstract specification. |
| `JobQueueOps` | The operations of the queue as operators on a snapshot, one per method of `PersistentBoundedJobQueue`, each with the maintenance that precedes it (`Maintained`), and `SnapshotIntegrity`, the check the code makes on every read. |
| `JobQueue` | Variables `records` (the snapshot), `issued`, `leases` (identifiers drawn), `claims` (what workers were told), `clock`. One action per method. `Nows` lets the clock that an operation reads lag by up to `Skew`. |
| `JobQueueCas` | The loop `#mutate` around the same operators: `Begin` reads the text, `Commit` writes it if it is unchanged, `Retry` reads again, up to `MaxContentionRetries`; `Crash` forgets a call. |
| `ArtifactProcessing` | One case, its uploads, owner requests (`call[p]`) and workers (`run[w]`) step by step: every await on the database, the queue or the files is an action. The queue is at the level of `LeasedJobs`. |
| `CaseRetention` | Guests, accounts, their cases, synchronous uploads, deletion and transfer by the owner, and runs of the retention worker. Each database transaction is one action, each removal of files another. |
| `EvidenceBudgetOps` | `reserve` and `reconcile` of `InMemoryEvidenceBudgetRepository` as operators on the totals of one case. |
| `EvidenceBudget` | What the budget promises: one action to reserve and one to reconcile with what the provider really used. `spent` and `overrun` are history, for no variable of the code knows what an unreported call has used. |
| `CaseAnalysis` | One case, the analyses and OCR calls that pay from its budget, and the owner who changes it meanwhile. It extends `EvidenceBudget` with the log of `P/evidence-budget-repository.ts`, over which `Replay` folds the same operators; the actions decide by the log alone and are checked to take only steps of `BudgetSpec`. |
| `MemoryJobQueue` | `BoundedJobQueue` over a Map and its key index, with a clock that may step back. |
| `ServiceClock` | The clock of one process: how far time goes, by how much a reading may lag. |
| `ConversationStores` | The idempotency store, the acknowledgements and the live budget window as operators on their maps. |
| `ConversationTurns` | The guided turn route and the live handler: what runs between two awaits is one action. |
| `CaseConfirmations` | Offers, the confirmations that are kept, the click, the compare and swap of the case. |
| `RateLimits` | Token buckets of actors and sources in whole units; the fixed windows of the account routes. |
| `RealConversation` | The turn route of a real case, the listing page it offers and saves. |
| `Accounts` | The account service over its tables: one action per transaction, calls with what they read before. |
| `AnalysisPipeline` | `StageOrchestrator` with its repository, keys and snapshot. |
| `LiveAnalysis` | The analysis route, the service's four reserved stages over `EvidenceBudgetOps`, the follow-up to its result. |
| `GoldenDemo` | The upload panel in two pages against the upload service, the fixture analysis and its follow-up. |
| `RealHome` | The page of a real case with its session, cards and requests in flight, against what the server has. |
| `ConversationShell` | The page of the guided conversation: composer and confirmation cards. |
| `SubsidyPrecheck` | The decision of the precheck, and the page that sends a form and shows a verdict. |
| `WindowsRuntime` | Processes that start, clean, serve and stop beside each other on one root, and saves of a case. |
| `SecureLan` | The firewall operator with its elevated helper, and the HTTPS front with its child. |
| `ProviderAnswers` | What the OpenAI adapters accept, move and report of an answer. |
| `RiskSignals` | Claims against evidence, FRS-001 to FRS-010, the disclosure, as the live analysis composes them; an interaction is read fact by fact. |
| `VideoFrames` | The gate on FFmpeg, inspection, plan, extraction, the bundle and its reading. |
| `UploadIntake` | One upload: headers, stream guard, PDF.js, text, sanitizer, until it is kept, queued or refused. |
| `CaseRecords` | The repositories of case states and of deletion requests: callers that load and save, an owner who asks for deletion. |
| `Maps` | `Put`, an entry into a map. |
| `MCServiceParts` | The instances of these modules that are proved about, each with variables of its own. |
| `MCServices` | `MCServiceParts` and the other instances, twenty-five parts side by side; a behaviour is one of them. |
| `JobQueueOpsProofs` | Lemmas about the operators of `JobQueueOps`: what each does to a snapshot that is in order. |
| `JobQueueProofs`, `JobQueueCasProofs` | Theorems about `JobQueue`: its invariant, its refinement of `LeasedJobs`, that of `MemoryJobQueue`; and about `JobQueueCas`: its refinement of `JobQueue`. |
| `CaseAnalysisProofs` | Theorems about `EvidenceBudget`, and about `CaseAnalysis` with its refinement of the budget. |
| `CaseRetentionProofs`, `ArtifactProcessingProofs` | Theorems about `CaseRetention` and `ArtifactProcessing`, the latter with its refinement of `LeasedJobs`. |
| `ServicePartsProofs`, `ServicesProofs` | Theorems about the parts of `services`: the invariants of the modules, part by part; then what they say of every step of `MCServices`. |
| `MC*` | Instances for TLC. |

How the state corresponds to the code:

* `JobQueue.records` is the map of job records of the snapshot; the timestamps are
  small numbers; `type`, `priority` and `expectedRevision` of the request are kept.
  Idempotency keys and work are compared as the code compares them.
* `ArtifactProcessing.rec` is the row of `artifact_processing`, `row` the published
  row of `case_artifacts`, `image` the rows of other uploads, `files` the directory
  of the artifact with the content of its derivative and text, so that a stale
  content is told from a fresh one. `job` is the queue. `call[p]` and `run[w]` hold
  the program counter and the local copy of the record: the copies are what makes
  the races.
* `CaseRetention.purge` is `guest_identities.purge_state` (`gone`: the row is
  deleted), `cases`, `rows`, `requests` are the tables, `dirs` the directories on
  disk. `workers[r].tried` is `attemptedClaimIds`. `forsaken` and `uploads[a].lost`
  are history: a request whose run could not report, an upload whose own clean-up
  was cut short.

* `CaseAnalysis.events` is the JSON array of `case_evidence_budgets`, `budget` an
  engine that never restarts, kept only to compare. `call[c]` is the local state of
  one `runRealCaseAnalysis` or `recognize`: the revision and rows it read, the stage,
  and what the provider used. `snapshot` is `active_snapshot_id` with the evidence it
  was computed from. Tokens are counted in thousands and costs in units of 200 000
  nano-USD, in which the rates of `constants.ts` are 10, 1 and 60.

* The service modules name their variables after the maps and React states of the
  code (`activeKeys`, `completed`, `pending`, `polled`, `cards`, ...). A call that is
  under way is a record with a `pc` (or `at`) and what it has read so far, which is
  what makes the races. `blame`, `unsure`, `lost`, `mishap`, `granted`, `history` and the
  like are history: whose fault a later state is, as the properties need to say.

Operators marked `FAULT` are wrong versions of the operator below them. Nothing
uses them; section 6 says which property fails when one takes the place of the
right one.

### Abstractions

* The queue of `ArtifactProcessing` has no clock: a dead worker's lease may run out
  at any time (`DeadLeaseRunsOut`), a live worker's by a stall (`Stall`), at most
  `MaxStalls` times. A renewal by the 20 s timer is subsumed: it only prevents an
  expiry that the model may choose not to take, and a lost lease stays lost
  (proved, `LeaseIsLostForGood`). A settled job may be forgotten at any time, but
  while a worker is still busy with it this is a stall as well: the code forgets it
  24 hours after it was settled (`persistent-job-queue.ts:508`). When that was a free
  choice, the proof of `CandidateIsOnDisk` failed for a good reason, and TLC found the
  behaviour on an instance with two workers, two requests and two job ids: a job is
  cancelled and forgotten, its artifact queued again, and the first worker writes over
  what the second has put up for confirmation.
* The policy hash of a confirmation is constant; its identifier is part of the
  state it confirms; its expiry is a choice when it is used. `status()` changes
  nothing and appears as `Reported`.
* An error may be thrown before or after the effect of a step (a lost
  acknowledgement), at most `MaxFaults` times.
* `CaseRetention` starts with its cases; creating one meets nothing else. The
  queue is not part of it: `purgeJobs` is an error or not, like the removal of the
  files it precedes. Requests to delete an account are left out: no wired code
  files one or sets `internal_users.status` to `deletion_pending`. An error of
  `claimNext` or of `purgeExpiredMetadata` ends the run like its death does.
* `CaseAnalysis` has one case, whose owner stays the same. The transaction that locks
  the budget row, replays, enters and writes is one action. A failed read of files,
  of the case or a failed commit of a snapshot ends an analysis like a crash of its
  caller does and is not repeated; database errors are modelled where they leave a
  reservation behind. Callers reserve one attempt (the adapters are built with
  `maxRetries: 0`), which the theorems assume (`OneAttemptAssumption`). A listing offer
  does not expire by time: an owner who waits too long simply does not confirm.
* One process with in-memory stores does between two awaits what one action does. A
  key, an opaque token or a digest is a model value.
* `RealHome`: requests are authenticated when they are handled; the draft's text and
  the acknowledgement are chosen when the form is sent; polls that find nothing new
  are left out; one card request is in flight at a time; picking a file anew makes a
  new upload. `late` starts where the first instance cannot reach within its bounds:
  a video whose card outlives its case.
* `WindowsRuntime`: paths, volumes and reparse points pass; one crash or error per
  behaviour; a torn control file counts as absent; the rollback of a start is one step.
* `SubsidyPrecheck`: the questions that a run leaves alone may have been answered
  before; the server's date is fixed per behaviour.
* `ConversationShell`: the server is its answers per key; acknowledgements are bound to
  a text, confirmations used once. Composer and cards are two instances.
* `SecureLan`: the PowerShell scripts are known from their calls; time limits fire at
  any moment; configuration, certificate and data root pass or fail by choice.
* `ProviderAnswers`: one entity per answer over a small book of two pages; an error of
  the SDK before an answer is one case. `RiskSignals`: claim identifiers are distinct,
  a behaviour reads one of three topics, values that no rule tells apart are one cue.
* `VideoFrames`: a byte is named by its picture and a digest is the bytes; the header
  has a fixed size; widths and heights are left out; a tool that is replaced between
  the check and the run is outside of the model. `UploadIntake`: one upload, text is a
  sequence of letters and blanks; Unicode normalization is left out; quota and the
  existence of the case are in `CaseRetention` and `ArtifactProcessing`.
* `CaseRecords`: a state is the list of the works that callers have put into it; a
  statement, and the transaction of a deletion, is one action; ids are random and not
  drawn twice.
* The encryption envelope, hashes and paths are not modelled; a read that finds
  other content than its record names is an error, as in the code.

## 4. Runs

| Run | Instance | Distinct states | Result |
|---|---|---|---|
| `queue_safety` | 2 job ids, 3 requests of 2 cases, 2 workers, 2 running, 2 attempts, clock to 3, 2 claims | 221 k | six properties hold |
| `queue_live` | 2 jobs of one case, 1 worker, clock skew 1, clock to 2 | 49 k | every lease ends |
| `queue_cas` | 2 callers, 3 job ids, 2 places, 3 keys, a key with conflicting work, 2 tries | 90 k | the loop implements the atomic queue |
| `processing_races` | a scanned contract under 2 ids, 2 job ids, 2 owner requests, 1 worker, 1 other upload | 1 398 k | three properties hold |
| `processing_stalls` | 1 upload, 2 workers, one stall, one error | 470 k | three properties hold |
| `processing_mishaps` | a video and an image for a quota of one, one error, one crash, fairness | 146 k | three properties hold |
| `deletion_leaves_job` | a video, 2 owner requests | small | finding 1 |
| `retention_safety` | a guest's case, an upload, an account, 2 worker runs, 2 errors, 1 crash | 857 k | five properties hold |
| `retention_live` | a guest's and an account's case, 1 worker, an error, a crash, fairness | 121 k | conditional liveness holds |
| `retention_blocked` | the same, without the crash | small | finding 2 |
| `analysis_budget` | an analysis, 2 OCR calls, 4 attempts, 216 k/40 k tokens, 4 uploads, a listing page, one error or crash | 259 k | eight properties hold |
| `services` | 25 parts, see below | 727 k | eight properties hold |

Why the bounds are enough to be interesting. Two attempts have a retry and a last
attempt. Two job ids of one case exercise the rule of one running job per case;
the third request belongs to a case that outranks it. A clock to 3 with a lease,
a retry delay and a retention of 1 each lets a job be claimed, expire, be
reclaimed and be dropped. A queue with two places and three ids is full. Two
callers are all that a compare-and-swap can tell apart: what a call sees is
whether the text has changed. Two ids for one upload are a duplicate and its
original; with two requests in flight every pair of enqueue, confirm, cancel and
deletion overlaps. Two workers are a stalled holder and its successor. Two job ids
let a job be cancelled, forgotten and followed by another one. In
`CaseRetention` the two runs of the worker overlap on one case; two errors are one
of the web process and one of the worker, or a failure and a failed report of it.
In `CaseAnalysis` an
analysis has three calls and two OCR calls make a fifth, so the limit on attempts
is met, as are the limit on two concurrent calls and both limits on tokens; calls
use next to nothing, all of their reservation, or more than any reservation; two
uploads and a page decide whether the set is complete, and one of each kind
arrives late. The code's limits are constants, larger by a factor; the theorems
hold for all.

In `services` a behaviour is one of twenty-five parts; the parts share no variable, so
one run checks them side by side and a property is the conjunction of what each part
promises. Two of everything that competes: two keys, two codes, two pages, two
processes, two payloads; three turns, requests or posts, so that a retry meets an
original and a third one that came between; a time to live of one tick on a clock of
two (rate limits: four), so that every lease, acknowledgement and offer can expire
under its holder; maps of one or two places, so that each is full once. The four
stages of a live analysis and a budget that each of its limits can stop; two runs of
the pipeline over two inputs and one move of the revision; one case, two files and
one more visit of a page, with its answers lost, late and reordered; two processes
with two process identifiers that are given again, and one crash or error between any
two steps; for the readers a dozen videos and three dozen bodies, chosen so that each
limit is met exactly, missed by one, and each check fails once. `Late`, `Sharing`,
`Store`, `Cards` and `Fronting` are second instances of a module whose first one would
not reach that case within the time.

Symmetry is used only where no liveness property is checked. In `services` it permutes
two values which serve as the keys, clicks, codes, pages and outputs of the parts;
nothing but equality tells them apart, and no `CHOOSE` ranges over them.

## 5. Properties

Queue: `NeverCorrupt` (the code's own check never fails on what the code wrote),
`QueuedHasAttemptsLeft`, `LostLeaseStaysLost` (stale and replayed leases are
refused for ever), `LiveWorkIsKept`, `LifeSpec` (refinement of `LeasedJobs`),
`EveryLeaseEnds`; for the loop `ContentionMeansProgress` (a
caller gives up only because others succeeded) and `AtomicSpec` (refinement of
`JobQueue`).

Processing: `PublishedIsReadable`, `CandidateIsOnDisk`, `NoStrayFiles`, `QuotaHolds`
(the three transactions that sum the bytes each miss some of them, yet together
they hold the limit), `RecordsOnlyMoveOn`, `SucceededMeansSettled`, `QueueSpec` (the
service uses the queue as `LeasedJobs` wants to be used) and `UploadIsAnswered`.
Three exceptions are stated in the properties and are facts about the code:
`lostCreate`, where `enqueue` removes the files of a record whose creation
committed although it was reported as an error; stalls between the last assertion
of the lease and the write of a derivative; and stray files after a crash or an
error.

Retention: `CompletedMeansErased`, `LiveCaseIsReadable`, `AccountCasesAreKept`,
`OneRunPerRequest`, `DeletionFinishes`. The exceptions are uploads whose own
clean-up was cut short (`lost`), requests whose run died or could not report
(`forsaken`: no query looks for a request that is `processing`), and requests
without a case.

Analysis and budget: `BudgetSpec` (the log and its replay implement `EvidenceBudget`),
`LogReplays` (no log that was written is refused later), `SpendingIsCovered` (real
spending, not what was entered), `LogHasRoom` (a paid call can always be
reconciled), `ReservationsAreCalls` (no way out of a caller but a
crash or a database error leaks a reservation), `SnapshotIsOfItsCase` (the revision
that is read first protects the reads after it) and `SnapshotKnowsPublished`. What
the last one does not say is a fact about the code: only uploads that a worker
publishes withdraw the snapshot; see section 8.

Services. Each property of the run names the promises of the parts:

| Property | Promises |
|---|---|
| `OneAnswer` | `OneAnswerPerKey`, `OneTurnPerAck`, `OneReplyPerKey`, `ResultsArePaidOnce`, `OneSavePerRevision`, `SavesBuildOnEachOther` |
| `MarksFollowWork` | `LeaseIsTheCall`, `StoresAgree`, `TurnHoldsItsCase`, `KeyIsWorkedOnOnce`, `UploadsKeepTheCase`, `RunHoldsItsReservation`, `LockIsTheCleanup`, `RunInUseIsKept`, `LeftoversAreOwned`, `ResultsAreRemoved`, `FrontsEndCleanly`, `SpacesBelongToWork`, `PdfIsClosed`, `DeletionIsMarked` |
| `RatesHold` | `RatesAreBounded`, `WaitingIsEnough`, `BodyIsBounded`, `ImagesStayWithinLimit` |
| `AccountsHold` | `ResetTakesHold`, `LastCodeOnly` |
| `ResultsHangTogether` | `SnapshotHangsTogether`, `PageShowsTheTruth`, `ShownIsStored`, `PageKnowsTheCase`, `IndexIsTheJobs`, `ShownTurnsAreAnswers`, `CardsTellTheTruth`, `ReportedRuleWasSo`, `BundlesAreTheirVideos`, `PiecesAreInTheirPage` |
| `VerdictsHold` | `VerdictIsFinal`, `VerdictIsOfTheForm`, `AcceptedIsGrounded`, `MovedToTheOnlyPlace`, `UsageIsPassedOn`, `AlarmsAreGrounded`, `LowRentNeedsCompany`, `SilenceIsNotAbsence`, `LostOnlyForReferences`, `DisclosureIsUnanimous`, `ContradictionsStand`, `DamagedBundlesAreRefused`, `OnlyPinnedToolsRun`, `KeptFilesAreHarmless`, `ScansHaveNoText` |
| `StepsAreAuthorized` | `CaseChangesAsConfirmed`, `ListingIsAsOffered`, `SessionIsHandedOn`, `MemoryLifeSpec` (refinement of `LeasedJobs`) |

Each promise is stated and commented in its module. The exceptions they make are
facts about the code, and most of them are in section 8: a turn that outlives its
60 s lease, a sign-in that had proved the old password before a reset, a throw
between the claim and the release of a stage key, a crash while a lock or a
directory is held, answers that were lost.

Each component has one `TypeOK`.

### Fairness

`queue_live` assumes that maintenance runs again and again and that time goes
on. When no worker is busy the pump claims every second; while one is, its timer
renews the lease every 20 seconds, and the first renewal of a lost lease
maintains as well (`job-worker.ts`); after a crash the next process pumps.
Nobody owes a result.

`processing_mishaps` assumes the pump, the next step of a worker that has begun
(its awaits return: OCR and ffmpeg have deadlines of their own) and the expiry
of a dead worker's lease, which `queue_live` shows. Owners owe nothing.

`retention_live` assumes that the host starts the worker again and again
(docs/IMPLEMENTATION_PLAN.md leaves the schedule to the host) and that a process
in the middle of something goes on. It is one weak fairness per process, not per
action: nothing favours success over failure, the bounds on errors do.

## 6. Faults that the properties find

| Run | Property | Operator | Wrong version |
|---|---|---|---|
| queue_safety | TypeOK | `Leased` | fields swapped |
| queue_safety | NeverCorrupt | `IdleCase` | a second job of the case is started |
| queue_safety | QueuedHasAttemptsLeft | `Failed` | off by one at the limit |
| queue_safety | LostLeaseStaysLost | `HoldsLease` | the job is compared, not the lease |
| queue_safety | LiveWorkIsKept | `RetentionOver` | by age, whatever the state |
| queue_safety | LifeSpec | `AfterCancel` | settled jobs are cancelled too |
| queue_live | EveryLeaseEnds | `LeaseExpired` | only for jobs with attempts left |
| queue_cas | ContentionMeansProgress | `Unchanged` | a write of maintenance alone counts as a conflict |
| queue_cas | AtomicSpec | `Unchanged` | the write does not compare |
| processing_races | CandidateIsOnDisk | `Withdraw` | cancel ignores the state it read |
| processing_races | NoStrayFiles | `Unwound` | a losing duplicate keeps its files |
| processing_races | RecordsOnlyMoveOn | `CanReplace` | the expected state is not compared |
| processing_stalls | TypeOK | `LeaseRunsOut` | off by one at the limit |
| processing_stalls | SucceededMeansSettled | `CommitCandidate` | the handler ignores a refused commit |
| processing_stalls | QueueSpec | `Holds` | any lease of the job will do |
| processing_mishaps | PublishedIsReadable | `MarkFailed` | the handler fails a record that was published |
| processing_mishaps | QuotaHolds | `Fits` | pending videos are not counted |
| processing_mishaps | UploadIsAnswered | `LeaseRunsOut` | only for jobs with attempts left |
| retention_safety | TypeOK | `Takes` | rows before files |
| retention_safety | CompletedMeansErased | `UndoSave` | the directory stays |
| retention_safety | LiveCaseIsReadable | `CasesOf` | cases a guest has transferred are purged with it |
| retention_safety | AccountCasesAreKept | `CanTransfer` | the purge state is not asked |
| retention_safety | OneRunPerRequest | `Waiting` | requests in progress are claimed |
| retention_live | DeletionFinishes | `Waiting` | failed requests are not claimed again |
| analysis_budget | TypeOK | `GoesOn` | one stage too many |
| analysis_budget | BudgetSpec | `Replay` | a restart forgets open reservations |
| analysis_budget | LogReplays | `CanEnter` | what the engine refused is entered too |
| analysis_budget | SpendingIsCovered | `CanReserve` | unknown usage counts as none |
| analysis_budget | LogHasRoom | `FitsLimits` | attempts are not limited |
| analysis_budget | ReservationsAreCalls | `Send` | an error of the provider skips the reconciliation |
| analysis_budget | SnapshotIsOfItsCase | `ReadArtifacts` | the revision is read with the uploads, not before |
| analysis_budget | SnapshotKnowsPublished | `Publish` | the snapshot stays |
| services | ServicesTypeOK | `TakeAllows` (RateLimits) | one request too many passes |
| services | MarksFollowWork | `HoldsLease` (ConversationStores) | any pending operation with the key will do |
| services | OneAnswer | `AckHolds` (ConversationStores) | an acknowledgement is used again |
| services | MarksFollowWork | `CanAcquire` (ConversationTurns) | the live lease is taken whether or not it is free |
| services | MarksFollowWork | `Leave` (RealConversation) | the record of a failed turn stays |
| services | StepsAreAuthorized | `SavesAtRevision` (RealConversation) | the page is saved to the case as it is |
| services | StepsAreAuthorized | `CanApply` (CaseConfirmations) | the candidate is applied to whatever the case has become |
| services | RatesHold | `ReadBucket` (RateLimits) | time already counted refills again |
| services | RatesHold | `RetryToken` (RateLimits) | the wait of one of the two buckets |
| services | AccountsHold | `CodesOf` (Accounts) | earlier codes stay valid |
| services | AccountsHold | `Revoked` (Accounts) | a reset ends no other session |
| services | StepsAreAuthorized | `CanRotate` (Accounts) | a session is replaced whatever became of it |
| services | MarksFollowWork | `KeysAfter` (AnalysisPipeline) | the key of a failed stage stays taken |
| services | ResultsHangTogether | `StageKey` (AnalysisPipeline) | the key forgets what the stage depends on |
| services | OneAnswer | `SameBinding` (LiveAnalysis) | a key answers whatever it is sent with |
| services | OneAnswer | `Remembers` (LiveAnalysis) | a failed run is remembered like a completed one |
| services | MarksFollowWork | `AfterFailure` (LiveAnalysis) | a failed call is not reconciled |
| services | MarksFollowWork | `Acquires` (GoldenDemo) | two uploads of the case at a time |
| services | ResultsHangTogether | `Registered` (GoldenDemo) | every analysis drops the follow-up |
| services | ResultsHangTogether | `Mounted` (RealHome) | what arrives after the card is gone counts |
| services | ResultsHangTogether | `EndsCard` (RealHome) | the card ends with the click |
| services | MarksFollowWork | `TakeLock` (WindowsRuntime) | the lock file is opened even if it exists |
| services | MarksFollowWork | `Expires` (WindowsRuntime) | a run in use expires |
| services | OneAnswer | `Compare` (WindowsRuntime) | the text is compared outside of the key's lock |
| services | OneAnswer | `Matches` (CaseRecords) | the update does not compare the revision |
| services | MarksFollowWork | `StatusKept` (CaseRecords) | a save writes the status that was loaded |
| services | VerdictsHold | `Overall` (SubsidyPrecheck) | missing answers hide what needs review |
| services | VerdictsHold | `Change` (SubsidyPrecheck) | the verdict stays when the form changes |
| services | ResultsHangTogether | `IndexKept` (MemoryJobQueue) | the key of a forgotten job stays |
| services | ResultsHangTogether | `NewKey` (ConversationShell) | one key for all requests of the page |
| services | ResultsHangTogether | `StatusAfter` (ConversationShell) | every answer counts as a success |
| services | ResultsHangTogether | `Passes` (SecureLan) | the exit status of the helper is taken for the result |
| services | MarksFollowWork | `Drained` (SecureLan) | the child is stopped while requests are open |
| services | VerdictsHold | `ExactPageExcerpt` (ProviderAnswers) | a quotation is looked for anywhere behind its start |
| services | VerdictsHold | `Movable` (ProviderAnswers) | the first of several occurrences is taken |
| services | VerdictsHold | `UsageOfError` (ProviderAnswers) | no error carries the usage |
| services | VerdictsHold | `CompareClaim` (RiskSignals) | support is looked for first |
| services | VerdictsHold | `AboutPayment` (RiskSignals) | an unanswered question counts as settled |
| services | VerdictsHold | `Frs009` (RiskSignals) | a low rent is a signal by itself |
| services | VerdictsHold | `Disclosed` (RiskSignals) | the first answer is taken |
| services | ResultsHangTogether | `Plan` (VideoFrames) | a frame at the very end is planned as well |
| services | ResultsHangTogether | `Pack` (VideoFrames) | every frame starts at the first byte |
| services | VerdictsHold | `Unpack` (VideoFrames) | what lies behind the last frame is not looked at |
| services | VerdictsHold | `ToolsArePinned` (VideoFrames) | only one of the tools is compared with its pin |
| services | MarksFollowWork | `FreeSpaces` (VideoFrames) | all work shares one directory |
| services | MarksFollowWork | `CloseSpace` (VideoFrames) | the directory is removed only after success |
| services | ResultsHangTogether | `BuildPage` (UploadIntake) | the blank between two pieces is not counted |
| services | RatesHold | `WithinLimit` (UploadIntake) | the limit is looked at after the whole body |
| services | VerdictsHold | `ActiveIn` (UploadIntake) | pages are not looked at for active content |
| services | VerdictsHold | `NoText` (UploadIntake) | one page without text makes a scan |
| services | VerdictsHold | `CleanCopy` (UploadIntake) | what sharp wrote is taken as it is |
| services | MarksFollowWork | `ClosePdf` (UploadIntake) | a failed reading leaves its session open |

## 7. Proofs

Each theorem holds for every value of the constants that satisfies the named
assumptions, and TLC evaluates these assumptions on every run. They say what the code
fixes (limits are naturals, a queue allows an attempt, uploads are of the two types,
the calls of an analysis are among the budget's) and what a model needs (`Null` is none
of the values, job identifiers, cases and callers are finitely many, bounds are
naturals). Three deserve a look. `OneAttemptAssumption`: callers reserve one attempt,
as the adapters do with `maxRetries: 0`. `LogAssumption`: the log has room for twice the
limit on attempts; the code has 64 and 16. `IsFiniteSet(Jobs)` in
`ArtifactProcessing` has a use: an artifact's content is named by the lease under which
it was made, and there are finitely many names.

A safety property is seldom inductive, so each component has an invariant that is, and
one lemma per action that it is kept. What follows says what these invariants add and why.

**Queue.** `QueueInvariant` (`Spec => []QueueInv`). `NeverCorrupt` alone is not
inductive: that a lease is only held by a running job says nothing of the attempts the
next expiry compares, and that a fresh lease differs from the old ones needs the
counter of the leases to be above every lease in use. `QueueInv` says of each record
that it is well-typed, has attempts left while it waits, and is coherent in its lease
and completion (`RecordOK`); of the snapshot that it is finite, within its limits, with
unique keys and one running job per case (`SnapshotOK`); and of the claims that they
carry leases already drawn. All operations but two only remove records or move them
towards their end, which is `Subsides`, and one lemma (`SubsidesOK`) shows that whatever
subsides keeps the snapshot in order; enqueue and claim have lemmas of their own. These
lemmas are about the operators alone and stand in `JobQueueOpsProofs`, for both queues
use them. `TypeCorrect`, `QueueNeverCorrupt` and `QueueAttemptsLeft` follow.
`LeaseIsLostForGood` adds the step lemma: a running record of the next state either was
running under the same lease before or carries a lease that was never drawn.

`QueueImplementsLife` (`Spec => LifeSpec`) maps each step to one step of
`LeasedJobs` or to a stutter. An operation first maintains every job and then
moves one, so `LeasedJobs` has joint moves; the lemmas show what maintenance, a
result, a cancellation, a removal, enqueue and claim do to one job each.
`QueueKeepsLiveWork` (`Spec => LiveWorkIsKept`) reads the removals alone.

**Compare-and-swap.** `CasImplementsQueue` (`Spec => AtomicSpec`). A call computes from
the text it read and writes later; the atomic queue does both at once, so a `Commit`
must be one operation on the snapshot of now. `CallOK` carries what makes it so: as long
as the text is the one that the call read, what it computed is the outcome of its
command, on the stored snapshot, at some reading of a clock that lags (`Outcome`). Any
write changes the revision, so the others' outcomes are void and have to be computed
anew, and `Retry` does that. `ContentionIsPaid` counts: each failed try of a call lies
between two writes since its start (`TriesPaid`). `CasNeverCorrupt` is the integrity of the
snapshot under every interleaving.

**Budget.** `BudgetInvariant` (`BudgetSpec => []BudgetInv`). `SpendingIsCovered` is not
inductive: a reservation compares the totals entered with the limits, not the spending,
so `KnownSpending` says that the two agree as long as no usage is unknown, and once one
is, nothing is reserved any more and every reconciliation replaces a reservation by at
most as much (`WithinReservation`: a call within its reservation is within its cost).
`LogHasRoom` needs `AttemptsCountOperations`: with one attempt per request, each open
reservation has one event and one attempt, each settled one two events and at least one
attempt. `SpendingCovered` and `LogKeepsRoom` follow. The limit on attempts being 16, a
log has at most 32 of its 64 events.

**Analysis.** `LogImplementsBudget` (`Spec => BudgetSpec`) says that an engine which
starts anew for every request and replays the log is as good as one that never stops.
What a replay computes for any log would be an induction over data, out of reach; but
only logs that were written matter, and these grow by an entry at a time. `ReplaysTo(log, b)`
says that the replay has a value and that it is `b`; it holds of the empty log, an
accepted entry carries it on (`LongerLogReplays`), and so it holds in every reachable
state with the state of the engine (`LogOK`). Through the refinement the theorems about
the budget hold for the log (`CaseSpendingCovered`, `CaseLogHasRoom`).
`NoReservationLeaks` needs that a call that is paying has the very reservation that its
stage asked for (`MoneyOK`), which also gives `PaidCallIsEntered`: what was paid can be
entered, whatever happens in between. `SnapshotsAreOfTheirCase` needs `HasRead`: what an
analysis has read is what the case still holds, as long as the revision it read first
has not moved.

**Retention.** `RetentionInvariant` (`Spec => []RetentionInv`). The properties speak of
the outcome of clean-ups that take several transactions and a removal of files. The
invariant says at each of these steps what has been done so far: that a case which is
asked to be deleted has no row that an upload could still finalize, that once its files
are swept only uploads in flight bring one back, which they remove themselves, that a
guest stays claimed, so that its cases cannot be transferred any more, and that the
request that a run holds is in no state that another run claims (`OneHolder`).
`CompletedDeletionsErase`, `LiveCasesAreReadable`, `AccountCasesStay` and
`RequestsHaveOneRun` follow.

**Processing.** Six invariants, each inductive given those above it (`StrayInv` and
`QuotaInv` given the first two):

* `TypeInv`: the types, and what local variables a worker or a request has at each step.
  A content is named by the lease under which it was made, so that the type of a
  directory bounds the leases: they are at most the attempts of all jobs
  (`LeasesCounted`, an injection of the leases into pairs of a job and an attempt).
* `LifeInv`: the copy of a record that a worker or a request has read differs from the
  record in what changes only; a job belongs to one artifact, an artifact to one job;
  an artifact that is being created is nobody else's; a worker that is about to report
  success has seen the record settled. `SucceededJobsAreSettled` and `RecordsMoveOn`
  need no more.
* `StrayInv`: who will remove the files that nobody needs (`FilesAreNotLeftBehind`).
* `AloneInv` (`WorkersAreAlone`): unless a worker stalls, each busy worker holds the
  lease of its job or the job is settled, and two are never busy with one job.
* `DiskInv`: what a worker has prepared, a request has written, a row has published or the
  owner is asked to confirm is on the disk, as long as the case stands. A worker may lose
  its race at every step, and the files are safe because the record it compares with when it
  commits is one that only it could have made (`PublishedStaysReadable`,
  `CandidatesAreOnDisk`).
* `QuotaInv`: as long as the case is open, the bytes of the videos that are pending or
  published and those of the images fit its quota (`QuotaIsKept`). A step that creates no
  record makes no video count that did not count before (`VideosShrink`), as a commit takes a
  pending video to a published one; a video or an image that comes to count was found to
  fit by a transaction that saw all others (`VideosGrow`, `ImagesMove`).
  The sum is a fold of the community modules, a `CHOOSE` of a function that satisfies its
  recursion. That there is one, that it is the only one, and that it does not matter in
  which order the elements are taken, are inductions over the subsets of a finite set; the
  library's induction theorems take a predicate, so `SubsetInduction` states the principle
  for a set of subsets, and is proved from the well-foundedness of the strict subset.

`QueueIsUsedAsPromised` (`Spec => QueueSpec`) is the refinement of `LeasedJobs`: only the
holder of the current lease renews or settles, and an attempt ends once.

**In-memory queue.** `MemoryImplementsLife` (`MemorySpec => MemoryLifeSpec`) rests on the
proof for the stored queue: the operations of both are those of `JobQueueOps`, so each
step of the in-memory queue is a step of the stored one, at the clock as it stands, or
moves the clock (`MemoryStep`). What it adds is its index, and `MemoryIndexIsTheJobs` says
that the index has the keys of the jobs that are kept and no others.

**Services.** `MCServiceParts` and `MCServices` are composed of parts of which one runs;
`StepIsOfThePart` says that a step is of that part, and that the variables of the others
rest. `ServicePartsProofs` has the inductive invariants of the larger parts for themselves,
`ServicesProofs` those of the smaller ones, and then what all of them say of the composition.
Most invariants link what a call remembers with what has become of it since.

* Accounts (`ResetsTakeHold`, `ReverifyHandsOn`). A call writes later what it proved when
  it began, so `AccountsInv` speaks of the calls under way: what they proved is the password
  that holds, or a reset has overtaken them (`ProofsHold`); the session that they are about to
  replace is their user's (`TokensAreTheirs`) and is locked by nobody else (`LocksAreAlone`).
* Case records (`RecordsAreSafe`): what a caller has loaded is an earlier part of what is
  stored, and all of it while the revision is the same (`HeldIsStored`); marks follow the
  open requests (`RequestsFollow`).
* Runs and saves on the disk. `StoreInv` of the saves: one saver writes at a time, and
  what it writes comes after what is stored (`OneWrites`, `RevisionsGrow`). `RunsInv`, `LockInv` and `SavedIsKept` of the processes: who
  has made, marked or locked what, which is needed to see that what a clean-up removes is
  of a run that has ended, also if it examined the directory long before (`RunsAreOwned`).
* Live analysis (`LiveIsSafe`): one run is at work (`OneRuns`), every stage up to its own has
  been paid (`StagesArePaid`), and what a key answers is the post that completed it
  (`CompletedAreTheirs`).
* Conversation of a real case (`TalkIsSafe`, `ListingsAreAsOffered`): one turn of a case is
  at work (`OneTalks`), an unfinished record is of a turn at work (`OpenTurnsAreAtWork`), what
  a turn is on offer is of a later revision than what was added (`OffersAreShown`).
* Guided conversation (`GuidedIsSafe`), the largest one. `GuidedInv` says that two turns
  which both work under one key lie so far apart that the record of the first was forgotten
  (`AnewIsApart`), and that an acknowledgement which a turn has used is consumed for all others
  (`AcksAreSpent`). `MarksInv` says that work that has not outlived its lease has it, and for
  itself (`WorkIsLeased`), that a response is kept as long as its record (`ResponsesAreKept`), and that
  the open reservation of the window is that of the one call that is paying
  (`MoneyIsTheCalls`), also when a new window begins meanwhile.
* Confirmations (`ChangesAreAsConfirmed`): a confirmation is issued once and used by one
  click (`IssuedOnce`, `UsedByTheirClick`, `ClicksAreApart`).
* Pipeline (`PipelineIsSafe`): a stored run is of its key's stage and inputs (`StoredAsKeyed`), a
  key is held by the run that works under it (`KeysAreHeld`), and what a run has so far is a
  chain in which each result was made from the one before (`SnapshotIsChained`).
* The demo's uploads, the intake of documents, the firewall's operators, the front, the work
  directories of videos: `GoldenInv`, `IntakeInv`, `LanInv`, `FrontsInv`, `SpacesInv`, all of them
  about who will undo what has been begun.

`AnswersAreOne`, `MarksAreOfTheWork`, `ResetsTakeHold` and `StepsAreTheOwners` state four of
the run's properties for all instances of the constants that satisfy `PartsAssumption` and
`ServicesAssumption`; the latter two say what the assumptions of the modules say, and that
`Null` is none of the values it stands beside.

**Only model-checked.** All liveness (`EveryLeaseEnds`, `UploadIsAnswered`,
`DeletionFinishes`), which is out of the prover's reach. Of `services`: `ServicesTypeOK`,
which the invariants above contain only in part; `RatesHold`, whose limits are sums over
what was granted or is stored; `VerdictsHold`, which is about what is computed from data,
often by folds, so that its proof would be an induction over data; and
`ResultsHangTogether` as a whole: `SnapshotHangsTogether` and `IndexIsTheJobs` are proved,
the bundle of a video and the pieces of a page are folds, and the pages are checked only.

## 8. Findings

1. `deletion_leaves_job`. docs/VIDEO_INGESTION_P1.md:17 says that the deletion of a
   case removes its queue references. An upload that has created its record when
   the case is deleted enqueues its job after the purge
   (`src/application/processing/service.ts:104`), and the job stays. It does no harm
   beyond its reference: the worker's gate refuses it, and retention drops it.
2. `retention_blocked`. docs/DECISIONS.md:500 (D-058) says that a failed deletion is
   tried again until it is done. `claimNext` answers "nothing to do" after it
   failed a request that lost its case (`P/retention-repository.ts:92`); the run
   ends (`src/application/retention/service.ts:33`), and so does every later run,
   since the failed request stays the oldest. A request loses its case when a guest
   deletes a case, the removal of its files fails, and the guest expires: the
   guest is purged first, with the case. Younger requests then wait for ever.

### Divergences and errors without a run

Met while the code was read and modelled; the models have them as exceptions of their
properties, as inputs, or leave them out. Queue and cases:

* docs/JOB_QUEUE_DESIGN.md:39 names the owner-bound `purgeCase` for the deletion of a
  case, the code calls `purgeDeletedCase`, which asks for no owner. docs/DECISIONS.md:506
  (D-059) counts the 21 days of a tombstone from the request, the code from its
  completion. docs/SYSTEM_ARCHITECTURE.md:506 has a result turn stale when what it
  depends on changes, while `finalizeArtifact` and `saveListingUrlSource`
  (`P/real-demo-repository.ts:176`, `:443`) leave the case `ready` with its old snapshot,
  unlike the worker's `finalize` (`P/processing-repository.ts:187`).
* docs/PRODUCT_SPEC.md:80 allows 12 viewing sources and 15 frames of a video, and
  `src/application/real-demo/service.ts:269` counts sources; the analysis passes every
  frame and picture as an image (`src/server/real-demo/analysis.ts:275`), and its input
  allows 15 (`src/adapters/openai/analysis/contracts.ts:72`). A video of 30 s and one
  picture therefore fail inside the second stage, after the first was paid, as an
  unknown usage, and so does every retry.
* A text contract with one page without text is kept (`extract-text.ts:138` refuses only
  if every page is empty), but the third stage demands text on each page
  (`src/adapters/openai/analysis/contracts.ts:86`): the analysis of such a case fails after two paid stages.
* docs/PRODUCT_SPEC.md:100, docs/DECISIONS.md:354 and docs/TECHNICAL_DESIGN.md:339 allow
  300,000 characters of extracted text; `src/application/real-demo/service.ts:85` applies
  the limit to the serialized JSON with its segments and locators, so contracts of well
  under half of that are refused after their extraction.

Conversations and pages:

* docs/PRODUCT_SPEC.md:62 and docs/DECISIONS.md:622: a retry with the same key and payload
  never calls the model nor takes quota again. The pending lease is 60 s
  (`in-memory-store.ts:84`) and no deadline stops the model: a retry after it calls the
  model a second time, and the first turn ends stale. The rate limit of the turn route
  is taken before the key is looked up (`turns/route.ts:65`).
* The live conversation binds a confirmation to the revision when it is issued, not to
  the one the model was shown (`src/server/conversation/live/runtime.ts:37`). Of a real
  case, a listing page that was saved without its answer arriving stays on offer, and
  the retry is told it is stale.
* `ConversationShell`: a success clears the draft although it was edited while waiting;
  a lost answer of a confirmation shows 「確認失敗；案件內容沒有變更。」
  (`conversation-shell.tsx:127`) although the case was changed.
* `GoldenDemo`: a lost answer shows that nothing was added, while the server has it; each
  attempt has a new key and meets 409 `UPLOAD_REPLAYED` (`synthetic-upload-service.ts:103`)
  until the server starts again.
* `RealHome`: a URL and an image submitted together can make two listings, and the case
  can never be analysed; retries after a lost answer of an upload, a transfer or a
  deletion are refused and shown as failures although they were done; a page left open
  over a change of session creates the case for another owner than it shows; a URL that
  is confirmed while a file is processed makes the result stale.
* `SubsidyPrecheck`: the fields stay enabled while a request is under way, and its
  answer is then shown for the changed form (`VerdictIsOfTheForm` names this case).
* `Accounts`: a sign-in or a rotation whose check of the password came before a completed
  reset still makes a session, and may write its rehash over the new password
  (`ResetTakesHold` names these calls).

Analysis:

* docs/SYSTEM_ARCHITECTURE.md:541 has a running stage key return the existing run; the
  pipeline fails with `STAGE_ALREADY_RUNNING` (`orchestrator.ts:159`). A throw between the
  claim and the release keeps the key for good.
* A failure of the provider is entered as unknown usage and closes the budget of the
  live analysis until a restart, also if the adapter knew the usage
  (`src/adapters/openai/analysis/adapter.ts:474`), while the route says `retryable: true`.
* A signal may gather more references than the 8 that a snapshot takes
  (`src/server/analysis/live/contracts.ts:74`): the analysis is then lost after four paid
  stages (`LostOnlyForReferences`). FRS-008 says "not detected" when nothing could be
  compared (`live-analysis-service.ts:373`), against docs/FRAUD_RISK_SIGNALS.md.
* Cues of payment and claims of an image are bound only to their artifact, and a
  quotation's end may lie beyond its text (`adapter.ts:371`).

Files and the machine:

* `inspect-scanned-pdf.ts:103`: when the document's clean-up throws, the session is not
  destroyed (`extract-text.ts` does destroy it).
* Fifteen frames of up to 5 MiB meet a bundle of 25 MiB (`frame-bundle.ts:81`): such a
  video fails after all of its extraction, each time. The duration is rounded up
  (`windows-ffmpeg-adapters.ts:227`), so that a last planned frame may lie behind the
  stream. A crash leaves the directory of the work, and no start removes it.
* A crash during the clean-up, or an error after the lock file was opened
  (`run-lifecycle.ts:170`), leaves the lock, and every later start is refused with
  `RUNTIME_CLEANUP_LOCK_BUSY`, where docs/SYSTEM_ARCHITECTURE.md:144 has the next start
  remove what a crash left. A save under way at a formal stop can make the run directory
  again without its marker.
* An elevated helper whose operator gave up after 70 s may still switch the firewall
  rule on (`lan-firewall.mts:168`); a front that fails to listen leaves its child
  running, which may answer a later front in place of that front's own.

## 9. Not modelled

The history and the report (projections of what is stored), the official-rule
evaluators and exact decimals (pure functions that no route calls, or only the fixed
report of the demo), request schemas, wording and sensitive-text patterns, HTTP
headers and CSRF checks as such, environment parsing, path, volume and ACL checks,
mail providers, password hashing, the construction of OpenAI requests, what FFmpeg,
sharp and PDF.js do inside, the offline demo's hash check, and the build and
evaluation scripts: I/O, text or third-party code without state that a checker could
explore. Wired to nothing, and left out: the pending-confirmation repository of
`src/application/conversation/confirmation/`, the PostgreSQL case-state repository,
`src/application/fraud/evaluate-candidates.ts`. Left out though they hold state: base64
attachments of a turn, focus references, and the guest tokens of the database.

Two hazards of the list have no property. Two workers may write the derivative of one
artifact at a time, because the lease is asserted before the write
(`src/application/processing/service.ts:279`); and files of an expired guest's upload
may outlive its purge (`P/retention-repository.ts:142`). Three more are outside of what
the models can say: a handler that never returns holds its case and the pump
(`src/application/jobs/job-worker.ts:68`), since no deadline stops it; a process that
dies between saving files and queueing the job leaves them to nobody
(`src/application/processing/service.ts:92`); and a processing record belongs to the
session that made it (`src/application/processing/contracts.ts:77`), where the model has
one session.
