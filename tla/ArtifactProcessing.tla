-------------------------- MODULE ArtifactProcessing --------------------------
(***************************************************************************)
(* How a scanned contract or a viewing video of one rental case becomes a  *)
(* published artifact: the requests of the owner                           *)
(* (src/application/processing/service.ts), the background workers         *)
(* (src/application/jobs/job-worker.ts, src/server/real-demo/              *)
(* processing.ts), the rows they share (src/adapters/database/postgres/    *)
(* processing-repository.ts, real-demo-repository.ts), the encrypted files *)
(* (src/adapters/storage/encrypted-real-artifacts.ts) and the deletion of  *)
(* the case.  Every await that touches shared state is a step of its own,  *)
(* every database transaction and every file operation is one step.        *)
(*                                                                         *)
(* The job queue appears as LeasedJobs promises it, which JobQueue is      *)
(* shown to implement: a job, its phase, its lease.  Time is abstracted:   *)
(* the lease of a dead worker may run out at any moment, that of a live    *)
(* one when it stalls; a confirmation may have expired when it is used.    *)
(*                                                                         *)
(* Any step may throw, before or after its effect, at most MaxFaults       *)
(* times; the process may crash at most MaxCrashes times.                  *)
(*                                                                         *)
(* A definition marked FAULT is a wrong version of the one below it, which *)
(* nothing uses; the README says which property fails with it.             *)
(***************************************************************************)
EXTENDS Naturals, FiniteSets, FiniteSetsExt

CONSTANTS
  Artifacts,    \* artifact ids the id generator may produce
  Jobs,         \* job ids
  Workers,      \* the background workers of the process
  Clients,      \* requests of the owner that may be in flight together
  Uploads,      \* upload commands: [key, type, bytes]
  Images,       \* ids of other artifacts that are uploaded synchronously
  ImageBytes,   \* the size of each of them
  MaxAttempts,  \* maxAttempts of the queue
  MaxUploads,   \* processing records a case may have (16)
  Quota,        \* bytes of images and videos a case may have (400 MiB)
  MaxCrashes, MaxStalls, MaxFaults,     \* bounds
  Null

ASSUME ProcessingAssumption ==
  /\ IsFiniteSet(Jobs)
  /\ {MaxAttempts, MaxUploads} \subseteq Nat \ {0}
  /\ {Quota, ImageBytes} \subseteq Nat
  /\ \A u \in Uploads : /\ u.type \in {"contract.ocr", "evidence.video_frames"}
                        /\ u.bytes \in Nat
  /\ Null \notin Nat \cup Artifacts \cup Jobs

VARIABLES
  rentalCase,  \* [status, revision] of the case
  session,     \* is the owner's session still valid?
  rec,         \* artifact_processing: the record of each artifact, or Null
  row,         \* case_artifacts: what is published for it, or Null
  image,       \* case_artifacts: state of each synchronous upload
  files,       \* the directory of each artifact, or Null
  drawn,       \* artifact ids drawn so far
  lostCreate,  \* was an error reported of a create() that had committed?
  job, leases, \* the queue: a record per job id, leases granted so far
  run,         \* run[w]: where worker w is in runOnce()
  call,        \* call[p]: where request p is
  crashes, stalls, faults

tables == <<rentalCase, session, rec, row, image>>
queue  == <<job, leases>>
mishaps == <<crashes, stalls, faults>>
history == <<drawn, lostCreate>>
vars == <<tables, files, history, queue, run, call, mishaps>>

(* The calls of a request that have not returned and its local variables.  *)
NoCall == [pc |-> "idle", artifact |-> Null, copy |-> Null]
Off    == [pc |-> "off", stage |-> 0, job |-> Null, lease |-> Null,
           artifact |-> Null, copy |-> Null, retry |-> FALSE]

(***************************************************************************)
(* The repository.                                                         *)
(***************************************************************************)
Open == rentalCase.status = "open"

(* authorize(): a live session of the owner and a case that is not being   *)
(* deleted.                                                                *)
Authorized == session /\ Open

IsVideo(r) == r.upload.type = "evidence.video_frames"

NewRecord(upload, revision) ==
  [upload |-> upload, expectedRevision |-> revision, state |-> "queued",
   derivative |-> Null, jobId |-> Null]

InUse == {a \in Artifacts : rec[a] # Null}

PendingVideos ==
  {a \in InUse : IsVideo(rec[a]) /\ rec[a].state \in {"queued", "requires_confirmation"}}

PublishedVideos == {a \in InUse : row[a] # Null /\ IsVideo(rec[a])}

StoredImages == {i \in Images : image[i] \in {"quarantined", "available"}}

Bytes(as) == SumFunction([a \in as |-> rec[a].upload.bytes])

PendingVideoBytes == Bytes(PendingVideos)

RowBytes == Bytes(PublishedVideos) + ImageBytes * Cardinality(StoredImages)

(* FAULT: the quota counts what is published, not what is pending.         *)
FitsPublished(bytes) == RowBytes + bytes <= Quota

(* Room for more image or video bytes, pending videos included.            *)
Fits(bytes) == PendingVideoBytes + RowBytes + bytes <= Quota

(* create(), in one transaction that locks the case.                       *)
CanCreate(r) ==
  /\ Authorized
  /\ r.expectedRevision = rentalCase.revision
  /\ Cardinality(InUse) < MaxUploads
  /\ IsVideo(r) => Fits(r.upload.bytes)
  /\ \A a \in InUse : rec[a].upload.key # r.upload.key

(* FAULT: the state the record was read in is not compared again.          *)
CanReplaceBlindly(a, r, expected) ==
  /\ Authorized
  /\ r.state # "cancelled" => r.expectedRevision = rentalCase.revision
  /\ rec[a] # Null

(* replace(r, expected): the record is still in the state it was read in,  *)
(* and the case at the record's revision unless the record is cancelled.   *)
CanReplace(a, r, expected) ==
  /\ Authorized
  /\ r.state # "cancelled" => r.expectedRevision = rentalCase.revision
  /\ rec[a] # Null
  /\ rec[a].state = expected

(* finalize(): a confirmed contract that awaits confirmation, a prepared   *)
(* video that is queued, at the revision of its record, and within quota.  *)
CanFinalize(a, pages) ==
  /\ Authorized
  /\ rec[a] # Null
  /\ rec[a].expectedRevision = rentalCase.revision
  /\ IF IsVideo(rec[a])
       THEN rec[a].state = "queued" /\ RowBytes + rec[a].upload.bytes <= Quota
       ELSE rec[a].state = "requires_confirmation" /\ rec[a].derivative = pages

Publish(a, stored) ==
  /\ row' = [row EXCEPT ![a] = stored]
  /\ rec' = [rec EXCEPT ![a].state = "available"]
  /\ rentalCase' = [rentalCase EXCEPT !.revision = @ + 1]
  /\ UNCHANGED <<session, image>>

Replace(a, r) ==
  /\ rec' = [rec EXCEPT ![a] = r]
  /\ UNCHANGED <<rentalCase, session, row, image>>

(***************************************************************************)
(* The files.                                                              *)
(***************************************************************************)
EmptyDirectory == [derivative |-> Null, text |-> Null]

RemoveFiles(a) == files' = [files EXCEPT ![a] = Null]

(***************************************************************************)
(* The queue, one job of the case running at a time.                       *)
(***************************************************************************)
NewJob == [artifact |-> Null, state |-> "new", attempt |-> 0, lease |-> Null]

IsTerminal(j) == job[j].state \in {"succeeded", "failed", "cancelled"}

JobOf(a) == {j \in Jobs : job[j].state # "new" /\ job[j].artifact = a}

Settle(j, state) ==
  job' = [job EXCEPT ![j].state = state, ![j].lease = Null]

Drop(gone) ==
  job' = [j \in Jobs |-> IF j \in gone THEN [NewJob EXCEPT !.state = "gone"]
                                       ELSE job[j]]

(* FAULT: any worker of a running job may report for it.                   *)
HoldsAnyLease(w) == job[run[w].job].state = "running"

Holds(w) == /\ job[run[w].job].state = "running"
            /\ job[run[w].job].lease = run[w].lease

Init ==
  /\ rentalCase = [status |-> "open", revision |-> 0]
  /\ session = TRUE
  /\ rec = [a \in Artifacts |-> Null]
  /\ row = [a \in Artifacts |-> Null]
  /\ image = [i \in Images |-> "none"]
  /\ files = [a \in Artifacts |-> Null]
  /\ drawn = {} /\ lostCreate = FALSE
  /\ job = [j \in Jobs |-> NewJob]
  /\ leases = 0
  /\ run = [w \in Workers |-> Off]
  /\ call = [p \in Clients |-> NoCall]
  /\ crashes = 0 /\ stalls = 0 /\ faults = 0

(***************************************************************************)
(* Workers.  To(w, ...) is where runOnce() goes on; a fault after the      *)
(* effect of the step takes it to the catch clause instead.                *)
(***************************************************************************)
Failing(r, retryable) == [r EXCEPT !.pc = "fail", !.retry = retryable]

(* Where an exception of the step at r.pc takes the worker.                *)
Caught(r) ==
  CASE r.pc \in {"claim", "fail"}                   -> Off
    [] r.pc = "gate" /\ r.stage \in {0, 1}          -> Failing(r, FALSE)
    [] r.pc \in {"find", "complete"}                -> Failing(r, TRUE)
    [] r.pc = "renew" /\ r.stage = 1                -> Failing(r, TRUE)
    [] r.pc \in {"mark", "wipe"}                    -> Failing(r, FALSE)
    [] OTHER                                        -> [r EXCEPT !.pc = "mark"]

To(w, r) ==
  \/ run' = [run EXCEPT ![w] = r] /\ UNCHANGED mishaps
  \/ /\ faults < MaxFaults /\ faults' = faults + 1
     /\ run' = [run EXCEPT ![w] = Caught(run[w])]
     /\ UNCHANGED <<crashes, stalls>>

At(w, pc) == run[w].pc = pc

(* pump(): both workers run once; nothing starts before both have ended.   *)
Pump ==
  /\ \A w \in Workers : At(w, "off")
  /\ run' = [w \in Workers |-> [Off EXCEPT !.pc = "claim"]]
  /\ UNCHANGED <<tables, files, history, queue, call, mishaps>>

Claim(w) ==
  /\ At(w, "claim")
  /\ \A j \in Jobs : job[j].state # "running"
  /\ \E j \in Jobs :
       /\ job[j].state = "queued"
       /\ leases' = leases + 1
       /\ job' = [job EXCEPT ![j].state = "running", ![j].attempt = @ + 1,
                             ![j].lease = leases']
       /\ To(w, [Off EXCEPT !.pc = "gate", !.job = j, !.lease = leases',
                            !.artifact = job[j].artifact])
  /\ UNCHANGED <<tables, files, history, call>>

ClaimNothing(w) ==
  /\ At(w, "claim")
  /\ \/ \E j \in Jobs : job[j].state = "running"
     \/ \A j \in Jobs : job[j].state # "queued"
  /\ To(w, Off)
  /\ UNCHANGED <<tables, files, history, queue, call>>

(* The execution gate: the owner may still see the record, and the case is *)
(* at the revision of the upload unless it is published already.           *)
GateOpens(a) ==
  /\ Authorized
  /\ rec[a] # Null
  /\ rec[a].state = "available" \/ rec[a].expectedRevision = rentalCase.revision

AfterGate(r) ==
  IF r.stage = 0 THEN [r EXCEPT !.pc = "find"]
  ELSE [r EXCEPT !.pc = CASE r.stage = 1 -> "read"
                          [] r.stage = 2 -> "write"
                          [] r.stage = 3 -> "commit"]

Denied(r) == IF r.stage \in {0, 1} THEN Failing(r, FALSE)
                                   ELSE [r EXCEPT !.pc = "mark"]

Gate(w) ==
  /\ At(w, "gate")
  /\ To(w, IF GateOpens(run[w].artifact) THEN AfterGate(run[w]) ELSE Denied(run[w]))
  /\ UNCHANGED <<tables, files, history, queue, call>>

(* assertActive() renews the lease and then asks the gate again.           *)
Renew(w) ==
  /\ At(w, "renew")
  /\ To(w, IF Holds(w) THEN [run[w] EXCEPT !.pc = "gate"] ELSE Denied(run[w]))
  /\ UNCHANGED <<tables, files, history, queue, call>>

AssertActive(r, stage) == [r EXCEPT !.pc = "renew", !.stage = stage]

(* handle(): the copy of the record read here is used until the end.       *)
FindWork(w) ==
  LET r == run[w]  a == r.artifact
  IN  /\ At(w, "find")
      /\ To(w, IF rec[a] = Null THEN Failing(r, FALSE)
               ELSE IF ~Authorized THEN Failing(r, TRUE)
               ELSE IF rec[a].state \in {"available", "requires_confirmation"}
                 THEN [r EXCEPT !.pc = "complete"]
               ELSE IF rec[a].state # "queued" THEN Failing(r, FALSE)
               ELSE AssertActive([r EXCEPT !.copy = rec[a]], 1))
      /\ UNCHANGED <<tables, files, history, queue, call>>

(* The original is read and prepared: OCR of a scanned contract, frames of *)
(* a video.  Both may refuse the file.                                     *)
ReadOriginal(w) ==
  /\ At(w, "read")
  /\ \/ files[run[w].artifact] # Null /\ To(w, AssertActive(run[w], 2))
     \/ To(w, [run[w] EXCEPT !.pc = "mark"])
  /\ UNCHANGED <<tables, files, history, queue, call>>

(* Two OCR runs of one file may read it differently, frames are the same:  *)
(* contents are named after the lease of the OCR run, lease ids start at 1.*)
Frames == 0

Prepared(w) == IF IsVideo(run[w].copy) THEN Frames ELSE run[w].lease

(* writePrepared() refuses a directory that is not there.                  *)
WriteDerivative(w) ==
  LET a == run[w].artifact
  IN  /\ At(w, "write")
      /\ IF files[a] # Null
           THEN /\ files' = [files EXCEPT ![a].derivative = Prepared(w)]
                /\ To(w, AssertActive(run[w], 3))
           ELSE /\ UNCHANGED files
                /\ To(w, [run[w] EXCEPT !.pc = "mark"])
      /\ UNCHANGED <<tables, history, queue, call>>

(* FAULT: a refusal of the candidate is taken for a success.               *)
CommitCandidateAnyway(w) ==
  LET a == run[w].artifact
      r == [run[w].copy EXCEPT !.state = "requires_confirmation",
                               !.derivative = Prepared(w)]
  IN  /\ At(w, "commit") /\ ~IsVideo(run[w].copy)
      /\ IF CanReplace(a, r, "queued") THEN Replace(a, r) ELSE UNCHANGED tables
      /\ To(w, [run[w] EXCEPT !.pc = "complete"])
      /\ UNCHANGED <<files, history, queue, call>>

(* A contract now awaits confirmation, a video is published.               *)
CommitCandidate(w) ==
  LET a == run[w].artifact
      r == [run[w].copy EXCEPT !.state = "requires_confirmation",
                               !.derivative = Prepared(w)]
  IN  /\ At(w, "commit") /\ ~IsVideo(run[w].copy)
      /\ IF CanReplace(a, r, "queued")
           THEN Replace(a, r) /\ To(w, [run[w] EXCEPT !.pc = "complete"])
           ELSE UNCHANGED tables /\ To(w, [run[w] EXCEPT !.pc = "mark"])
      /\ UNCHANGED <<files, history, queue, call>>

CommitVideo(w) ==
  LET a == run[w].artifact
  IN  /\ At(w, "commit") /\ IsVideo(run[w].copy)
      /\ IF CanFinalize(a, Null)
           THEN /\ Publish(a, [derivative |-> Frames, text |-> Null])
                /\ To(w, [run[w] EXCEPT !.pc = "complete"])
           ELSE UNCHANGED tables /\ To(w, [run[w] EXCEPT !.pc = "mark"])
      /\ UNCHANGED <<files, history, queue, call>>

(* FAULT: the files go although the record was not to be touched.          *)
MarkFailedAnyway(w) ==
  LET a == run[w].artifact
      r == [run[w].copy EXCEPT !.state = "failed"]
  IN  /\ At(w, "mark")
      /\ IF CanReplace(a, r, "queued") THEN Replace(a, r) ELSE UNCHANGED tables
      /\ To(w, [run[w] EXCEPT !.pc = "wipe"])
      /\ UNCHANGED <<files, history, queue, call>>

(* The catch clause of handle(): the record fails and its files go, unless *)
(* the record must not be touched any more.                                *)
MarkFailed(w) ==
  LET a == run[w].artifact
      r == [run[w].copy EXCEPT !.state = "failed"]
  IN  /\ At(w, "mark")
      /\ IF CanReplace(a, r, "queued")
           THEN Replace(a, r) /\ To(w, [run[w] EXCEPT !.pc = "wipe"])
           ELSE UNCHANGED tables /\ To(w, Failing(run[w], FALSE))
      /\ UNCHANGED <<files, history, queue, call>>

WipeFailed(w) ==
  /\ At(w, "wipe")
  /\ RemoveFiles(run[w].artifact)
  /\ To(w, Failing(run[w], FALSE))
  /\ UNCHANGED <<tables, history, queue, call>>

Complete(w) ==
  /\ At(w, "complete")
  /\ IF Holds(w) THEN Settle(run[w].job, "succeeded") /\ To(w, Off)
                 ELSE UNCHANGED job /\ To(w, Failing(run[w], TRUE))
  /\ UNCHANGED <<tables, files, history, leases, call>>

Fail(w) ==
  LET j == run[w].job
  IN  /\ At(w, "fail")
      /\ IF Holds(w)
           THEN Settle(j, IF run[w].retry /\ job[j].attempt < MaxAttempts
                            THEN "queued" ELSE "failed")
           ELSE UNCHANGED job
      /\ To(w, Off)
      /\ UNCHANGED <<tables, files, history, leases, call>>

(* The step throws and has no effect.                                      *)
WorkerThrows(w) ==
  /\ ~At(w, "off")
  /\ faults < MaxFaults /\ faults' = faults + 1
  /\ run' = [run EXCEPT ![w] = Caught(run[w])]
  /\ UNCHANGED <<tables, files, history, queue, call, crashes, stalls>>

Work(w) ==
  \/ Claim(w) \/ ClaimNothing(w) \/ Gate(w) \/ FindWork(w) \/ Renew(w)
  \/ ReadOriginal(w) \/ WriteDerivative(w) \/ CommitCandidate(w) \/ CommitVideo(w)
  \/ MarkFailed(w) \/ WipeFailed(w) \/ Complete(w) \/ Fail(w)

(***************************************************************************)
(* Requests of the owner.  Goes(p, ...) is where the request goes on,      *)
(* Ends(p) that it returns or throws.                                      *)
(***************************************************************************)
On(p, pc) == call[p].pc = pc

(* FAULT: the files of an upload that is refused stay.                     *)
UnwoundKeepingFiles(c) == NoCall

(* Where an exception takes the request: enqueue() removes the files of an *)
(* upload it could not create.                                             *)
Unwound(c) == IF c.pc \in {"save", "create"} THEN [c EXCEPT !.pc = "discard"]
                                             ELSE NoCall

Goes(p, c) ==
  \/ call' = [call EXCEPT ![p] = c] /\ UNCHANGED mishaps
  \/ /\ faults < MaxFaults /\ faults' = faults + 1
     /\ call' = [call EXCEPT ![p] = Unwound(call[p])]
     /\ UNCHANGED <<crashes, stalls>>

Ends(p) == Goes(p, NoCall)

RequestThrows(p) ==
  /\ ~On(p, "idle")
  /\ faults < MaxFaults /\ faults' = faults + 1
  /\ call' = [call EXCEPT ![p] = Unwound(call[p])]
  /\ UNCHANGED <<tables, files, history, queue, run, crashes, stalls>>

(* enqueue(): authorize, and look for a record of the same key.            *)
Enqueue(p, upload) ==
  /\ On(p, "idle") /\ Authorized
  /\ Goes(p, [NoCall EXCEPT !.pc   = "findByKey",
                            !.copy = NewRecord(upload, rentalCase.revision)])
  /\ UNCHANGED <<tables, files, history, queue, run>>

(* enqueueRecord() goes on only with a queued record without a job.        *)
FindByKey(p) ==
  LET upload == call[p].copy.upload
      same == {a \in InUse : rec[a].upload.key = upload.key}
  IN  /\ On(p, "findByKey")
      /\ \/ ~Authorized /\ Ends(p) /\ UNCHANGED drawn
         \/ \E a \in same :
              /\ Authorized
              /\ IF /\ rec[a].upload = upload
                    /\ rec[a].jobId = Null /\ rec[a].state = "queued"
                   THEN Goes(p, [pc |-> "submit", artifact |-> a, copy |-> rec[a]])
                   ELSE Ends(p)
              /\ UNCHANGED drawn
         \/ /\ Authorized /\ same = {}
            /\ \E a \in Artifacts \ drawn :
                 /\ drawn' = drawn \cup {a}
                 /\ Goes(p, [call[p] EXCEPT !.pc = "save", !.artifact = a])
      /\ UNCHANGED <<tables, files, lostCreate, queue, run>>

Save(p) ==
  /\ On(p, "save")
  /\ files' = [files EXCEPT ![call[p].artifact] = EmptyDirectory]
  /\ Goes(p, [call[p] EXCEPT !.pc = "create"])
  /\ UNCHANGED <<tables, history, queue, run>>

Create(p) ==
  LET r == call[p].copy
  IN  /\ On(p, "create")
      /\ IF CanCreate(r)
           THEN /\ Replace(call[p].artifact, r)
                /\ Goes(p, [call[p] EXCEPT !.pc = "submit"])
                /\ lostCreate' = (lostCreate \/ call'[p].pc = "discard")
           ELSE UNCHANGED <<tables, lostCreate>> /\ Goes(p, Unwound(call[p]))
      /\ UNCHANGED <<files, drawn, queue, run>>

Discard(p) ==
  /\ On(p, "discard")
  /\ RemoveFiles(call[p].artifact)
  /\ Ends(p)
  /\ UNCHANGED <<tables, history, queue, run>>

(* queue.enqueue() returns the job it already has for the record's key.    *)
(* Nothing here asks whether the case is still there.                      *)
Submit(p) ==
  LET a == call[p].artifact
  IN  /\ On(p, "submit")
      /\ \E j \in Jobs :
           /\ IF JobOf(a) = {} THEN job[j].state = "new" ELSE j \in JobOf(a)
           /\ job' = IF JobOf(a) = {}
                       THEN [job EXCEPT ![j].artifact = a, ![j].state = "queued"]
                       ELSE job
           /\ Goes(p, [call[p] EXCEPT !.pc = "link", !.copy.jobId = j])
      /\ UNCHANGED <<tables, files, history, leases, run>>

Link(p) ==
  /\ On(p, "link")
  /\ IF CanReplace(call[p].artifact, call[p].copy, "queued")
       THEN Replace(call[p].artifact, call[p].copy) ELSE UNCHANGED tables
  /\ Ends(p)
  /\ UNCHANGED <<files, history, queue, run>>

(* confirm(): the owner accepts the candidate pages of a contract.         *)
Confirm(p, a) ==
  /\ On(p, "idle") /\ Authorized /\ rec[a] # Null
  /\ rec[a].state = "requires_confirmation"
  /\ Goes(p, [pc |-> "authorize", artifact |-> a, copy |-> rec[a]])
  /\ UNCHANGED <<tables, files, history, queue, run>>

ConfirmAuthorize(p) ==
  /\ On(p, "authorize")
  /\ IF Authorized /\ call[p].copy.expectedRevision = rentalCase.revision
       THEN Goes(p, [call[p] EXCEPT !.pc = "candidate"]) ELSE Ends(p)
  /\ UNCHANGED <<tables, files, history, queue, run>>

(* readCandidate() compares the hash of the file with the record's; the    *)
(* confirmation may have expired.                                          *)
ReadCandidate(p) ==
  LET c == call[p]
  IN  /\ On(p, "candidate")
      /\ \/ /\ files[c.artifact] # Null
            /\ files[c.artifact].derivative = c.copy.derivative
            /\ Goes(p, [c EXCEPT !.pc = "text"])
         \/ Ends(p)
      /\ UNCHANGED <<tables, files, history, queue, run>>

WriteText(p) ==
  LET a == call[p].artifact
  IN  /\ On(p, "text")
      /\ IF files[a] # Null
           THEN /\ files' = [files EXCEPT ![a].text = call[p].copy.derivative]
                /\ Goes(p, [call[p] EXCEPT !.pc = "finalize"])
           ELSE UNCHANGED files /\ Ends(p)
      /\ UNCHANGED <<tables, history, queue, run>>

FinalizeContract(p) ==
  LET a == call[p].artifact  pages == call[p].copy.derivative
  IN  /\ On(p, "finalize")
      /\ IF CanFinalize(a, pages)
           THEN Publish(a, [derivative |-> Null, text |-> pages])
           ELSE UNCHANGED tables
      /\ Ends(p)
      /\ UNCHANGED <<files, history, queue, run>>

(* cancel(): anything that is not published.                               *)
Cancel(p, a) ==
  /\ On(p, "idle") /\ Authorized /\ rec[a] # Null
  /\ rec[a].state # "available"
  /\ Goes(p, [pc |-> IF rec[a].jobId = Null THEN "withdraw" ELSE "dequeue",
              artifact |-> a, copy |-> rec[a]])
  /\ UNCHANGED <<tables, files, history, queue, run>>

(* queue.cancel(); a job that is gone or settled is ignored.               *)
CancelJob(p) ==
  LET j == call[p].copy.jobId
  IN  /\ On(p, "dequeue")
      /\ IF job[j].state \in {"queued", "running"} THEN Settle(j, "cancelled")
                                                   ELSE UNCHANGED job
      /\ Goes(p, [call[p] EXCEPT !.pc = "withdraw"])
      /\ UNCHANGED <<tables, files, history, leases, run>>

(* FAULT: the files go although the record has changed meanwhile.          *)
WithdrawAnyway(p) ==
  LET a == call[p].artifact
      r == [call[p].copy EXCEPT !.state = "cancelled"]
  IN  /\ On(p, "withdraw")
      /\ IF CanReplace(a, r, call[p].copy.state) THEN Replace(a, r) ELSE UNCHANGED tables
      /\ Goes(p, [call[p] EXCEPT !.pc = "discard"])
      /\ UNCHANGED <<files, history, queue, run>>

Withdraw(p) ==
  LET a == call[p].artifact
      r == [call[p].copy EXCEPT !.state = "cancelled"]
  IN  /\ On(p, "withdraw")
      /\ IF CanReplace(a, r, call[p].copy.state)
           THEN Replace(a, r) /\ Goes(p, [call[p] EXCEPT !.pc = "discard"])
           ELSE UNCHANGED tables /\ Ends(p)
      /\ UNCHANGED <<files, history, queue, run>>

(***************************************************************************)
(* Deletion of the case: marked, its jobs purged, its files removed, its   *)
(* rows deleted.  A request that failed half-way may be sent again.        *)
(***************************************************************************)
DeleteCase(p) ==
  /\ On(p, "idle") /\ session /\ rentalCase.status # "gone"
  /\ rentalCase' = IF Open THEN [status |-> "deleting",
                                 revision |-> rentalCase.revision + 1]
                           ELSE rentalCase
  /\ Goes(p, [NoCall EXCEPT !.pc = "purge"])
  /\ UNCHANGED <<session, rec, row, image, files, history, queue, run>>

PurgeJobs(p) ==
  /\ On(p, "purge")
  /\ Drop({j \in Jobs : job[j].state # "new"})
  /\ Goes(p, [call[p] EXCEPT !.pc = "deleteFiles"])
  /\ UNCHANGED <<tables, files, history, leases, run>>

DeleteFiles(p) ==
  /\ On(p, "deleteFiles")
  /\ files' = [a \in Artifacts |-> Null]
  /\ Goes(p, [call[p] EXCEPT !.pc = "completeDeletion"])
  /\ UNCHANGED <<tables, history, queue, run>>

(* The rows of the case go with it (ON DELETE CASCADE).                    *)
CompleteCaseDeletion(p) ==
  /\ On(p, "completeDeletion")
  /\ IF rentalCase.status = "deleting"
       THEN /\ rentalCase' = [rentalCase EXCEPT !.status = "gone"]
            /\ rec' = [a \in Artifacts |-> Null]
            /\ row' = [a \in Artifacts |-> Null]
            /\ image' = [i \in Images |-> "none"]
            /\ UNCHANGED session
       ELSE UNCHANGED tables
  /\ Ends(p)
  /\ UNCHANGED <<files, history, queue, run>>

(***************************************************************************)
(* Other artifacts of the case: saveArtifact() reserves, stores and        *)
(* publishes within the request, without a job; each publication is a new  *)
(* revision of the case.                                                   *)
(***************************************************************************)
ReserveImage(i) ==
  /\ Open /\ image[i] = "none" /\ Fits(ImageBytes)
  /\ image' = [image EXCEPT ![i] = "quarantined"]
  /\ UNCHANGED <<rentalCase, session, rec, row, files, history, queue, run, call, mishaps>>

FinalizeImage(i) ==
  /\ Open /\ image[i] = "quarantined"
  /\ image' = [image EXCEPT ![i] = "available"]
  /\ rentalCase' = [rentalCase EXCEPT !.revision = @ + 1]
  /\ UNCHANGED <<session, rec, row, files, history, queue, run, call, mishaps>>

AbandonImage(i) ==
  /\ Open /\ image[i] = "quarantined"
  /\ image' = [image EXCEPT ![i] = "abandoned"]
  /\ UNCHANGED <<rentalCase, session, rec, row, files, history, queue, run, call, mishaps>>

(***************************************************************************)
(* The rest of the world: sessions end, leases run out, old results are    *)
(* forgotten, the process crashes.                                         *)
(***************************************************************************)
RevokeSession ==
  /\ session /\ session' = FALSE
  /\ UNCHANGED <<rentalCase, rec, row, image, files, history, queue, run, call, mishaps>>

HasLiveHolder(j) == \E w \in Workers : run[w].job = j /\ run[w].lease = job[j].lease

(* FAULT: only jobs that may be retried are taken back.                    *)
LeaseRunsOutIfRetryable(j) ==
  /\ job[j].state = "running" /\ job[j].attempt < MaxAttempts
  /\ Settle(j, "queued")
  /\ UNCHANGED <<tables, files, history, leases, run, call>>

(* FAULT: a job whose attempts are spent is queued once more.              *)
LeaseRunsOutOffByOne(j) ==
  /\ job[j].state = "running"
  /\ Settle(j, IF job[j].attempt <= MaxAttempts THEN "queued" ELSE "failed")
  /\ UNCHANGED <<tables, files, history, leases, run, call>>

LeaseRunsOut(j) ==
  /\ job[j].state = "running"
  /\ Settle(j, IF job[j].attempt < MaxAttempts THEN "queued" ELSE "failed")
  /\ UNCHANGED <<tables, files, history, leases, run, call>>

DeadLeaseRunsOut(j) ==
  ~HasLiveHolder(j) /\ LeaseRunsOut(j) /\ UNCHANGED mishaps

(* The worker is alive but did not renew in time.                          *)
Stall(j) ==
  /\ HasLiveHolder(j) /\ stalls < MaxStalls /\ stalls' = stalls + 1
  /\ LeaseRunsOut(j) /\ UNCHANGED <<crashes, faults>>

(* A settled job is forgotten after 24 hours: a worker that is still busy  *)
(* with it then has stalled.                                               *)
ForgetJob(j) ==
  /\ IsTerminal(j) /\ Drop({j})
  /\ IF \E w \in Workers : run[w].job = j
       THEN stalls < MaxStalls /\ stalls' = stalls + 1 /\ UNCHANGED <<crashes, faults>>
       ELSE UNCHANGED mishaps
  /\ UNCHANGED <<tables, files, history, leases, run, call>>

Crash ==
  /\ crashes < MaxCrashes /\ crashes' = crashes + 1
  /\ run' = [w \in Workers |-> Off]
  /\ call' = [p \in Clients |-> NoCall]
  /\ UNCHANGED <<tables, files, history, queue, stalls, faults>>

Request(p) ==
  \/ \E u \in Uploads : Enqueue(p, u)
  \/ \E a \in Artifacts : Confirm(p, a) \/ Cancel(p, a)
  \/ FindByKey(p) \/ Save(p) \/ Create(p) \/ Discard(p) \/ Submit(p) \/ Link(p)
  \/ ConfirmAuthorize(p) \/ ReadCandidate(p) \/ WriteText(p) \/ FinalizeContract(p)
  \/ CancelJob(p) \/ Withdraw(p)
  \/ DeleteCase(p) \/ PurgeJobs(p) \/ DeleteFiles(p) \/ CompleteCaseDeletion(p)
  \/ RequestThrows(p)

World ==
  \/ \E i \in Images : ReserveImage(i) \/ FinalizeImage(i) \/ AbandonImage(i)
  \/ \E j \in Jobs : DeadLeaseRunsOut(j) \/ Stall(j) \/ ForgetJob(j)
  \/ RevokeSession \/ Crash

Next ==
  \/ Pump
  \/ \E w \in Workers : Work(w) \/ WorkerThrows(w)
  \/ \E p \in Clients : Request(p)
  \/ World

Spec == Init /\ [][Next]_vars

(* The timer pumps again and again, the worker's promises settle, and the  *)
(* lease of a worker that is gone runs out.                                *)
Fairness ==
  /\ WF_vars(Pump)
  /\ \A w \in Workers : WF_vars(Work(w))
  /\ \A j \in Jobs : WF_vars(DeadLeaseRunsOut(j))

FairSpec == Spec /\ Fairness

(***************************************************************************)
(* Properties.                                                             *)
(***************************************************************************)
RecordStates == {"queued", "requires_confirmation", "available", "failed", "cancelled"}

Contents == {Null} \cup 0..(MaxAttempts * Cardinality(Jobs))

Records ==
  [upload : Uploads, expectedRevision : Nat, state : RecordStates,
   derivative : Contents, jobId : Jobs \cup {Null}]

Directories == [derivative : Contents, text : Contents]

JobRecords ==
  [artifact : Artifacts \cup {Null}, attempt : 0..MaxAttempts, lease : Contents \ {Frames},
   state : {"new", "queued", "running", "succeeded", "failed", "cancelled", "gone"}]

ASSUME NullAssumption == Null \notin Records \cup Directories

(* Every variable has its type.                                            *)
TypeOK ==
  /\ rentalCase \in [status : {"open", "deleting", "gone"}, revision : Nat]
  /\ session \in BOOLEAN
  /\ \A a \in Artifacts : /\ rec[a] \in Records \cup {Null}
                          /\ row[a] \in Directories \cup {Null}
                          /\ files[a] \in Directories \cup {Null}
                          /\ files[a] # Null => a \in drawn
  /\ image \in [Images -> {"none", "quarantined", "available", "abandoned"}]
  /\ job \in [Jobs -> JobRecords]
  /\ \A w \in Workers : run[w].stage \in 0..3
                        /\ run[w].copy \in Records \cup {Null}
  /\ \A p \in Clients : call[p].copy \in Records \cup {Null}

(* What the case page lists can be opened: as long as the case stands, the *)
(* files of a published artifact are there with the content its row names, *)
(* whatever workers, cancellations and duplicate uploads are still doing.  *)
(* One case is excepted: enqueue() takes an error of create() to mean that *)
(* nothing was created and removes the files; when the transaction had     *)
(* committed, a duplicate request may have queued that very record.        *)
PublishedIsReadable ==
  Open /\ ~lostCreate => \A a \in Artifacts : row[a] # Null =>
    /\ files[a] # Null
    /\ row[a].derivative \in {Null, files[a].derivative}
    /\ row[a].text \in {Null, files[a].text}

(* A text the owner is asked to confirm is the one on disk, so that the    *)
(* confirmation can succeed.  A worker that stalls past its lease between  *)
(* assertActive() and writePrepared() may still overwrite it: the lease    *)
(* is not checked with the write.                                          *)
CandidateIsOnDisk ==
  Open /\ stalls = 0 /\ ~lostCreate => \A a \in InUse : rec[a].state = "requires_confirmation" =>
    files[a] # Null /\ files[a].derivative = rec[a].derivative

(* A job is only recorded as succeeded when the owner has something to     *)
(* see: its record is not waiting for work and has not failed.             *)
SucceededMeansSettled ==
  \A j \in Jobs : job[j].state = "succeeded" =>
    \/ rec[job[j].artifact] = Null
    \/ rec[job[j].artifact].state \notin {"queued", "failed"}

(* Somebody is still going to remove the files of a, or to create its row. *)
Responsible(a) ==
  \/ \E w \in Workers : run[w].artifact = a /\ At(w, "wipe")
  \/ \E p \in Clients : call[p].artifact = a /\ call[p].pc \in {"create", "discard"}
  \/ rentalCase.status = "deleting"

(* Private bytes are not left behind: without a crash or an error, files   *)
(* belong to a record that still needs them, or to a request or worker     *)
(* that is about to remove them.                                           *)
NoStrayFiles ==
  crashes = 0 /\ faults = 0 => \A a \in Artifacts : files[a] # Null =>
    \/ Responsible(a)
    \/ rec[a] # Null /\ rec[a].state \in {"queued", "requires_confirmation", "available"}

(* The images and videos of a case, published or pending, stay within the  *)
(* quota, although reserveArtifact(), create() and finalize() each sum up  *)
(* only some of them.  So the quota never refuses to publish a video that  *)
(* was accepted.                                                           *)
QuotaHolds == Open => PendingVideoBytes + RowBytes <= Quota

Onward == { <<"queued", "requires_confirmation">>, <<"queued", "available">>,
            <<"queued", "failed">>, <<"requires_confirmation", "available">>,
            <<"queued", "cancelled">>, <<"requires_confirmation", "cancelled">>,
            <<"failed", "cancelled">> }

(* A record never goes back: what is published stays published, what is    *)
(* cancelled or failed is not revived by a worker or request that read it  *)
(* before, until the case is deleted.                                      *)
RecordsOnlyMoveOn ==
  [][\A a \in Artifacts : rec[a] # Null /\ rec'[a] # Null =>
       \/ rec'[a].state = rec[a].state
       \/ <<rec[a].state, rec'[a].state>> \in Onward]_vars

(* Workers, requests and the deletion use the queue as it wants to be used:*)
(* their steps are steps of LeasedJobs.                                    *)
Queue == INSTANCE LeasedJobs WITH
  JobIds   <- Jobs,
  phase    <- [j \in Jobs |-> job[j].state],
  attempts <- [j \in Jobs |-> job[j].attempt],
  holder   <- [j \in Jobs |-> job[j].lease],
  claims   <- {[jobId |-> run[w].job, leaseId |-> run[w].lease] :
                 w \in {v \in Workers : run[v].job # Null}}

QueueSpec == Queue!Spec

(* What status() tells the owner.                                          *)
Reported(a) ==
  LET r == rec[a]
  IN  IF r.state = "requires_confirmation"
        THEN IF r.expectedRevision = rentalCase.revision THEN r.state ELSE "failed"
      ELSE IF r.state = "queued" /\ r.jobId # Null
        THEN CASE job[r.jobId].state \in {"failed", "gone"} -> "failed"
               [] job[r.jobId].state = "cancelled" -> "cancelled"
               [] job[r.jobId].state = "running"   -> "running"
               [] OTHER                            -> "queued"
      ELSE r.state

(* An owner who polls an upload that has a job eventually sees something   *)
(* other than queued or running, whatever crashes, stalls and errors       *)
(* happen on the way, or the case is deleted.                              *)
Waiting(a) ==
  Open /\ rec[a] # Null /\ rec[a].jobId # Null /\ Reported(a) \in {"queued", "running"}

UploadIsAnswered == \A a \in Artifacts : Waiting(a) ~> ~Waiting(a)

(* docs/VIDEO_INGESTION_P1.md:17: the deletion of a case removes its queue *)
(* references.                                                             *)
NoJobAfterDeletion ==
  rentalCase.status = "gone" /\ (\A p \in Clients : On(p, "idle")) =>
    \A j \in Jobs : job[j].state \in {"new", "gone"}
==============================================================================
