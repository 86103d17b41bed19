----------------------------- MODULE JobQueueOps -----------------------------
(***************************************************************************)
(* The snapshot transformations of PersistentBoundedJobQueue               *)
(* (src/application/jobs/persistent-job-queue.ts).  A snapshot is the      *)
(* function from the ids of the stored jobs to their records; every        *)
(* operation of the queue first runs maintain() on the snapshot it has     *)
(* read and then applies itself to the result, so each After... operator   *)
(* takes the snapshot as read and the caller's clock and yields the        *)
(* snapshot to be written.  JobQueue applies them atomically, JobQueueCas  *)
(* between a read and a compare-and-swap.                                  *)
(*                                                                         *)
(* Abstracted: resultRef and reasonCode (never read back by the queue),    *)
(* schema parsing, and SHA-256 (two hashes are equal iff their inputs are).*)
(*                                                                         *)
(* A definition marked FAULT is a wrong version of the one below it, such  *)
(* as a slip in the code would give.  Nothing uses it; the README says     *)
(* which property fails when it takes the place of the right one.          *)
(***************************************************************************)
EXTENDS Naturals, FiniteSets

CONSTANTS
  JobIds,               \* the job ids the id generator may produce
  Workers,              \* worker ids
  Requests,             \* the enqueue commands that clients send
  MaxRecords,           \* options of the queue, same names as in the code
  MaxRunning,
  MaxAttempts,
  LeaseMs,
  RetryDelayMs,
  TerminalRetentionMs,
  Null                  \* the null of a nullable field

(* The constructor rejects an option that is not a positive integer, and   *)
(* null is no timestamp, lease id or worker id.                            *)
ASSUME QueueOptionsAssumption ==
  /\ {MaxRecords, MaxRunning, MaxAttempts, LeaseMs, RetryDelayMs,
      TerminalRetentionMs} \subseteq Nat \ {0}
  /\ Null \notin Nat \cup Workers

JobStates == {"queued", "running", "succeeded", "failed", "cancelled"}

(* request stands for actorRef, the idempotency key, priority (0 blocking, *)
(* 1 normal, 2 background) and work (type, caseId, expectedRevision): what *)
(* idempotencyHash and bindingHash are computed from.                      *)
JobRecord ==
  [request        : Requests,
   state          : JobStates,
   attempt        : Nat,
   createdAt      : Nat,
   availableAt    : Nat,
   leaseId        : Nat \cup {Null},
   workerId       : Workers \cup {Null},
   leaseExpiresAt : Nat \cup {Null},
   completedAt    : Nat \cup {Null}]

IsTerminal(record) == record.state \in {"succeeded", "failed", "cancelled"}

RunningJobs(records) == {j \in DOMAIN records : records[j].state = "running"}

Unleased(record) ==
  [record EXCEPT !.leaseId = Null, !.workerId = Null, !.leaseExpiresAt = Null]

(***************************************************************************)
(* maintain(): expired leases are taken back, old terminal records dropped.*)
(***************************************************************************)
(* FAULT: only jobs that may be retried are taken back.                    *)
LeaseExpiredIfRetryable(record, now) ==
  /\ record.state = "running" /\ record.attempt < MaxAttempts
  /\ record.leaseExpiresAt # Null /\ record.leaseExpiresAt <= now

LeaseExpired(record, now) ==
  /\ record.state = "running"
  /\ record.leaseExpiresAt # Null
  /\ record.leaseExpiresAt <= now

(* FAULT: the age of the job decides, not the age of its result.           *)
RetentionOverByAge(record, now) ==
  record.createdAt + TerminalRetentionMs <= now

RetentionOver(record, now) ==
  /\ IsTerminal(record)
  /\ record.completedAt # Null
  /\ record.completedAt + TerminalRetentionMs <= now

Reclaimed(record, now) ==
  LET spent == record.attempt >= MaxAttempts
  IN  [Unleased(record) EXCEPT !.state       = IF spent THEN "failed" ELSE "queued",
                               !.availableAt = now,
                               !.completedAt = IF spent THEN now ELSE Null]

Maintained(records, now) ==
  [j \in {i \in DOMAIN records : ~RetentionOver(records[i], now)} |->
     IF LeaseExpired(records[j], now) THEN Reclaimed(records[j], now)
                                      ELSE records[j]]

Without(records, gone) == [j \in DOMAIN records \ gone |-> records[j]]

(***************************************************************************)
(* enqueue(): one record per (actor, idempotency key), at most MaxRecords. *)
(***************************************************************************)
SameKey(q1, q2) == q1.actor = q2.actor /\ q1.key = q2.key

Accepts(records, request) ==
  /\ \A j \in DOMAIN records : ~SameKey(records[j].request, request)
  /\ Cardinality(DOMAIN records) < MaxRecords

NewRecord(request, now) ==
  [request |-> request, state |-> "queued", attempt |-> 0,
   createdAt |-> now, availableAt |-> now, leaseId |-> Null,
   workerId |-> Null, leaseExpiresAt |-> Null, completedAt |-> Null]

AfterEnqueue(records, now, id, request) ==
  LET m == Maintained(records, now)
  IN  IF Accepts(m, request)
        THEN [j \in DOMAIN m \cup {id} |-> IF j = id THEN NewRecord(request, now)
                                                     ELSE m[j]]
        ELSE m

(***************************************************************************)
(* claim(): the first queued and due job of an idle case, if a slot is     *)
(* free.  Ties of priority and age are broken by the random job id, that   *)
(* is, arbitrarily.                                                        *)
(***************************************************************************)
(* FAULT: a running job of the case does not make claim() pass it over.    *)
IdleCaseUnchecked(records, caseId) == TRUE

IdleCase(records, caseId) ==
  \A j \in RunningJobs(records) : records[j].request.caseId # caseId

Claimable(records, now, types) ==
  {j \in DOMAIN records :
     /\ records[j].state = "queued"
     /\ records[j].availableAt <= now
     /\ records[j].request.type \in types
     /\ IdleCase(records, records[j].request.caseId)}

Before(r1, r2) ==
  \/ r1.request.priority < r2.request.priority
  \/ /\ r1.request.priority = r2.request.priority
     /\ r1.createdAt < r2.createdAt

(* The jobs claim() may pick from a maintained snapshot: none when         *)
(* maxRunning jobs are running.                                            *)
Candidates(records, now, types) ==
  {j \in Claimable(records, now, types) :
     /\ Cardinality(RunningJobs(records)) < MaxRunning
     /\ \A i \in Claimable(records, now, types) : ~Before(records[i], records[j])}

(* FAULT: worker id and lease id are swapped.                              *)
LeasedSwapped(record, now, worker, lease) ==
  [record EXCEPT !.state = "running", !.attempt = @ + 1, !.leaseId = worker,
                 !.workerId = lease, !.leaseExpiresAt = now + LeaseMs]

Leased(record, now, worker, lease) ==
  [record EXCEPT !.state          = "running",
                 !.attempt        = @ + 1,
                 !.leaseId        = lease,
                 !.workerId       = worker,
                 !.leaseExpiresAt = now + LeaseMs]

AfterClaim(records, now, id, worker, lease) ==
  LET m == Maintained(records, now)
  IN  [m EXCEPT ![id] = Leased(m[id], now, worker, lease)]

(***************************************************************************)
(* #finish(): renew, complete and fail act only for the lease and worker   *)
(* that the running record names; anything else is JOB_LEASE_STALE.        *)
(***************************************************************************)
(* FAULT: the worker id alone is compared.                                 *)
HoldsJob(records, claim) ==
  /\ claim.jobId \in DOMAIN records
  /\ records[claim.jobId].state = "running"
  /\ records[claim.jobId].workerId = claim.workerId

HoldsLease(records, claim) ==
  /\ claim.jobId \in DOMAIN records
  /\ records[claim.jobId].state = "running"
  /\ records[claim.jobId].workerId = claim.workerId
  /\ records[claim.jobId].leaseId = claim.leaseId

Renewed(record, now) == [record EXCEPT !.leaseExpiresAt = now + LeaseMs]

Completed(record, now) ==
  [Unleased(record) EXCEPT !.state = "succeeded", !.completedAt = now]

(* FAULT: a job that failed its last attempt is retried once more.         *)
FailedOffByOne(record, now, retryable) ==
  LET retry == retryable /\ record.attempt <= MaxAttempts
  IN  [Unleased(record) EXCEPT
         !.state       = IF retry THEN "queued" ELSE "failed",
         !.availableAt = IF retry THEN now + RetryDelayMs ELSE @,
         !.completedAt = IF retry THEN Null ELSE now]

Failed(record, now, retryable) ==
  LET retry == retryable /\ record.attempt < MaxAttempts
  IN  [Unleased(record) EXCEPT
         !.state       = IF retry THEN "queued" ELSE "failed",
         !.availableAt = IF retry THEN now + RetryDelayMs ELSE @,
         !.completedAt = IF retry THEN Null ELSE now]

AfterRenew(records, now, claim) ==
  LET m == Maintained(records, now)
  IN  IF HoldsLease(m, claim)
        THEN [m EXCEPT ![claim.jobId] = Renewed(@, now)] ELSE m

AfterComplete(records, now, claim) ==
  LET m == Maintained(records, now)
  IN  IF HoldsLease(m, claim)
        THEN [m EXCEPT ![claim.jobId] = Completed(@, now)] ELSE m

AfterFail(records, now, claim, retryable) ==
  LET m == Maintained(records, now)
  IN  IF HoldsLease(m, claim)
        THEN [m EXCEPT ![claim.jobId] = Failed(@, now, retryable)] ELSE m

(***************************************************************************)
(* cancel(), delete(), purgeCase(), purgeDeletedCase().  A command that    *)
(* names a missing or foreign job, a stale revision or an unsuitable state *)
(* changes nothing beyond the maintenance.                                 *)
(***************************************************************************)
Names(records, id, actor, caseId) ==
  /\ id \in DOMAIN records
  /\ records[id].request.actor = actor
  /\ records[id].request.caseId = caseId

Cancelled(record, now) ==
  [Unleased(record) EXCEPT !.state = "cancelled", !.completedAt = now]

(* FAULT: a settled job can still be cancelled.                            *)
AfterLateCancel(records, now, id, actor, caseId, revision) ==
  LET m == Maintained(records, now)
  IN  IF /\ Names(m, id, actor, caseId)
         /\ m[id].request.expectedRevision = revision
        THEN [m EXCEPT ![id] = Cancelled(@, now)] ELSE m

AfterCancel(records, now, id, actor, caseId, revision) ==
  LET m == Maintained(records, now)
  IN  IF /\ Names(m, id, actor, caseId)
         /\ m[id].request.expectedRevision = revision
         /\ ~IsTerminal(m[id])
        THEN [m EXCEPT ![id] = Cancelled(@, now)] ELSE m

AfterDelete(records, now, id, actor, caseId) ==
  LET m == Maintained(records, now)
  IN  IF Names(m, id, actor, caseId) /\ IsTerminal(m[id])
        THEN Without(m, {id}) ELSE m

AfterPurgeCase(records, now, actor, caseId) ==
  LET m == Maintained(records, now)
  IN  Without(m, {j \in DOMAIN m : Names(m, j, actor, caseId)})

AfterPurgeDeletedCase(records, now, caseId) ==
  LET m == Maintained(records, now)
  IN  Without(m, {j \in DOMAIN m : m[j].request.caseId = caseId})

(***************************************************************************)
(* assertSnapshotIntegrity(): a snapshot that fails one of these parts is  *)
(* refused on read and on write with JOB_QUEUE_CORRUPT.                    *)
(***************************************************************************)
UniqueKeys(records) ==
  \A i, j \in DOMAIN records :
    i # j => ~SameKey(records[i].request, records[j].request)

LeaseCoherent(record) ==
  IF record.state = "running"
    THEN /\ Null \notin {record.leaseId, record.workerId, record.leaseExpiresAt}
         /\ record.completedAt = Null
    ELSE {record.leaseId, record.workerId, record.leaseExpiresAt} = {Null}

TerminalCoherent(record) == IsTerminal(record) <=> record.completedAt # Null

OneRunningPerCase(records) ==
  \A i, j \in RunningJobs(records) :
    records[i].request.caseId = records[j].request.caseId => i = j

SnapshotIntegrity(records) ==
  /\ Cardinality(DOMAIN records) <= MaxRecords
  /\ UniqueKeys(records)
  /\ \A j \in DOMAIN records : /\ records[j].attempt <= MaxAttempts
                               /\ LeaseCoherent(records[j])
                               /\ TerminalCoherent(records[j])
  /\ OneRunningPerCase(records)
  /\ Cardinality(RunningJobs(records)) <= MaxRunning
==============================================================================
