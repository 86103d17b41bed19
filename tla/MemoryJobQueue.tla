---------------------------- MODULE MemoryJobQueue ----------------------------
(* InMemoryBoundedJobQueue, the queue without a store: its records, the    *)
(* index from idempotency keys to job ids, and workers that claim, finish  *)
(* or vanish.  Its rules are those of JobQueueOps, but that a key is one   *)
(* for all actors and that no job is renewed, cancelled or deleted.        *)
EXTENDS JobQueueOps

CONSTANTS
  MaxClock,          \* bound: time goes from 0 to here, and back by one
  MaxLeases          \* bound: leases granted

MemoryAssumption == QueueOptionsAssumption /\ {MaxClock, MaxLeases} \subseteq Nat

VARIABLES
  records,   \* #records
  index,     \* #jobIdByIdempotencyHash
  issued,    \* job ids drawn so far
  leases,    \* lease ids drawn so far are 1..leases
  claims,    \* leases in the hands of workers
  clock      \* Date.now(), which may be set back

memoryVars == <<records, index, issued, leases, claims, clock>>

Empty == [x \in {} |-> Null]

MemoryInit ==
  /\ records = Empty /\ index = Empty
  /\ issued = {} /\ leases = 0 /\ claims = {}
  /\ clock = 0

(* Every operation begins with #maintain: expired leases are taken back;   *)
(* an old result goes together with its key.                               *)
Kept == Maintained(records, clock)

\* FAULT: the key of a forgotten job stays.
IndexKeepingKeys == index

IndexKept == Without(index, {k \in DOMAIN index : index[k] \notin DOMAIN Kept})

Enqueue(request, id) ==
  LET new == [j \in DOMAIN Kept \cup {id} |->
                IF j = id THEN NewRecord(request, clock) ELSE Kept[j]]
      accepted == /\ request.key \notin DOMAIN IndexKept
                  /\ Cardinality(DOMAIN Kept) < MaxRecords
  IN
  /\ id \notin issued
  /\ IF accepted
     THEN /\ records' = new /\ issued' = issued \cup {id}
          /\ index' = [k \in DOMAIN IndexKept \cup {request.key} |->
                         IF k = request.key THEN id ELSE IndexKept[k]]
     ELSE records' = Kept /\ index' = IndexKept /\ UNCHANGED issued
  /\ UNCHANGED <<leases, claims, clock>>

(* The same key with the same binding is the same job, else a conflict; a  *)
(* key whose job is not there is an error that no caller expects.          *)
Reused(request) ==
  IF request.key \notin DOMAIN IndexKept THEN "new"
  ELSE IF IndexKept[request.key] \notin DOMAIN Kept THEN "integrity"
  ELSE IF Kept[IndexKept[request.key]].request = request THEN "reused" ELSE "conflict"

ClaimJob(worker, types) ==
  /\ leases < MaxLeases
  /\ \E id \in Candidates(Kept, clock, types) :
       /\ records' = AfterClaim(records, clock, id, worker, leases + 1)
       /\ index' = IndexKept
       /\ leases' = leases + 1
       /\ claims' = claims \cup {[jobId |-> id, leaseId |-> leases + 1, workerId |-> worker]}
       /\ UNCHANGED <<issued, clock>>

(* A refused command and an empty claim keep the maintenance.              *)
Finish(after) ==
  /\ records' = after /\ index' = IndexKept
  /\ UNCHANGED <<issued, leases, claims, clock>>

Complete(claim) == Finish(AfterComplete(records, clock, claim))
Fail(claim, retryable) == Finish(AfterFail(records, clock, claim, retryable))

Time ==
  /\ clock' \in {clock - 1, clock + 1} \cap 0 .. MaxClock
  /\ UNCHANGED <<records, index, issued, leases, claims>>

MemoryNext ==
  \/ \E q \in Requests, id \in JobIds : Enqueue(q, id)
  \/ \E w \in Workers, q \in Requests : ClaimJob(w, {q.type})
  \/ \E c \in claims : Complete(c) \/ \E retryable \in BOOLEAN : Fail(c, retryable)
  \/ Time

MemorySpec == MemoryInit /\ [][MemoryNext]_memoryVars

-----------------------------------------------------------------------------
MemoryTypeOK ==
  /\ DOMAIN records \subseteq issued /\ issued \subseteq JobIds
  /\ \A j \in DOMAIN records : records[j] \in JobRecord
  /\ leases \in Nat /\ clock \in 0 .. MaxClock

(* The index and the records name each other, so that a key is never bound *)
(* to a job that was forgotten (JOB_QUEUE_INTEGRITY_ERROR) nor free while  *)
(* its job lives, whichever way the clock was set; and the records are     *)
(* such as the stored queue would accept.                                  *)
IndexIsTheJobs ==
  /\ DOMAIN records = {index[k] : k \in DOMAIN index}
  /\ \A k \in DOMAIN index : records[index[k]].request.key = k
  /\ \A q \in Requests : Reused(q) # "integrity"
  /\ SnapshotIntegrity(records)

(* The life of a job is the one that LeasedJobs describes.                 *)
MemoryLife == INSTANCE LeasedJobs WITH
  phase    <- [j \in JobIds |-> IF j \in DOMAIN records THEN records[j].state
                                ELSE IF j \in issued THEN "gone" ELSE "new"],
  attempts <- [j \in JobIds |-> IF j \in DOMAIN records THEN records[j].attempt ELSE 0],
  holder   <- [j \in JobIds |-> IF j \in DOMAIN records THEN records[j].leaseId ELSE Null]

MemoryLifeSpec == MemoryLife!Spec
=============================================================================
