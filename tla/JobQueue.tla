------------------------------- MODULE JobQueue -------------------------------
(***************************************************************************)
(* PersistentBoundedJobQueue with every operation atomic, as its callers   *)
(* see it: workers (GovernedJobWorker), the processing service and the     *)
(* case deletion.  An operation reads its caller's own clock, which may    *)
(* lag behind real time by up to Skew: a slow process, or the time between *)
(* sampling Date.now() and the commit.                                     *)
(***************************************************************************)
EXTENDS JobQueueOps

CONSTANTS
  ClaimTypes,    \* the sets of work types that workers pass to claim()
  Skew,          \* how far a caller's clock may lag
  MaxClock,      \* bound: time stops here
  MaxClaims      \* bound: leases in the hands of workers at a time

ASSUME ClockAssumption == Skew \in Nat /\ MaxClock \in Nat

VARIABLES
  records,   \* the stored snapshot: job id -> record
  issued,    \* job ids drawn so far; random ids never repeat
  leases,    \* lease ids drawn so far are 1..leases
  claims,    \* leases that a worker may still use in renew, complete or fail
  clock

vars == <<records, issued, leases, claims, clock>>

Claim == [jobId : JobIds, leaseId : Nat, workerId : Workers]

Init ==
  /\ records = [j \in {} |-> Null]
  /\ issued = {}
  /\ leases = 0
  /\ claims = {}
  /\ clock = 0

Nows == {t \in 0 .. clock : t + Skew >= clock}

-----------------------------------------------------------------------------
(* Operations of the queue. *)

Enqueue(request) ==
  \E now \in Nows, id \in JobIds \ issued :
    /\ records' = AfterEnqueue(records, now, id, request)
    /\ issued' = IF id \in DOMAIN records' THEN issued \cup {id} ELSE issued
    /\ UNCHANGED <<leases, claims, clock>>

ClaimJob(worker, types) ==
  /\ Cardinality(claims) < MaxClaims
  /\ \E now \in Nows :
     \E id \in Candidates(Maintained(records, now), now, types) :
       /\ records' = AfterClaim(records, now, id, worker, leases + 1)
       /\ leases' = leases + 1
       /\ claims' = claims \cup
            {[jobId |-> id, leaseId |-> leases + 1, workerId |-> worker]}
       /\ UNCHANGED <<issued, clock>>

(* A claim that finds nothing, a get(), and every refused command still    *)
(* commit the maintenance that preceded them.                              *)
Maintain ==
  /\ \E now \in Nows : records' = Maintained(records, now)
  /\ UNCHANGED <<issued, leases, claims, clock>>

Renew(claim) ==
  /\ \E now \in Nows : records' = AfterRenew(records, now, claim)
  /\ UNCHANGED <<issued, leases, claims, clock>>

Complete(claim) ==
  /\ \E now \in Nows : records' = AfterComplete(records, now, claim)
  /\ UNCHANGED <<issued, leases, claims, clock>>

Fail(claim, retryable) ==
  /\ \E now \in Nows : records' = AfterFail(records, now, claim, retryable)
  /\ UNCHANGED <<issued, leases, claims, clock>>

CancelJob(id, command) ==
  /\ \E now \in Nows : records' = AfterCancel(records, now, id, command.actor,
                                    command.caseId, command.expectedRevision)
  /\ UNCHANGED <<issued, leases, claims, clock>>

Delete(id, command) ==
  /\ \E now \in Nows : records' = AfterDelete(records, now, id, command.actor,
                                              command.caseId)
  /\ UNCHANGED <<issued, leases, claims, clock>>

PurgeCase(actor, caseId) ==
  /\ \E now \in Nows : records' = AfterPurgeCase(records, now, actor, caseId)
  /\ UNCHANGED <<issued, leases, claims, clock>>

PurgeDeletedCase(caseId) ==
  /\ \E now \in Nows : records' = AfterPurgeDeletedCase(records, now, caseId)
  /\ UNCHANGED <<issued, leases, claims, clock>>

-----------------------------------------------------------------------------
(* The environment. *)

(* A worker's run ends, normally or by a crash: its lease is used no more. *)
Drop(claim) ==
  /\ claims' = claims \ {claim}
  /\ UNCHANGED <<records, issued, leases, clock>>

Tick ==
  /\ clock < MaxClock
  /\ clock' = clock + 1
  /\ UNCHANGED <<records, issued, leases, claims>>

WorkerNext ==
  \/ \E w \in Workers, types \in ClaimTypes : ClaimJob(w, types)
  \/ \E c \in claims : \/ Renew(c) \/ Complete(c) \/ Drop(c)
                       \/ \E retryable \in BOOLEAN : Fail(c, retryable)

ClientNext ==
  \E q \in Requests :
    \/ Enqueue(q)
    \/ \E id \in issued : CancelJob(id, q) \/ Delete(id, q)
    \/ PurgeCase(q.actor, q.caseId)
    \/ PurgeDeletedCase(q.caseId)

Next == WorkerNext \/ ClientNext \/ Maintain \/ Tick

Spec == Init /\ [][Next]_vars

(* As long as the process lives somebody writes to the queue again: the    *)
(* pump claims every second when both workers are done, and while a worker *)
(* is not, its timer renews every 20 seconds, to no avail if its lease is  *)
(* lost.  Each runs the maintenance; time passes.  Nobody owes a result.   *)
FairSpec == Spec /\ WF_vars(Maintain) /\ WF_vars(Tick)

-----------------------------------------------------------------------------
(* Properties. *)

TypeOK ==
  /\ issued \subseteq JobIds
  /\ DOMAIN records \subseteq issued
  /\ IsFiniteSet(DOMAIN records)
  /\ \A j \in DOMAIN records : records[j] \in JobRecord
  /\ leases \in Nat
  /\ claims \subseteq Claim
  /\ clock \in Nat

(* No sequence of operations, stale commands, crashes or slow clocks makes *)
(* the queue write a snapshot that its own reader rejects: such a snapshot *)
(* would end every later operation with JOB_QUEUE_CORRUPT.                 *)
NeverCorrupt == SnapshotIntegrity(records)

(* claim() does not test the attempt limit; it need not, because a job is  *)
(* put back in the queue only while it has attempts left.                  *)
QueuedHasAttemptsLeft ==
  \A j \in DOMAIN records :
    records[j].state = "queued" => records[j].attempt < MaxAttempts

(* A lease that was lost stays lost: once renew, complete or fail would be *)
(* refused for a claim, they are refused for ever, whoever runs the job    *)
(* next (errors, expired or replayed leases are refused).                  *)
LostLeaseStaysLost ==
  [][\A c \in claims \cap claims' :
       ~HoldsLease(records, c) => ~HoldsLease(records', c)]_vars

(* Work that has not settled is never dropped to make room or by age: a    *)
(* live job disappears only when its whole case is purged for its owner,   *)
(* or when its last lease has run out and the failed job is deleted.       *)
LiveWorkIsKept ==
  [][\A j \in DOMAIN records \ DOMAIN records' :
       \/ IsTerminal(records[j])
       \/ LeaseExpired(records[j], clock) /\ records[j].attempt = MaxAttempts
       \/ \A i \in DOMAIN records' :
            \/ records'[i].request.actor # records[j].request.actor
            \/ records'[i].request.caseId # records[j].request.caseId]_vars

(* A running job is never left with a dead worker: whatever its lease, it  *)
(* is renewed, settled, requeued or purged; no lease outlives its expiry.  *)
EveryLeaseEnds ==
  \A j \in JobIds : \A t \in 0 .. MaxClock :
    (j \in DOMAIN records /\ records[j].state = "running"
       /\ records[j].leaseExpiresAt = t)
    ~> ~(j \in DOMAIN records /\ records[j].state = "running"
           /\ records[j].leaseExpiresAt = t)

(* The queue implements the life of a job that LeasedJobs describes.       *)
JobPhase(j) ==
  IF j \in DOMAIN records THEN records[j].state
  ELSE IF j \in issued THEN "gone" ELSE "new"

JobAttempts(j) == IF j \in DOMAIN records THEN records[j].attempt ELSE 0

JobHolder(j) == IF j \in DOMAIN records THEN records[j].leaseId ELSE Null

Life == INSTANCE LeasedJobs WITH
          phase    <- [j \in JobIds |-> JobPhase(j)],
          attempts <- [j \in JobIds |-> JobAttempts(j)],
          holder   <- [j \in JobIds |-> JobHolder(j)]

LifeSpec == Life!Spec
==============================================================================
