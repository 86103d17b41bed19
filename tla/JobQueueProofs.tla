---------------------------- MODULE JobQueueProofs ----------------------------
(***************************************************************************)
(* What JobQueue guarantees for every number of jobs, workers and cases    *)
(* and every choice of the limits.  JobQueueOpsProofs says what the        *)
(* operations do to a snapshot; here the steps of the queue are shown to   *)
(* be such operations, with the bookkeeping of ids and leases beside them. *)
(***************************************************************************)
EXTENDS JobQueue, JobQueueOpsProofs

-----------------------------------------------------------------------------
(* The inductive invariant.  NeverCorrupt alone is not inductive: a queued *)
(* job with no attempts left would make the next claim() write a snapshot  *)
(* with attempt > maxAttempts; and the leases granted so far must bound    *)
(* the leases in use, or a new lease could be one that is still held.      *)
QueueInv ==
  /\ TypeOK
  /\ SnapshotOK(records)
  /\ \A c \in claims : c.leaseId <= leases
  /\ \A j \in RunningJobs(records) : records[j].leaseId <= leases

(* What a step does to the runs of the jobs: a job that is running         *)
(* afterwards was running before, under the same lease, or has been        *)
(* granted the newest lease in this step.                                  *)
RunsContinue ==
  \A j \in RunningJobs(records') :
    \/ j \in DOMAIN records /\ SameRun(records[j], records'[j])
    \/ leases' = leases + 1 /\ records'[j].leaseId = leases'

QueueStep ==
  /\ SnapshotOK(records')
  /\ DOMAIN records' \subseteq issued' /\ issued' \subseteq JobIds
  /\ leases' \in {leases, leases + 1}
  /\ \A c \in claims' \ claims : c \in Claim /\ c.leaseId = leases'
  /\ clock' \in Nat
  /\ RunsContinue

LEMMA NowsAreNaturals == ASSUME clock \in Nat PROVE Nows \subseteq Nat
BY DEF Nows

LEMMA InitEstablishesInv == Init => QueueInv
<1> SUFFICES ASSUME Init PROVE QueueInv
  OBVIOUS
<1>1. DOMAIN records = {} /\ RunningJobs(records) = {}
  BY DEF Init, RunningJobs
<1>2. SnapshotOK(records)
  BY <1>1, FS_EmptySet, QueueOptionsAssumption
  DEF SnapshotOK, UniqueKeys, OneRunningPerCase
<1> QED BY <1>1, <1>2, FS_EmptySet DEF Init, QueueInv, TypeOK

(* A step that lets the snapshot subside and leaves the bookkeeping alone. *)
LEMMA SubsidingStep ==
  ASSUME QueueInv, Subsides(records, records'),
         UNCHANGED <<issued, leases, claims, clock>>
  PROVE  QueueStep
BY SubsidesOK DEF QueueInv, TypeOK, QueueStep, RunsContinue, RunningJobs, Subsides

LEMMA EnqueueStep ==
  ASSUME QueueInv, NEW q \in Requests, Enqueue(q)
  PROVE  QueueStep
<1>1. PICK now \in Nows, id \in JobIds \ issued :
        /\ records' = AfterEnqueue(records, now, id, q)
        /\ issued' = IF id \in DOMAIN records' THEN issued \cup {id} ELSE issued
        /\ UNCHANGED <<leases, claims, clock>>
  BY DEF Enqueue
<1>2. now \in Nat /\ id \notin DOMAIN records /\ SnapshotOK(records)
  BY NowsAreNaturals DEF QueueInv, TypeOK
<1>3. /\ SnapshotOK(records')
      /\ DOMAIN records' \subseteq DOMAIN records \cup {id}
      /\ \A j \in DOMAIN records' : records'[j].state = "running" =>
           j \in DOMAIN records /\ SameRun(records[j], records'[j])
  BY <1>1, <1>2, EnqueueOK
<1>4. DOMAIN records' \subseteq issued' /\ issued' \subseteq JobIds
  BY <1>1, <1>3 DEF QueueInv, TypeOK
<1> QED BY <1>1, <1>3, <1>4 DEF QueueInv, TypeOK, QueueStep, RunsContinue, RunningJobs

LEMMA ClaimStep ==
  ASSUME QueueInv, NEW w \in Workers, NEW types, ClaimJob(w, types)
  PROVE  QueueStep
<1>1. PICK now \in Nows :
      \E id \in Candidates(Maintained(records, now), now, types) :
        /\ records' = AfterClaim(records, now, id, w, leases + 1)
        /\ leases' = leases + 1
        /\ claims' = claims \cup
             {[jobId |-> id, leaseId |-> leases + 1, workerId |-> w]}
        /\ UNCHANGED <<issued, clock>>
  BY DEF ClaimJob
<1>2. PICK id \in Candidates(Maintained(records, now), now, types) :
        /\ records' = AfterClaim(records, now, id, w, leases + 1)
        /\ leases' = leases + 1
        /\ claims' = claims \cup
             {[jobId |-> id, leaseId |-> leases + 1, workerId |-> w]}
        /\ UNCHANGED <<issued, clock>>
  BY <1>1
<1>3. now \in Nat /\ SnapshotOK(records) /\ leases + 1 \in Nat
  BY NowsAreNaturals DEF QueueInv, TypeOK
<1>4. /\ SnapshotOK(records')
      /\ id \in DOMAIN records' /\ DOMAIN records' \subseteq DOMAIN records
      /\ records'[id].leaseId = leases + 1
      /\ \A j \in DOMAIN records' : j # id => SameRun(records[j], records'[j])
  BY <1>2, <1>3, ClaimOK
<1>5. RunsContinue
  BY <1>2, <1>4 DEF RunsContinue, RunningJobs
<1>6. \A c \in claims' \ claims : c \in Claim /\ c.leaseId = leases'
  BY <1>2, <1>3, <1>4 DEF QueueInv, TypeOK, Claim
<1> QED BY <1>2, <1>4, <1>5, <1>6 DEF QueueInv, TypeOK, QueueStep

LEMMA StepShape == QueueInv /\ [Next]_vars => QueueStep
<1> SUFFICES ASSUME QueueInv, [Next]_vars PROVE QueueStep
  OBVIOUS
<1>1. SnapshotOK(records) /\ Nows \subseteq Nat
  BY NowsAreNaturals DEF QueueInv, TypeOK
<1>2. CASE UNCHANGED vars
  BY <1>1, <1>2, SubsidingStep, SameSubsides DEF vars
<1>3. ASSUME NEW w \in Workers, NEW types \in ClaimTypes, ClaimJob(w, types)
      PROVE  QueueStep
  BY <1>3, ClaimStep
<1>4. ASSUME NEW c \in claims, NEW retryable \in BOOLEAN,
             Renew(c) \/ Complete(c) \/ Fail(c, retryable)
      PROVE  QueueStep
  BY <1>1, <1>4, FinishSubsides, SubsidingStep DEF Renew, Complete, Fail
<1>5. ASSUME NEW c \in claims, Drop(c)
      PROVE  QueueStep
  <2>1. Subsides(records, records')
    BY <1>1, <1>5, SameSubsides DEF Drop
  <2> QED BY <1>1, <1>5, <2>1
          DEF Drop, QueueInv, TypeOK, QueueStep, RunsContinue, RunningJobs, Subsides
<1>6. ASSUME NEW q \in Requests, Enqueue(q)
      PROVE  QueueStep
  BY <1>6, EnqueueStep
<1>7. ASSUME NEW q \in Requests, NEW id \in issued, CancelJob(id, q) \/ Delete(id, q)
      PROVE  QueueStep
  BY <1>1, <1>7, CancelSubsides, RemovalSubsides, SubsidingStep DEF CancelJob, Delete
<1>8. ASSUME NEW q \in Requests,
             PurgeCase(q.actor, q.caseId) \/ PurgeDeletedCase(q.caseId)
      PROVE  QueueStep
  BY <1>1, <1>8, RemovalSubsides, SubsidingStep DEF PurgeCase, PurgeDeletedCase
<1>9. CASE Maintain
  BY <1>1, <1>9, MaintainedSubsides, SubsidingStep DEF Maintain
<1>10. CASE Tick
  <2>1. Subsides(records, records')
    BY <1>1, <1>10, SameSubsides DEF Tick
  <2> QED BY <1>1, <1>10, <2>1
          DEF Tick, QueueInv, TypeOK, QueueStep, RunsContinue, RunningJobs, Subsides
<1> QED
  BY <1>2, <1>3, <1>4, <1>5, <1>6, <1>7, <1>8, <1>9, <1>10
  DEF Next, WorkerNext, ClientNext

LEMMA StepKeepsInv == QueueInv /\ QueueStep => QueueInv'
<1> SUFFICES ASSUME QueueInv, QueueStep PROVE QueueInv'
  OBVIOUS
<1>1. TypeOK'
  BY DEF QueueInv, QueueStep, TypeOK, SnapshotOK, RecordOK
<1>2. \A c \in claims' : c.leaseId <= leases'
  <2>1. \A c \in claims' : c.leaseId \in Nat
    BY <1>1 DEF TypeOK, Claim
  <2> QED BY <1>1, <2>1 DEF QueueInv, QueueStep, TypeOK
<1>3. \A j \in RunningJobs(records') : records'[j].leaseId <= leases'
  <2> SUFFICES ASSUME NEW j \in RunningJobs(records')
               PROVE  records'[j].leaseId <= leases'
    OBVIOUS
  <2>1. j \in DOMAIN records' /\ RecordOK(records'[j]) /\ records'[j].state = "running"
    BY DEF QueueStep, SnapshotOK, RunningJobs
  <2>2. records'[j].leaseId \in Nat
    BY <2>1 DEF RecordOK, JobRecord, LeaseCoherent
  <2>3. CASE j \in DOMAIN records /\ SameRun(records[j], records'[j])
    <3>1. j \in RunningJobs(records) /\ records'[j].leaseId = records[j].leaseId
      BY <2>1, <2>3 DEF SameRun, RunningJobs
    <3> QED BY <2>2, <3>1 DEF QueueInv, QueueStep, TypeOK
  <2>4. CASE leases' = leases + 1 /\ records'[j].leaseId = leases'
    BY <2>2, <2>4
  <2> QED BY <2>3, <2>4 DEF QueueStep, RunsContinue
<1> QED BY <1>1, <1>2, <1>3 DEF QueueInv, QueueStep

THEOREM QueueInvariant == Spec => []QueueInv
<1>1. Init => QueueInv
  BY InitEstablishesInv
<1>2. QueueInv /\ [Next]_vars => QueueInv'
  BY StepShape, StepKeepsInv
<1> QED BY <1>1, <1>2, PTL DEF Spec

-----------------------------------------------------------------------------
(* The theorems. *)

(* Every stored record has the shape the code's schema gives it, and the   *)
(* stored jobs are jobs that were enqueued.                                *)
THEOREM TypeCorrect == Spec => []TypeOK
<1>1. QueueInv => TypeOK
  BY DEF QueueInv
<1> QED BY <1>1, QueueInvariant, PTL

(* assertSnapshotIntegrity never fails on what the queue itself wrote,     *)
(* whatever the limits and however many clients and workers there are.     *)
THEOREM QueueNeverCorrupt == Spec => []NeverCorrupt
<1>1. QueueInv => NeverCorrupt
  BY DEF QueueInv, SnapshotOK, RecordOK, NeverCorrupt, SnapshotIntegrity
<1> QED BY <1>1, QueueInvariant, PTL

(* A job that claim() may start always has an attempt left.                *)
THEOREM QueueAttemptsLeft == Spec => []QueuedHasAttemptsLeft
<1>1. QueueInv => QueuedHasAttemptsLeft
  BY DEF QueueInv, SnapshotOK, RecordOK, QueuedHasAttemptsLeft
<1> QED BY <1>1, QueueInvariant, PTL

(* No operation ever makes a refused lease valid again.                    *)
THEOREM LeaseIsLostForGood == Spec => LostLeaseStaysLost
<1>1. QueueInv /\ [Next]_vars =>
        [\A c \in claims \cap claims' :
           ~HoldsLease(records, c) => ~HoldsLease(records', c)]_vars
  <2> SUFFICES ASSUME QueueInv, QueueStep, NEW c \in claims, HoldsLease(records', c)
               PROVE  HoldsLease(records, c)
    BY StepShape
  <2>1. c.jobId \in RunningJobs(records') /\ c.leaseId <= leases
        /\ c.leaseId \in Nat /\ leases \in Nat
    BY DEF HoldsLease, RunningJobs, QueueInv, TypeOK, Claim
  <2>2. records'[c.jobId].leaseId # leases + 1
    BY <2>1 DEF HoldsLease
  <2>3. c.jobId \in DOMAIN records /\ SameRun(records[c.jobId], records'[c.jobId])
    BY <2>1, <2>2 DEF QueueStep, RunsContinue
  <2> QED BY <2>3 DEF SameRun, HoldsLease
<1> QED BY <1>1, QueueInvariant, PTL DEF Spec, LostLeaseStaysLost
-----------------------------------------------------------------------------
(***************************************************************************)
(* JobQueue implements LeasedJobs, and never loses work that has not       *)
(* settled, for every choice of the constants.  As above the operations    *)
(* fall into three groups: those that only move records towards their end, *)
(* enqueue() and claim().  RecordMove says what may happen to one stored   *)
(* record, Moved what that means for the job it belongs to; a Moved job    *)
(* makes a Move of LeasedJobs.                                             *)
(***************************************************************************)

(* s is what became of the stored record r without a new lease; held says  *)
(* that some worker could still prove to hold r's lease.                   *)
RecordMove(r, s, held) ==
  \/ /\ s.state = r.state /\ s.attempt = r.attempt /\ s.leaseId = r.leaseId
  \/ /\ s.attempt = r.attempt /\ s.leaseId = Null
     /\ \/ r.state = "running" /\ s.state = "queued" /\ r.attempt < MaxAttempts
        \/ r.state = "running" /\ s.state = "succeeded" /\ held
        \/ r.state = "running" /\ s.state = "failed" /\ (held \/ r.attempt = MaxAttempts)
        \/ r.state \in {"queued", "running"} /\ s.state = "cancelled"

Held(j) == \E c \in claims : c.jobId = j /\ c.leaseId = JobHolder(j)

Same(j) ==
  /\ JobPhase(j)' = JobPhase(j)
  /\ JobAttempts(j)' = JobAttempts(j)
  /\ JobHolder(j)' = JobHolder(j)

Moved(j) ==
  \/ Same(j)
  \/ /\ JobPhase(j) = "new" /\ JobPhase(j)' = "queued"
     /\ JobAttempts(j)' = 0 /\ JobHolder(j)' = Null
  \/ /\ JobPhase(j) \in {"queued", "running"} /\ JobPhase(j)' = "running"
     /\ JobAttempts(j) < MaxAttempts /\ JobAttempts(j)' = JobAttempts(j) + 1
     /\ leases' = leases + 1 /\ JobHolder(j)' = leases'
  \/ /\ JobAttempts(j)' = JobAttempts(j) /\ JobHolder(j)' = Null
     /\ \/ /\ JobPhase(j) = "running" /\ JobPhase(j)' = "queued"
           /\ JobAttempts(j) < MaxAttempts
        \/ JobPhase(j) = "running" /\ JobPhase(j)' = "succeeded" /\ Held(j)
        \/ /\ JobPhase(j) = "running" /\ JobPhase(j)' = "failed"
           /\ Held(j) \/ JobAttempts(j) = MaxAttempts
        \/ JobPhase(j) \in {"queued", "running"} /\ JobPhase(j)' = "cancelled"
  \/ /\ JobPhase(j) # "new" /\ JobPhase(j)' = "gone"
     /\ JobAttempts(j)' = 0 /\ JobHolder(j)' = Null

LEMMA MovedIsAMove ==
  ASSUME NEW j \in JobIds, Moved(j)
  PROVE  Life!Move(j)
<1>1. Held(j) <=> Life!HeldByWorker(j)
  BY DEF Held, Life!HeldByWorker
<1> QED
  BY <1>1
  DEF Moved, Same, Life!Move, Life!Stay, Life!Submit, Life!Grant, Life!Requeue,
      Life!Succeed, Life!Break, Life!Cancel, Life!Forget

-----------------------------------------------------------------------------
(* Records. *)

LEMMA MaintainedMoves ==
  ASSUME NEW rs, SnapshotOK(rs), NEW now \in Nat,
         NEW j \in DOMAIN Maintained(rs, now), NEW held \in BOOLEAN
  PROVE  /\ j \in DOMAIN rs
         /\ RecordMove(rs[j], Maintained(rs, now)[j], held)
         /\ Maintained(rs, now)[j].state = "running" =>
              Maintained(rs, now)[j] = rs[j]
<1> DEFINE r == rs[j]
           s == Maintained(rs, now)[j]
<1>1. j \in DOMAIN rs /\ RecordOK(r)
  BY DEF Maintained, SnapshotOK
<1>2. CASE ~LeaseExpired(r, now)
  <2>1. s = r
    BY <1>1, <1>2 DEF Maintained
  <2> QED BY <1>1, <2>1 DEF RecordMove
<1>3. CASE LeaseExpired(r, now)
  <2>1. s = Reclaimed(r, now) /\ r.state = "running"
    BY <1>1, <1>3 DEF Maintained, LeaseExpired
  <2>2. r.attempt \in Nat /\ r.attempt <= MaxAttempts /\ MaxAttempts \in Nat
    BY <1>1, QueueOptionsAssumption DEF RecordOK, JobRecord
  <2>3. /\ s.attempt = r.attempt /\ s.leaseId = Null
        /\ s.state = IF r.attempt >= MaxAttempts THEN "failed" ELSE "queued"
    BY <1>1, <2>1 DEF RecordOK, JobRecord, Reclaimed, Unleased
  <2>4. CASE r.attempt >= MaxAttempts
    BY <1>1, <2>1, <2>2, <2>3, <2>4 DEF RecordMove
  <2>5. CASE ~(r.attempt >= MaxAttempts)
    BY <1>1, <2>1, <2>2, <2>3, <2>5 DEF RecordMove
  <2> QED BY <2>4, <2>5
<1> QED BY <1>2, <1>3

(* A step that stores, for every job it keeps, a moved record.             *)
LEMMA RecordMovesAreMoves ==
  ASSUME QueueInv, DOMAIN records' \subseteq DOMAIN records, issued' = issued,
         \A j \in DOMAIN records' : RecordMove(records[j], records'[j], Held(j)),
         NEW j \in JobIds
  PROVE  Moved(j)
<1>1. DOMAIN records \subseteq issued
  BY DEF QueueInv, TypeOK
<1>2. CASE j \notin DOMAIN records
  BY <1>1, <1>2 DEF Moved, Same, JobPhase, JobAttempts, JobHolder
<1>3. CASE j \in DOMAIN records /\ j \notin DOMAIN records'
  <2>1. JobPhase(j) # "new"
    BY <1>1, <1>3 DEF JobPhase, QueueInv, SnapshotOK, RecordOK, JobRecord, JobStates
  <2> QED BY <1>1, <1>3, <2>1 DEF Moved, JobPhase, JobAttempts, JobHolder
<1>4. CASE j \in DOMAIN records'
  <2>1. /\ JobPhase(j) = records[j].state /\ JobPhase(j)' = records'[j].state
        /\ JobAttempts(j) = records[j].attempt /\ JobAttempts(j)' = records'[j].attempt
        /\ JobHolder(j) = records[j].leaseId /\ JobHolder(j)' = records'[j].leaseId
    BY <1>4 DEF JobPhase, JobAttempts, JobHolder
  <2> QED BY <1>4, <2>1 DEF RecordMove, Moved, Same
<1> QED BY <1>2, <1>3, <1>4

-----------------------------------------------------------------------------
(* Operations. *)

RecordsMove(rs, ss) ==
  /\ DOMAIN ss \subseteq DOMAIN rs
  /\ \A j \in DOMAIN ss : RecordMove(rs[j], ss[j], Held(j))

LEMMA HeldIsBoolean == \A j : Held(j) \in BOOLEAN
BY DEF Held

(* Renew, complete and fail move the record of the job whose lease the     *)
(* claim proves.                                                           *)
LEMMA FinishMoves ==
  ASSUME QueueInv, NEW now \in Nat, NEW c \in claims, NEW retryable \in BOOLEAN
  PROVE  /\ RecordsMove(records, AfterRenew(records, now, c))
         /\ RecordsMove(records, AfterComplete(records, now, c))
         /\ RecordsMove(records, AfterFail(records, now, c, retryable))
<1> DEFINE m == Maintained(records, now)
<1>1. /\ SnapshotOK(records) /\ SnapshotOK(m) /\ DOMAIN m \subseteq DOMAIN records
      /\ \A j \in DOMAIN m :
           /\ RecordMove(records[j], m[j], Held(j))
           /\ m[j].state = "running" => m[j] = records[j]
  BY MaintainedMoves, MaintainedOK, MaintainedSubsides, HeldIsBoolean
  DEF QueueInv, Subsides
<1>2. CASE ~HoldsLease(m, c)
  BY <1>1, <1>2 DEF RecordsMove, AfterRenew, AfterComplete, AfterFail
<1>3. CASE HoldsLease(m, c)
  <2>1. PICK id \in DOMAIN m : /\ id = c.jobId /\ m[id] = records[id]
                               /\ m[id].state = "running" /\ m[id].leaseId = c.leaseId
    BY <1>1, <1>3 DEF HoldsLease
  <2>2. RecordOK(m[id]) /\ id \in DOMAIN records
    BY <1>1 DEF SnapshotOK
  <2>3. Held(id)
    BY <2>1, <2>2 DEF Held, JobHolder
  <2>4. ASSUME NEW r, RecordMove(m[id], r, TRUE)
        PROVE  RecordsMove(records, [m EXCEPT ![id] = r])
    BY <1>1, <2>1, <2>3, <2>4 DEF RecordsMove, RecordMove
  <2> HIDE DEF m
  <2>5. RecordsMove(records, AfterRenew(records, now, c))
    <3>1. AfterRenew(records, now, c) = [m EXCEPT ![id] = Renewed(m[id], now)]
      BY <1>3, <2>1 DEF AfterRenew, m
    <3>2. RecordMove(m[id], Renewed(m[id], now), TRUE)
      BY <2>2 DEF RecordMove, Renewed, RecordOK, JobRecord
    <3> QED BY <2>4, <3>1, <3>2
  <2>6. RecordsMove(records, AfterComplete(records, now, c))
    <3>1. AfterComplete(records, now, c) = [m EXCEPT ![id] = Completed(m[id], now)]
      BY <1>3, <2>1 DEF AfterComplete, m
    <3>2. RecordMove(m[id], Completed(m[id], now), TRUE)
      BY <2>1, <2>2 DEF RecordMove, Completed, Unleased, RecordOK, JobRecord
    <3> QED BY <2>4, <3>1, <3>2
  <2>7. RecordsMove(records, AfterFail(records, now, c, retryable))
    <3>1. AfterFail(records, now, c, retryable) =
            [m EXCEPT ![id] = Failed(m[id], now, retryable)]
      BY <1>3, <2>1 DEF AfterFail, m
    <3>2. /\ Failed(m[id], now, retryable).attempt = m[id].attempt
          /\ Failed(m[id], now, retryable).leaseId = Null
          /\ Failed(m[id], now, retryable).state =
               IF retryable /\ m[id].attempt < MaxAttempts THEN "queued" ELSE "failed"
      BY <2>2 DEF Failed, Unleased, RecordOK, JobRecord
    <3>3. RecordMove(m[id], Failed(m[id], now, retryable), TRUE)
      BY <2>1, <3>2 DEF RecordMove
    <3> QED BY <2>4, <3>1, <3>3
  <2> QED BY <2>5, <2>6, <2>7
<1> QED BY <1>2, <1>3

LEMMA CancelMoves ==
  ASSUME QueueInv, NEW now \in Nat, NEW id, NEW actor, NEW caseId, NEW expected
  PROVE  RecordsMove(records, AfterCancel(records, now, id, actor, caseId, expected))
<1> DEFINE m == Maintained(records, now)
           cancels == /\ Names(m, id, actor, caseId)
                      /\ m[id].request.expectedRevision = expected
                      /\ ~IsTerminal(m[id])
<1>1. /\ SnapshotOK(records) /\ SnapshotOK(m) /\ DOMAIN m \subseteq DOMAIN records
      /\ \A j \in DOMAIN m : RecordMove(records[j], m[j], Held(j))
  BY MaintainedMoves, MaintainedOK, MaintainedSubsides, HeldIsBoolean
  DEF QueueInv, Subsides
<1>2. CASE ~cancels
  BY <1>1, <1>2 DEF RecordsMove, AfterCancel
<1>3. CASE cancels
  <2>1. id \in DOMAIN m /\ RecordOK(m[id]) /\ m[id].state \in {"queued", "running"}
    BY <1>1, <1>3 DEF Names, SnapshotOK, RecordOK, JobRecord, JobStates, IsTerminal
  <2>2. AfterCancel(records, now, id, actor, caseId, expected) =
          [m EXCEPT ![id] = Cancelled(m[id], now)]
    BY <1>3, <2>1 DEF AfterCancel
  <2>3. /\ Cancelled(m[id], now).state = "cancelled"
        /\ Cancelled(m[id], now).attempt = m[id].attempt
        /\ Cancelled(m[id], now).leaseId = Null
    BY <2>1 DEF Cancelled, Unleased, RecordOK, JobRecord
  <2>4. RecordMove(records[id], Cancelled(m[id], now), Held(id))
    BY <1>1, <2>1, <2>3 DEF RecordMove
  <2> HIDE DEF m
  <2> QED BY <1>1, <2>1, <2>2, <2>4 DEF RecordsMove
<1> QED BY <1>2, <1>3

LEMMA RemovalMoves ==
  ASSUME QueueInv, NEW now \in Nat, NEW id, NEW actor, NEW caseId
  PROVE  /\ RecordsMove(records, Maintained(records, now))
         /\ RecordsMove(records, AfterDelete(records, now, id, actor, caseId))
         /\ RecordsMove(records, AfterPurgeCase(records, now, actor, caseId))
         /\ RecordsMove(records, AfterPurgeDeletedCase(records, now, caseId))
<1> DEFINE m == Maintained(records, now)
<1>1. /\ DOMAIN m \subseteq DOMAIN records
      /\ \A j \in DOMAIN m : RecordMove(records[j], m[j], Held(j))
  BY MaintainedMoves, MaintainedSubsides, HeldIsBoolean DEF QueueInv, Subsides
<1> HIDE DEF m
<1>2. RecordsMove(records, m) /\ \A gone : RecordsMove(records, Without(m, gone))
  BY <1>1 DEF RecordsMove, Without
<1> QED
  BY <1>2 DEF m, AfterDelete, AfterPurgeCase, AfterPurgeDeletedCase

(* enqueue() of a new id makes that job queued and moves the others as the *)
(* maintenance does.                                                       *)
LEMMA EnqueueMoves ==
  ASSUME QueueInv, NEW q \in Requests, Enqueue(q), NEW j \in JobIds
  PROVE  Moved(j)
<1>1. PICK now \in Nows, id \in JobIds \ issued :
        /\ records' = AfterEnqueue(records, now, id, q)
        /\ issued' = IF id \in DOMAIN records' THEN issued \cup {id} ELSE issued
        /\ UNCHANGED <<leases, claims, clock>>
  BY DEF Enqueue
<1> DEFINE m == Maintained(records, now)
<1>2. /\ now \in Nat /\ DOMAIN records \subseteq issued
      /\ RecordsMove(records, m) /\ DOMAIN m \subseteq DOMAIN records
  BY NowsAreNaturals, RemovalMoves DEF QueueInv, TypeOK, RecordsMove
<1>3. CASE ~Accepts(m, q)
  <2>1. records' = m /\ issued' = issued
    BY <1>1, <1>2, <1>3 DEF AfterEnqueue
  <2> QED BY <1>2, <2>1, RecordMovesAreMoves DEF RecordsMove
<1>4. CASE Accepts(m, q)
  <2>1. /\ DOMAIN records' = DOMAIN m \cup {id} /\ issued' = issued \cup {id}
        /\ records'[id] = NewRecord(q, now)
        /\ \A i \in DOMAIN m : i # id /\ records'[i] = m[i]
    BY <1>1, <1>2, <1>4 DEF AfterEnqueue
  <2> HIDE DEF m
  <2>2. CASE j = id
    <3>1. /\ JobPhase(j) = "new" /\ JobPhase(j)' = "queued"
          /\ JobAttempts(j)' = 0 /\ JobHolder(j)' = Null
      BY <1>2, <2>1, <2>2 DEF JobPhase, JobAttempts, JobHolder, NewRecord
    <3> QED BY <3>1 DEF Moved
  <2>3. CASE j # id
    <3>1. j \in issued' <=> j \in issued
      BY <2>1, <2>3
    <3>2. CASE j \in DOMAIN m
      <4>1. /\ JobPhase(j) = records[j].state /\ JobPhase(j)' = m[j].state
            /\ JobAttempts(j) = records[j].attempt /\ JobAttempts(j)' = m[j].attempt
            /\ JobHolder(j) = records[j].leaseId /\ JobHolder(j)' = m[j].leaseId
        BY <1>2, <2>1, <3>2 DEF JobPhase, JobAttempts, JobHolder
      <4> QED BY <1>2, <3>2, <4>1 DEF RecordsMove, RecordMove, Moved, Same
    <3>3. CASE j \notin DOMAIN m /\ j \in DOMAIN records
      <4>1. JobPhase(j) # "new"
        BY <3>3 DEF JobPhase, QueueInv, SnapshotOK, RecordOK, JobRecord, JobStates
      <4>2. /\ JobPhase(j)' = "gone" /\ JobAttempts(j)' = 0 /\ JobHolder(j)' = Null
        BY <1>2, <2>1, <2>3, <3>1, <3>3 DEF JobPhase, JobAttempts, JobHolder
      <4> QED BY <4>1, <4>2 DEF Moved
    <3>4. CASE j \notin DOMAIN records
      BY <1>2, <2>1, <2>3, <3>1, <3>4 DEF Moved, Same, JobPhase, JobAttempts, JobHolder
    <3> QED BY <3>2, <3>3, <3>4
  <2> QED BY <2>2, <2>3
<1> QED BY <1>3, <1>4

(* claim() grants the newest lease to a job that was queued, or running    *)
(* under a lease that has run out.                                         *)
LEMMA ClaimMoves ==
  ASSUME QueueInv, NEW w \in Workers, NEW types, ClaimJob(w, types), NEW j \in JobIds
  PROVE  Moved(j)
<1>1. PICK now \in Nows :
      \E id \in Candidates(Maintained(records, now), now, types) :
        /\ records' = AfterClaim(records, now, id, w, leases + 1)
        /\ leases' = leases + 1
        /\ UNCHANGED <<issued, clock>>
  BY DEF ClaimJob
<1> DEFINE m == Maintained(records, now)
<1>2. PICK id \in Candidates(m, now, types) :
        /\ records' = AfterClaim(records, now, id, w, leases + 1)
        /\ leases' = leases + 1
        /\ UNCHANGED <<issued, clock>>
  BY <1>1
<1>3. /\ now \in Nat /\ DOMAIN records \subseteq issued
      /\ RecordsMove(records, m) /\ SnapshotOK(m)
      /\ DOMAIN m \subseteq DOMAIN records
  BY NowsAreNaturals, RemovalMoves, MaintainedOK DEF QueueInv, TypeOK, RecordsMove
<1>4. /\ id \in DOMAIN m /\ m[id].state = "queued"
      /\ records' = [m EXCEPT ![id] = Leased(m[id], now, w, leases + 1)]
  BY <1>2 DEF Candidates, Claimable, AfterClaim
<1> HIDE DEF m
<1>5. CASE j = id
  <2>1. RecordOK(m[id]) /\ id \in DOMAIN records /\ RecordMove(records[id], m[id], Held(id))
    BY <1>3, <1>4 DEF SnapshotOK, RecordsMove
  <2>2. /\ records'[id].state = "running" /\ records'[id].leaseId = leases + 1
        /\ records'[id].attempt = m[id].attempt + 1
    BY <1>4, <2>1 DEF Leased, RecordOK, JobRecord
  <2>3. /\ records[id].state \in {"queued", "running"}
        /\ records[id].attempt = m[id].attempt /\ m[id].attempt < MaxAttempts
    BY <1>4, <2>1 DEF RecordMove, RecordOK
  <2>4. /\ JobPhase(j) = records[id].state /\ JobPhase(j)' = records'[id].state
        /\ JobAttempts(j) = records[id].attempt /\ JobAttempts(j)' = records'[id].attempt
        /\ JobHolder(j)' = records'[id].leaseId
    BY <1>4, <1>5, <2>1 DEF JobPhase, JobAttempts, JobHolder
  <2> QED BY <1>2, <2>2, <2>3, <2>4 DEF Moved
<1>6. CASE j # id
  <2>1. CASE j \in DOMAIN m
    <3>1. records'[j] = m[j] /\ j \in DOMAIN records /\ j \in DOMAIN records'
      BY <1>3, <1>4, <1>6, <2>1
    <3>2. /\ JobPhase(j) = records[j].state /\ JobPhase(j)' = m[j].state
          /\ JobAttempts(j) = records[j].attempt /\ JobAttempts(j)' = m[j].attempt
          /\ JobHolder(j) = records[j].leaseId /\ JobHolder(j)' = m[j].leaseId
      BY <3>1 DEF JobPhase, JobAttempts, JobHolder
    <3> QED BY <1>3, <2>1, <3>2 DEF RecordsMove, RecordMove, Moved, Same
  <2>2. CASE j \notin DOMAIN m /\ j \in DOMAIN records
    <3>1. JobPhase(j) # "new"
      BY <2>2 DEF JobPhase, QueueInv, SnapshotOK, RecordOK, JobRecord, JobStates
    <3>2. /\ JobPhase(j)' = "gone" /\ JobAttempts(j)' = 0 /\ JobHolder(j)' = Null
      BY <1>2, <1>3, <1>4, <2>2 DEF JobPhase, JobAttempts, JobHolder
    <3> QED BY <3>1, <3>2 DEF Moved
  <2>3. CASE j \notin DOMAIN records
    BY <1>2, <1>3, <1>4, <2>3 DEF Moved, Same, JobPhase, JobAttempts, JobHolder
  <2> QED BY <2>1, <2>2, <2>3
<1> QED BY <1>5, <1>6

LEMMA StepMoves ==
  ASSUME QueueInv, Next, NEW j \in JobIds
  PROVE  Moved(j)
<1>1. Nows \subseteq Nat
  BY NowsAreNaturals DEF QueueInv, TypeOK
<1>2. ASSUME RecordsMove(records, records'), issued' = issued
      PROVE  Moved(j)
  BY <1>2, RecordMovesAreMoves DEF RecordsMove
<1>3. ASSUME UNCHANGED records, UNCHANGED issued
      PROVE  Moved(j)
  BY <1>3 DEF Moved, Same, JobPhase, JobAttempts, JobHolder
<1>4. ASSUME NEW w \in Workers, NEW types \in ClaimTypes, ClaimJob(w, types)
      PROVE  Moved(j)
  BY <1>4, ClaimMoves
<1>5. ASSUME NEW c \in claims, NEW retryable \in BOOLEAN,
             Renew(c) \/ Complete(c) \/ Fail(c, retryable)
      PROVE  Moved(j)
  BY <1>1, <1>2, <1>5, FinishMoves DEF Renew, Complete, Fail
<1>6. ASSUME NEW q \in Requests, Enqueue(q)
      PROVE  Moved(j)
  BY <1>6, EnqueueMoves
<1>7. ASSUME NEW q \in Requests, NEW id \in issued, CancelJob(id, q) \/ Delete(id, q)
      PROVE  Moved(j)
  BY <1>1, <1>2, <1>7, CancelMoves, RemovalMoves DEF CancelJob, Delete
<1>8. ASSUME NEW q \in Requests,
             PurgeCase(q.actor, q.caseId) \/ PurgeDeletedCase(q.caseId)
      PROVE  Moved(j)
  BY <1>1, <1>2, <1>8, RemovalMoves DEF PurgeCase, PurgeDeletedCase
<1>9. CASE Maintain
  BY <1>1, <1>2, <1>9, RemovalMoves DEF Maintain
<1>10. ASSUME NEW c \in claims, Drop(c)
       PROVE  Moved(j)
  BY <1>3, <1>10 DEF Drop
<1>11. CASE Tick
  BY <1>3, <1>11 DEF Tick
<1> QED
  BY <1>4, <1>5, <1>6, <1>7, <1>8, <1>9, <1>10, <1>11
  DEF Next, WorkerNext, ClientNext

-----------------------------------------------------------------------------
(* The theorem. *)

(* The queue, with its snapshots, clocks, capacity, retention and purges,  *)
(* gives every job the life that LeasedJobs describes: leases one after    *)
(* the other and at most MaxAttempts of them, success only by a holder of  *)
(* the current lease, no way back from a settled state or from deletion.   *)
THEOREM QueueImplementsLife == Spec => LifeSpec
<1>1. Init => Life!Init
  BY DEF Init, Life!Init, JobPhase, JobAttempts, JobHolder
<1>2. QueueInv /\ [Next]_vars => [Life!Next]_(Life!vars)
  <2> SUFFICES ASSUME QueueInv, [Next]_vars
               PROVE  Life!Next \/ UNCHANGED Life!vars
    OBVIOUS
  <2>1. CASE UNCHANGED vars
    BY <2>1 DEF vars, Life!vars, JobPhase, JobAttempts, JobHolder
  <2>2. CASE Next
    <3>1. \A j \in JobIds : Life!Move(j)
      BY <2>2, StepMoves, MovedIsAMove
    <3>2. leases' \in {leases, leases + 1}
      BY StepShape DEF QueueStep
    <3>3. \A c \in claims' \ claims : c.leaseId = leases + 1 /\ leases' = leases + 1
      BY <2>2
      DEF Next, WorkerNext, ClientNext, ClaimJob, Renew, Complete, Fail, Drop,
          Enqueue, CancelJob, Delete, PurgeCase, PurgeDeletedCase, Maintain, Tick
    <3> QED BY <3>1, <3>2, <3>3 DEF Life!Next
  <2> QED BY <2>1, <2>2
<1> QED BY <1>1, <1>2, QueueInvariant, PTL DEF Spec, LifeSpec, Life!Spec

-----------------------------------------------------------------------------
(* Live work. *)

Kept(j) ==
  \/ IsTerminal(records[j])
  \/ LeaseExpired(records[j], clock) /\ records[j].attempt = MaxAttempts
  \/ \A i \in DOMAIN records' :
       \/ records'[i].request.actor # records[j].request.actor
       \/ records'[i].request.caseId # records[j].request.caseId

(* What the maintenance drops is terminal; what it makes terminal is a job *)
(* whose last lease has run out.                                           *)
LEMMA MaintenanceKeeps ==
  ASSUME NEW rs, SnapshotOK(rs), clock \in Nat, NEW now \in Nows, NEW j \in DOMAIN rs
  PROVE  LET m == Maintained(rs, now)
         IN  /\ j \notin DOMAIN m => IsTerminal(rs[j])
             /\ j \in DOMAIN m => m[j].request = rs[j].request
             /\ j \in DOMAIN m /\ IsTerminal(m[j]) =>
                  \/ IsTerminal(rs[j])
                  \/ LeaseExpired(rs[j], clock) /\ rs[j].attempt = MaxAttempts
<1> DEFINE m == Maintained(rs, now)
           r == rs[j]
<1>1. RecordOK(r) /\ now \in Nat /\ now <= clock
  BY NowsAreNaturals DEF SnapshotOK, Nows
<1>2. CASE j \notin DOMAIN m
  BY <1>2 DEF Maintained, RetentionOver
<1>3. CASE j \in DOMAIN m /\ ~LeaseExpired(r, now)
  BY <1>3 DEF Maintained
<1>4. CASE j \in DOMAIN m /\ LeaseExpired(r, now)
  <2>1. m[j] = Reclaimed(r, now)
    BY <1>4 DEF Maintained
  <2>2. /\ m[j].request = r.request
        /\ m[j].state = IF r.attempt >= MaxAttempts THEN "failed" ELSE "queued"
    BY <1>1, <2>1 DEF RecordOK, JobRecord, Reclaimed, Unleased
  <2>3. LeaseExpired(r, clock)
    BY <1>1, <1>4 DEF LeaseExpired, RecordOK, JobRecord
  <2>4. r.attempt \in Nat /\ r.attempt <= MaxAttempts /\ MaxAttempts \in Nat
    BY <1>1, QueueOptionsAssumption DEF RecordOK, JobRecord
  <2>5. IsTerminal(m[j]) => r.attempt = MaxAttempts
    BY <2>2, <2>4 DEF IsTerminal
  <2> QED BY <1>4, <2>2, <2>3, <2>5
<1> QED BY <1>2, <1>3, <1>4

(* Work that has not settled is never dropped for room or by age: it goes  *)
(* only with its whole case, or failed after its last lease ran out.       *)
THEOREM QueueKeepsLiveWork == Spec => LiveWorkIsKept
<1>1. ASSUME QueueInv, Next, NEW j \in DOMAIN records \ DOMAIN records'
      PROVE  Kept(j)
  <2>1. SnapshotOK(records) /\ clock \in Nat /\ Nows \subseteq Nat
    BY <1>1, NowsAreNaturals DEF QueueInv, TypeOK
  <2>2. ASSUME NEW now \in Nows, DOMAIN Maintained(records, now) \subseteq DOMAIN records'
        PROVE  Kept(j)
    BY <1>1, <2>1, <2>2, MaintenanceKeeps DEF Kept
  <2>3. ASSUME NEW q \in Requests, Enqueue(q)
        PROVE  Kept(j)
    BY <2>2, <2>3 DEF Enqueue, AfterEnqueue
  <2>4. ASSUME NEW w \in Workers, NEW types \in ClaimTypes, ClaimJob(w, types)
        PROVE  Kept(j)
    BY <2>2, <2>4 DEF ClaimJob, AfterClaim
  <2>5. ASSUME NEW c \in claims, NEW retryable \in BOOLEAN,
               Renew(c) \/ Complete(c) \/ Fail(c, retryable)
        PROVE  Kept(j)
    BY <2>2, <2>5 DEF Renew, Complete, Fail, AfterRenew, AfterComplete, AfterFail
  <2>6. ASSUME NEW q \in Requests, NEW id \in issued, CancelJob(id, q)
        PROVE  Kept(j)
    BY <2>2, <2>6 DEF CancelJob, AfterCancel
  <2>7. ASSUME NEW q \in Requests, NEW id \in issued, Delete(id, q)
        PROVE  Kept(j)
    <3>1. PICK now \in Nows : records' = AfterDelete(records, now, id, q.actor, q.caseId)
      BY <2>7 DEF Delete
    <3> DEFINE m == Maintained(records, now)
    <3>2. CASE j = id /\ id \in DOMAIN m /\ IsTerminal(m[id])
      BY <1>1, <2>1, <3>2, MaintenanceKeeps DEF Kept
    <3>3. CASE ~(j = id /\ id \in DOMAIN m /\ IsTerminal(m[id]))
      <4>1. j \notin DOMAIN m
        BY <1>1, <3>1, <3>3 DEF AfterDelete, Without, Names
      <4> QED BY <1>1, <2>1, <4>1, MaintenanceKeeps DEF Kept
    <3> QED BY <3>2, <3>3
  <2>8. ASSUME NEW q \in Requests,
               PurgeCase(q.actor, q.caseId) \/ PurgeDeletedCase(q.caseId)
        PROVE  Kept(j)
    <3>1. PICK now \in Nows :
            \/ records' = AfterPurgeCase(records, now, q.actor, q.caseId)
            \/ records' = AfterPurgeDeletedCase(records, now, q.caseId)
      BY <2>8 DEF PurgeCase, PurgeDeletedCase
    <3> DEFINE m == Maintained(records, now)
    <3>2. CASE j \notin DOMAIN m
      BY <1>1, <2>1, <3>2, MaintenanceKeeps DEF Kept
    <3>3. CASE j \in DOMAIN m
      <4>1. m[j].request = records[j].request
        BY <1>1, <2>1, <3>3, MaintenanceKeeps
      <4>2. CASE records' = AfterPurgeCase(records, now, q.actor, q.caseId)
        <5>1. /\ m[j].request.actor = q.actor /\ m[j].request.caseId = q.caseId
              /\ \A i \in DOMAIN records' :
                   records'[i] = m[i] /\ ~Names(m, i, q.actor, q.caseId) /\ i \in DOMAIN m
          BY <1>1, <3>3, <4>2 DEF AfterPurgeCase, Without, Names
        <5> QED BY <4>1, <5>1 DEF Kept, Names
      <4>3. CASE records' = AfterPurgeDeletedCase(records, now, q.caseId)
        <5>1. /\ m[j].request.caseId = q.caseId
              /\ \A i \in DOMAIN records' :
                   records'[i] = m[i] /\ m[i].request.caseId # q.caseId
          BY <1>1, <3>3, <4>3 DEF AfterPurgeDeletedCase, Without
        <5> QED BY <4>1, <5>1 DEF Kept
      <4> QED BY <3>1, <4>2, <4>3
    <3> QED BY <3>2, <3>3
  <2>9. CASE Maintain
    BY <2>2, <2>9 DEF Maintain
  <2>10. ASSUME UNCHANGED records PROVE Kept(j)
    BY <1>1, <2>10
  <2> QED
    BY <1>1, <2>3, <2>4, <2>5, <2>6, <2>7, <2>8, <2>9, <2>10
    DEF Next, WorkerNext, ClientNext, Drop, Tick
<1>2. QueueInv /\ [Next]_vars =>
        [\A j \in DOMAIN records \ DOMAIN records' :
           \/ IsTerminal(records[j])
           \/ LeaseExpired(records[j], clock) /\ records[j].attempt = MaxAttempts
           \/ \A i \in DOMAIN records' :
                \/ records'[i].request.actor # records[j].request.actor
                \/ records'[i].request.caseId # records[j].request.caseId]_vars
  BY <1>1 DEF Kept
<1> QED BY <1>2, QueueInvariant, PTL DEF Spec, LiveWorkIsKept

-----------------------------------------------------------------------------
(***************************************************************************)
(* The queue in memory.  Each of its steps is a step of the stored queue   *)
(* at the clock as it stands, or a change of the clock; whichever way that *)
(* goes, the records keep their order and the index names just them.       *)
(***************************************************************************)
VARIABLE index

Memory == INSTANCE MemoryJobQueue WITH MaxLeases <- MaxClaims

LEMMA MemoryOperations ==
  ASSUME NEW rs, NEW now, NEW c, NEW id, NEW w, NEW l, NEW q, NEW retryable, NEW types
  PROVE  /\ Memory!Maintained(rs, now) = Maintained(rs, now)
         /\ Memory!NewRecord(q, now) = NewRecord(q, now)
         /\ Memory!Candidates(rs, now, types) = Candidates(rs, now, types)
         /\ Memory!AfterClaim(rs, now, id, w, l) = AfterClaim(rs, now, id, w, l)
         /\ Memory!AfterComplete(rs, now, c) = AfterComplete(rs, now, c)
         /\ Memory!AfterFail(rs, now, c, retryable) = AfterFail(rs, now, c, retryable)
<1>c. \A S : Memory!Cardinality(S) = Cardinality(S)
  BY DEF Memory!Cardinality, Cardinality, Memory!IsFiniteSet, IsFiniteSet
<1>1. \A ss : Memory!Maintained(ss, now) = Maintained(ss, now)
  BY DEF Memory!Maintained, Maintained, Memory!RetentionOver, RetentionOver, Memory!IsTerminal,
         IsTerminal, Memory!LeaseExpired, LeaseExpired, Memory!Reclaimed, Reclaimed,
         Memory!Unleased, Unleased
<1>2. Memory!NewRecord(q, now) = NewRecord(q, now)
  BY DEF Memory!NewRecord, NewRecord
<1>3. Memory!Candidates(rs, now, types) = Candidates(rs, now, types)
  BY <1>c DEF Memory!Candidates, Candidates, Memory!Claimable, Claimable, Memory!IdleCase, IdleCase,
         Memory!RunningJobs, RunningJobs, Memory!Before, Before
<1>4. Memory!AfterClaim(rs, now, id, w, l) = AfterClaim(rs, now, id, w, l)
  BY <1>1 DEF Memory!AfterClaim, AfterClaim, Memory!Leased, Leased
<1>h. \A ss : Memory!HoldsLease(ss, c) <=> HoldsLease(ss, c)
  BY DEF Memory!HoldsLease, HoldsLease
<1>f. \A r : /\ Memory!Completed(r, now) = Completed(r, now)
             /\ Memory!Failed(r, now, retryable) = Failed(r, now, retryable)
  BY DEF Memory!Completed, Completed, Memory!Failed, Failed, Memory!Unleased, Unleased
<1>5. Memory!AfterComplete(rs, now, c) = AfterComplete(rs, now, c)
  BY <1>1, <1>h, <1>f DEF Memory!AfterComplete, AfterComplete
<1>6. Memory!AfterFail(rs, now, c, retryable) = AfterFail(rs, now, c, retryable)
  BY <1>1, <1>h, <1>f DEF Memory!AfterFail, AfterFail
<1> QED
  BY <1>1, <1>2, <1>3, <1>4, <1>5, <1>6

IndexNamesJobs ==
  /\ DOMAIN records = {index[k] : k \in DOMAIN index}
  /\ \A k \in DOMAIN index : records[index[k]].request.key = k

MemoryInv ==
  /\ QueueInv
  /\ IndexNamesJobs
  /\ IsFiniteSet(claims) /\ Cardinality(claims) <= leases

LEMMA MemoryStarts ==
  ASSUME Memory!MemoryInit
  PROVE  MemoryInv
<1>1. Init
  BY DEF Memory!MemoryInit, Memory!Empty, Init
<1>2. IndexNamesJobs
  BY DEF Memory!MemoryInit, Memory!Empty, IndexNamesJobs
<1> QED
  BY <1>1, <1>2, InitEstablishesInv, FS_EmptySet DEF MemoryInv, Init

(* The index after the maintenance names the jobs that are kept.           *)
LEMMA KeptAreNamed ==
  ASSUME MemoryInv
  PROVE  LET kept == Maintained(records, clock)
             named == Memory!IndexKept
         IN  /\ DOMAIN kept = {named[k] : k \in DOMAIN named}
             /\ \A k \in DOMAIN named : kept[named[k]].request.key = k
             /\ DOMAIN kept \subseteq DOMAIN records
<1> DEFINE kept == Maintained(records, clock)
           named == Memory!IndexKept
<1>1. /\ DOMAIN kept \subseteq DOMAIN records
      /\ \A j \in DOMAIN kept : kept[j].request = records[j].request
  BY MaintainedSubsides DEF MemoryInv, QueueInv, TypeOK, Subsides, SameRun
<1>2. named = [k \in {k \in DOMAIN index : index[k] \in DOMAIN kept} |-> index[k]]
  BY MemoryOperations DEF Memory!IndexKept, Memory!Kept, Memory!Without
<1> HIDE DEF kept, named
<1>3. DOMAIN records = {index[k] : k \in DOMAIN index}
      /\ \A k \in DOMAIN index : records[index[k]].request.key = k
  BY DEF MemoryInv, IndexNamesJobs
<1>4. DOMAIN kept = {named[k] : k \in DOMAIN named}
  <2>1. ASSUME NEW j \in DOMAIN kept PROVE \E k \in DOMAIN named : named[k] = j
    <3>1. PICK k \in DOMAIN index : index[k] = j
      BY <1>1, <1>3
    <3> QED
      BY <1>2, <3>1
  <2>2. \A k \in DOMAIN named : named[k] \in DOMAIN kept
    BY <1>2
  <2> QED
    BY <2>1, <2>2
<1>5. \A k \in DOMAIN named : kept[named[k]].request.key = k
  BY <1>1, <1>2, <1>3
<1> QED
  BY <1>1, <1>4, <1>5 DEF kept, named

(* The operations of the queue in memory are those of the stored queue.    *)
LEMMA MemoryEnqueues ==
  ASSUME MemoryInv, NEW q \in Requests, NEW id \in JobIds, Memory!Enqueue(q, id)
  PROVE  /\ Enqueue(q) \/ Maintain
         /\ IndexNamesJobs'
         /\ UNCHANGED <<leases, claims, clock>>
<1> DEFINE kept == Maintained(records, clock)
           named == Memory!IndexKept
           accepted == q.key \notin DOMAIN named /\ Cardinality(DOMAIN kept) < MaxRecords
<1>1. /\ Memory!Kept = kept /\ Memory!NewRecord(q, clock) = NewRecord(q, clock)
      /\ Memory!Cardinality(DOMAIN kept) = Cardinality(DOMAIN kept)
  BY MemoryOperations
     DEF Memory!Kept, Memory!Cardinality, Cardinality, Memory!IsFiniteSet, IsFiniteSet
<1>2. /\ DOMAIN kept = {named[k] : k \in DOMAIN named}
      /\ \A k \in DOMAIN named : kept[named[k]].request.key = k
      /\ DOMAIN kept \subseteq DOMAIN records
  BY KeptAreNamed
<1>3. clock \in Nows /\ id \notin DOMAIN kept /\ DOMAIN records \subseteq issued
  BY <1>2, ClockAssumption DEF Memory!Enqueue, MemoryInv, QueueInv, TypeOK, Nows
<1>4. CASE accepted
  <2>1. /\ records' = [j \in DOMAIN kept \cup {id} |->
                         IF j = id THEN NewRecord(q, clock) ELSE kept[j]]
        /\ issued' = issued \cup {id} /\ id \notin issued
        /\ index' = [k \in DOMAIN named \cup {q.key} |-> IF k = q.key THEN id ELSE named[k]]
        /\ UNCHANGED <<leases, claims, clock>>
    BY <1>1, <1>4 DEF Memory!Enqueue
  <2>2. Accepts(kept, q)
    BY <1>2, <1>4 DEF Accepts, SameKey
  <2>3. Enqueue(q)
    BY <1>3, <2>1, <2>2 DEF Enqueue, AfterEnqueue
  <2> HIDE DEF kept, named
  <2>4. NewRecord(q, clock).request = q
    BY DEF NewRecord
  <2>5. \A k \in DOMAIN index' : records'[index'[k]].request.key = k
    BY <1>2, <1>3, <2>1, <2>4
  <2>6. \A j \in DOMAIN records' : \E k \in DOMAIN index' : index'[k] = j
    BY <1>2, <1>3, <1>4, <2>1
  <2>7. \A k \in DOMAIN index' : index'[k] \in DOMAIN records'
    BY <1>2, <2>1
  <2>8. DOMAIN records' = {index'[k] : k \in DOMAIN index'}
    BY <2>6, <2>7
  <2>9. IndexNamesJobs'
    BY <2>5, <2>8 DEF IndexNamesJobs
  <2> QED
    BY <2>1, <2>3, <2>9
<1>5. CASE ~accepted
  <2>1. /\ records' = kept /\ index' = named
        /\ UNCHANGED <<issued, leases, claims, clock>>
    BY <1>1, <1>5 DEF Memory!Enqueue
  <2> QED
    BY <1>2, <1>3, <2>1 DEF IndexNamesJobs, Maintain
<1> QED
  BY <1>4, <1>5

LEMMA SameJobsKeepIndex ==
  ASSUME MemoryInv, index' = Memory!IndexKept,
         DOMAIN records' = DOMAIN Maintained(records, clock),
         \A j \in DOMAIN records' : records'[j].request = Maintained(records, clock)[j].request
  PROVE  IndexNamesJobs'
  BY KeptAreNamed DEF IndexNamesJobs

LEMMA MemoryClaims ==
  ASSUME MemoryInv, MaxClaims \in Nat, NEW w \in Workers, NEW types, Memory!ClaimJob(w, types)
  PROVE  /\ ClaimJob(w, types)
         /\ IndexNamesJobs'
         /\ IsFiniteSet(claims)' /\ (Cardinality(claims) <= leases)'
<1>1. PICK id \in Candidates(Maintained(records, clock), clock, types) :
        /\ records' = AfterClaim(records, clock, id, w, leases + 1)
        /\ index' = Memory!IndexKept
        /\ leases' = leases + 1
        /\ claims' = claims \cup {[jobId |-> id, leaseId |-> leases + 1, workerId |-> w]}
        /\ UNCHANGED <<issued, clock>>
  BY MemoryOperations DEF Memory!ClaimJob, Memory!Kept
<1>2. /\ leases \in Nat /\ Cardinality(claims) \in Nat /\ leases < MaxClaims
      /\ clock \in Nows /\ clock \in Nat
  BY FS_CardinalityType, ClockAssumption
     DEF MemoryInv, QueueInv, TypeOK, Nows, Memory!ClaimJob
<1>3. ClaimJob(w, types)
  <2>1. Cardinality(claims) < MaxClaims
    BY <1>2 DEF MemoryInv
  <2> QED
    BY <1>1, <1>2, <2>1 DEF ClaimJob
<1>4. IndexNamesJobs'
  <2> DEFINE kept == Maintained(records, clock)
  <2>1. id \in DOMAIN kept /\ RecordOK(kept[id])
    BY <1>1, <1>2, MaintainedOK DEF Candidates, Claimable, MemoryInv, QueueInv, SnapshotOK
  <2>2. records' = [kept EXCEPT ![id] = Leased(kept[id], clock, w, leases + 1)]
    BY <1>1 DEF AfterClaim
  <2>3. Leased(kept[id], clock, w, leases + 1).request = kept[id].request
    BY <2>1 DEF Leased, RecordOK, JobRecord
  <2> HIDE DEF kept
  <2>4. /\ DOMAIN records' = DOMAIN kept
        /\ \A j \in DOMAIN records' : records'[j].request = kept[j].request
    BY <2>1, <2>2, <2>3
  <2> QED
    BY <1>1, <2>4, SameJobsKeepIndex DEF kept
<1>5. /\ IsFiniteSet(claims') /\ Cardinality(claims') <= Cardinality(claims) + 1
      /\ Cardinality(claims') \in Nat
  <2> DEFINE fresh == [jobId |-> id, leaseId |-> leases + 1, workerId |-> w]
  <2>1. IsFiniteSet(claims) /\ claims' = claims \cup {fresh}
    BY <1>1 DEF MemoryInv
  <2> HIDE DEF fresh
  <2>2. IsFiniteSet(claims') /\ Cardinality(claims') \in {Cardinality(claims), Cardinality(claims) + 1}
    BY <2>1, FS_AddElement
  <2> QED
    BY <1>2, <2>2
<1> QED
  BY <1>1, <1>2, <1>3, <1>4, <1>5 DEF MemoryInv

LEMMA MemoryFinishes ==
  ASSUME MemoryInv, NEW c \in claims, NEW retryable \in BOOLEAN,
         Memory!Complete(c) \/ Memory!Fail(c, retryable)
  PROVE  /\ Complete(c) \/ Fail(c, retryable)
         /\ IndexNamesJobs'
         /\ UNCHANGED <<leases, claims>>
<1> DEFINE kept == Maintained(records, clock)
<1>1. /\ \/ records' = AfterComplete(records, clock, c)
         \/ records' = AfterFail(records, clock, c, retryable)
      /\ Memory!Complete(c) => records' = AfterComplete(records, clock, c)
      /\ Memory!Fail(c, retryable) => records' = AfterFail(records, clock, c, retryable)
      /\ index' = Memory!IndexKept
      /\ UNCHANGED <<issued, leases, claims, clock>>
  BY MemoryOperations DEF Memory!Complete, Memory!Fail, Memory!Finish
<1>2. clock \in Nows /\ clock \in Nat
  BY ClockAssumption DEF MemoryInv, QueueInv, TypeOK, Nows
<1>3. Complete(c) \/ Fail(c, retryable)
  BY <1>1, <1>2 DEF Complete, Fail
<1>4. /\ DOMAIN records' = DOMAIN kept
      /\ \A j \in DOMAIN records' : records'[j].request = kept[j].request
  <2>1. \A j \in DOMAIN kept : RecordOK(kept[j])
    BY <1>2, MaintainedOK DEF MemoryInv, QueueInv, SnapshotOK
  <2>2. ASSUME HoldsLease(kept, c)
        PROVE  /\ c.jobId \in DOMAIN kept
               /\ Completed(kept[c.jobId], clock).request = kept[c.jobId].request
               /\ Failed(kept[c.jobId], clock, retryable).request = kept[c.jobId].request
    <3>1. c.jobId \in DOMAIN kept /\ kept[c.jobId] \in JobRecord
      BY <2>1, <2>2 DEF HoldsLease, RecordOK
    <3> QED
      BY <3>1 DEF Completed, Failed, Unleased, JobRecord
  <2>3. \/ records' = kept
        \/ /\ HoldsLease(kept, c)
           /\ \/ records' = [kept EXCEPT ![c.jobId] = Completed(kept[c.jobId], clock)]
              \/ records' = [kept EXCEPT ![c.jobId] = Failed(kept[c.jobId], clock, retryable)]
    BY <1>1 DEF AfterComplete, AfterFail
  <2> HIDE DEF kept
  <2> QED
    BY <2>2, <2>3
<1> QED
  BY <1>1, <1>3, <1>4, SameJobsKeepIndex

(* Every step, with what it does to the jobs one by one.                   *)
LEMMA MemoryStep ==
  ASSUME MemoryInv, Memory!MemoryAssumption, [Memory!MemoryNext]_(Memory!memoryVars)
  PROVE  /\ MemoryInv'
         /\ \A j \in JobIds : Moved(j)
         /\ \A c \in claims' \ claims : c.leaseId = leases + 1 /\ leases' = leases + 1
         /\ leases' \in {leases, leases + 1}
<1> DEFINE Done == /\ QueueStep /\ IndexNamesJobs'
                   /\ IsFiniteSet(claims') /\ Cardinality(claims') <= leases'
                   /\ \A j \in JobIds : Moved(j)
                   /\ \A c \in claims' \ claims : c.leaseId = leases + 1 /\ leases' = leases + 1
<1>1. /\ QueueInv /\ SnapshotOK(records) /\ Nows \subseteq Nat /\ MaxClaims \in Nat
      /\ clock \in Nat
  BY NowsAreNaturals DEF MemoryInv, QueueInv, TypeOK, Memory!MemoryAssumption
<1>2. ASSUME RecordsMove(records, records'), issued' = issued
      PROVE  \A j \in JobIds : Moved(j)
  BY <1>1, <1>2, RecordMovesAreMoves DEF RecordsMove
<1>3. ASSUME UNCHANGED <<records, index, issued, leases, claims>>, clock' \in Nat
      PROVE  Done
  <2>1. Subsides(records, records')
    BY <1>1, <1>3, SameSubsides
  <2>2. QueueStep
    BY <1>1, <1>3, <2>1
       DEF QueueInv, TypeOK, QueueStep, RunsContinue, RunningJobs, Subsides
  <2>3. \A j \in JobIds : Moved(j)
    BY <1>3 DEF Moved, Same, JobPhase, JobAttempts, JobHolder
  <2> QED
    BY <1>3, <2>2, <2>3 DEF MemoryInv, IndexNamesJobs
<1>4. ASSUME NEW q \in Requests, NEW id \in JobIds, Memory!Enqueue(q, id)
      PROVE  Done
  <2>1. /\ Enqueue(q) \/ Maintain
        /\ IndexNamesJobs' /\ UNCHANGED <<leases, claims, clock>>
    BY <1>4, MemoryEnqueues
  <2>2. CASE Enqueue(q)
    BY <1>1, <2>1, <2>2, EnqueueStep, EnqueueMoves DEF MemoryInv
  <2>3. CASE Maintain
    <3>1. RecordsMove(records, records') /\ issued' = issued /\ Subsides(records, records')
      BY <1>1, <2>3, RemovalMoves, MaintainedSubsides DEF Maintain
    <3>2. QueueStep
      BY <1>1, <2>3, <3>1, SubsidingStep DEF Maintain
    <3> QED
      BY <1>2, <2>1, <3>1, <3>2 DEF MemoryInv
  <2> QED
    BY <2>1, <2>2, <2>3
<1>5. ASSUME NEW w \in Workers, NEW q \in Requests, Memory!ClaimJob(w, {q.type})
      PROVE  Done
  <2>1. /\ ClaimJob(w, {q.type}) /\ IndexNamesJobs'
        /\ IsFiniteSet(claims') /\ Cardinality(claims') <= leases'
    BY <1>1, <1>5, MemoryClaims
  <2>2. \A c \in claims' \ claims : c.leaseId = leases + 1 /\ leases' = leases + 1
    BY <2>1 DEF ClaimJob
  <2> QED
    BY <1>1, <2>1, <2>2, ClaimStep, ClaimMoves
<1>6. ASSUME NEW c \in claims, NEW retryable \in BOOLEAN,
             Memory!Complete(c) \/ Memory!Fail(c, retryable)
      PROVE  Done
  <2>1. /\ Complete(c) \/ Fail(c, retryable)
        /\ IndexNamesJobs' /\ UNCHANGED <<leases, claims>>
    BY <1>6, MemoryFinishes
  <2>2. /\ RecordsMove(records, records') /\ Subsides(records, records')
        /\ UNCHANGED <<issued, leases, claims, clock>>
    BY <1>1, <2>1, FinishMoves, FinishSubsides DEF Complete, Fail
  <2> QED
    BY <1>1, <1>2, <2>1, <2>2, SubsidingStep DEF MemoryInv
<1> HIDE DEF Done
<1>7. ASSUME Memory!Time PROVE Done
  <2>1. UNCHANGED <<records, index, issued, leases, claims>> /\ clock' \in Nat
    BY <1>7 DEF Memory!Time
  <2> QED
    BY <1>3, <2>1
<1>8. ASSUME UNCHANGED Memory!memoryVars PROVE Done
  <2>1. UNCHANGED <<records, index, issued, leases, claims>> /\ clock' \in Nat
    BY <1>1, <1>8 DEF Memory!memoryVars
  <2> QED
    BY <1>3, <2>1
<1>9. Done
  BY <1>4, <1>5, <1>6, <1>7, <1>8 DEF Memory!MemoryNext
<1>10. MemoryInv'
  BY <1>1, <1>9, StepKeepsInv DEF MemoryInv, Done
<1> QED
  BY <1>9, <1>10 DEF QueueStep, Done

(* A step of the queue in memory is one of the life, or none.              *)
LEMMA MemoryLives ==
  ASSUME MemoryInv, Memory!MemoryAssumption, [Memory!MemoryNext]_(Memory!memoryVars)
  PROVE  Memory!MemoryLife!Next
<1>1. \A j \in JobIds : Life!Move(j)
  BY MemoryStep, MovedIsAMove
<1>2. \A j \in JobIds : Memory!MemoryLife!Move(j)
  BY <1>1 DEF Life!Move, Life!Stay, Life!Submit, Life!Grant, Life!Requeue, Life!Succeed,
     Life!HeldByWorker, Life!Break, Life!Cancel, Life!Forget, JobPhase, JobAttempts, JobHolder,
     Memory!MemoryLife!Move, Memory!MemoryLife!Stay, Memory!MemoryLife!Submit,
     Memory!MemoryLife!Grant, Memory!MemoryLife!Requeue, Memory!MemoryLife!Succeed,
     Memory!MemoryLife!HeldByWorker, Memory!MemoryLife!Break, Memory!MemoryLife!Cancel,
     Memory!MemoryLife!Forget
<1> QED
  BY <1>2, MemoryStep DEF Memory!MemoryLife!Next

(* The queue in memory gives every job the life that LeasedJobs describes, *)
(* although its clock may be set back.                                     *)
THEOREM MemoryImplementsLife ==
  ASSUME Memory!MemoryAssumption
  PROVE  Memory!MemorySpec => Memory!MemoryLifeSpec
<1>1. Memory!MemoryInit => MemoryInv /\ Memory!MemoryLife!Init
  <2>1. Memory!MemoryInit => Memory!MemoryLife!Init
    BY DEF Memory!MemoryInit, Memory!Empty, Memory!MemoryLife!Init
  <2> QED
    BY <2>1, MemoryStarts
<1>2. MemoryInv /\ [Memory!MemoryNext]_(Memory!memoryVars) => MemoryInv'
  BY MemoryStep
<1>3. MemoryInv /\ [Memory!MemoryNext]_(Memory!memoryVars)
        => [Memory!MemoryLife!Next]_(Memory!MemoryLife!vars)
  BY MemoryLives
<1> QED
  BY <1>1, <1>2, <1>3, PTL
     DEF Memory!MemorySpec, Memory!MemoryLifeSpec, Memory!MemoryLife!Spec

LEMMA IndexAgrees ==
  ASSUME MemoryInv
  PROVE  Memory!IndexIsTheJobs
<1>1. \A q \in Requests : Memory!Reused(q) # "integrity"
  BY DEF Memory!Reused, Memory!IndexKept, Memory!Without
<1>c. \A S : Memory!Cardinality(S) = Cardinality(S)
  BY DEF Memory!Cardinality, Cardinality, Memory!IsFiniteSet, IsFiniteSet
<1>2. NeverCorrupt
  BY DEF MemoryInv, QueueInv, SnapshotOK, RecordOK, NeverCorrupt, SnapshotIntegrity
<1>3. Memory!SnapshotIntegrity(records)
  BY <1>2, <1>c
     DEF NeverCorrupt, SnapshotIntegrity, Memory!SnapshotIntegrity, UniqueKeys, Memory!UniqueKeys,
         SameKey, Memory!SameKey, LeaseCoherent, Memory!LeaseCoherent, TerminalCoherent,
         Memory!TerminalCoherent, IsTerminal, Memory!IsTerminal, OneRunningPerCase,
         Memory!OneRunningPerCase, RunningJobs, Memory!RunningJobs
<1> QED
  BY <1>1, <1>3 DEF MemoryInv, IndexNamesJobs, Memory!IndexIsTheJobs

(* A key is bound exactly as long as its job is remembered, and what is    *)
(* remembered would pass the check of the stored queue.                    *)
THEOREM MemoryIndexIsTheJobs ==
  ASSUME Memory!MemoryAssumption
  PROVE  Memory!MemorySpec => []Memory!IndexIsTheJobs
<1>1. Memory!MemoryInit => MemoryInv
  BY MemoryStarts
<1>2. MemoryInv /\ [Memory!MemoryNext]_(Memory!memoryVars) => MemoryInv'
  BY MemoryStep
<1>3. MemoryInv => Memory!IndexIsTheJobs
  BY IndexAgrees
<1> QED
  BY <1>1, <1>2, <1>3, PTL DEF Memory!MemorySpec
==============================================================================
