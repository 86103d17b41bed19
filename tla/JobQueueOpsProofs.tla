--------------------------- MODULE JobQueueOpsProofs ---------------------------
(***************************************************************************)
(* What the snapshot transformations of the queue preserve.  Every         *)
(* operation but two only takes records away or moves them towards their   *)
(* end (Subsides); only enqueue() adds a record and only claim() starts    *)
(* one.  JobQueueProofs uses these facts for the atomic queue,             *)
(* JobQueueCasProofs for the calls that read, compute and write back.      *)
(***************************************************************************)
EXTENDS JobQueueOps, FiniteSetTheorems, TLAPS

(* One record, as assertSnapshotIntegrity and claim() need it.             *)
RecordOK(r) ==
  /\ r \in JobRecord
  /\ r.attempt <= MaxAttempts
  /\ r.state = "queued" => r.attempt < MaxAttempts
  /\ LeaseCoherent(r)
  /\ TerminalCoherent(r)

SnapshotOK(rs) ==
  /\ IsFiniteSet(DOMAIN rs)
  /\ \A j \in DOMAIN rs : RecordOK(rs[j])
  /\ Cardinality(DOMAIN rs) <= MaxRecords
  /\ UniqueKeys(rs)
  /\ OneRunningPerCase(rs)
  /\ Cardinality(RunningJobs(rs)) <= MaxRunning

(* s is a later version of r that has not been started anew.               *)
SameRun(r, s) ==
  /\ s.request = r.request
  /\ s.state = "running" => /\ r.state = "running"
                            /\ s.leaseId = r.leaseId
                            /\ s.workerId = r.workerId

Subsides(rs, ss) ==
  /\ DOMAIN ss \subseteq DOMAIN rs
  /\ \A j \in DOMAIN ss : RecordOK(ss[j]) /\ SameRun(rs[j], ss[j])

-----------------------------------------------------------------------------
(* One record. *)

LEMMA ReclaimedOK ==
  ASSUME NEW r, RecordOK(r), NEW now \in Nat, r.state = "running"
  PROVE  RecordOK(Reclaimed(r, now)) /\ SameRun(r, Reclaimed(r, now))
<1> DEFINE s == Reclaimed(r, now)
           spent == r.attempt >= MaxAttempts
<1>1. s \in JobRecord
  BY QueueOptionsAssumption DEF RecordOK, Reclaimed, Unleased, JobRecord, JobStates
<1>2. /\ s.request = r.request /\ s.attempt = r.attempt
      /\ s.leaseId = Null /\ s.workerId = Null /\ s.leaseExpiresAt = Null
      /\ s.state = IF spent THEN "failed" ELSE "queued"
      /\ s.completedAt = IF spent THEN now ELSE Null
  BY DEF RecordOK, Reclaimed, Unleased, JobRecord
<1>3. r.attempt \in Nat /\ r.attempt <= MaxAttempts /\ MaxAttempts \in Nat /\ now # Null
  BY QueueOptionsAssumption DEF RecordOK, JobRecord
<1>4. CASE spent
  BY <1>1, <1>2, <1>3, <1>4
  DEF RecordOK, SameRun, LeaseCoherent, TerminalCoherent, IsTerminal
<1>5. CASE ~spent
  BY <1>1, <1>2, <1>3, <1>5
  DEF RecordOK, SameRun, LeaseCoherent, TerminalCoherent, IsTerminal
<1> QED BY <1>4, <1>5

LEMMA NewRecordOK ==
  ASSUME NEW q \in Requests, NEW now \in Nat
  PROVE  RecordOK(NewRecord(q, now))
BY QueueOptionsAssumption
   DEF RecordOK, NewRecord, JobRecord, JobStates,
       LeaseCoherent, TerminalCoherent, IsTerminal

LEMMA LeasedOK ==
  ASSUME NEW r, RecordOK(r), r.state = "queued", NEW now \in Nat,
         NEW worker \in Workers, NEW lease \in Nat
  PROVE  /\ RecordOK(Leased(r, now, worker, lease))
         /\ Leased(r, now, worker, lease).request = r.request
         /\ Leased(r, now, worker, lease).state = "running"
         /\ Leased(r, now, worker, lease).leaseId = lease
<1> DEFINE s == Leased(r, now, worker, lease)
<1>1. now + LeaseMs \in Nat /\ r.attempt + 1 \in Nat /\ r.attempt + 1 <= MaxAttempts
  BY QueueOptionsAssumption DEF RecordOK, JobRecord
<1>2. s \in JobRecord
  BY <1>1 DEF RecordOK, Leased, JobRecord, JobStates
<1>3. /\ s.request = r.request /\ s.state = "running" /\ s.leaseId = lease
      /\ s.workerId = worker /\ s.leaseExpiresAt = now + LeaseMs
      /\ s.attempt = r.attempt + 1 /\ s.completedAt = r.completedAt
  BY DEF RecordOK, Leased, JobRecord
<1>4. r.completedAt = Null
  BY DEF RecordOK, TerminalCoherent, IsTerminal
<1>5. LeaseCoherent(s) /\ TerminalCoherent(s)
  BY <1>1, <1>3, <1>4, QueueOptionsAssumption
  DEF LeaseCoherent, TerminalCoherent, IsTerminal
<1> QED BY <1>1, <1>2, <1>3, <1>5 DEF RecordOK

LEMMA RenewedOK ==
  ASSUME NEW r, RecordOK(r), NEW now \in Nat, r.state = "running"
  PROVE  RecordOK(Renewed(r, now)) /\ SameRun(r, Renewed(r, now))
BY QueueOptionsAssumption
   DEF RecordOK, SameRun, Renewed, JobRecord, JobStates,
       LeaseCoherent, TerminalCoherent, IsTerminal

LEMMA CompletedOK ==
  ASSUME NEW r, RecordOK(r), NEW now \in Nat, r.state = "running"
  PROVE  RecordOK(Completed(r, now)) /\ SameRun(r, Completed(r, now))
BY QueueOptionsAssumption
   DEF RecordOK, SameRun, Completed, Unleased, JobRecord, JobStates,
       LeaseCoherent, TerminalCoherent, IsTerminal

LEMMA FailedOK ==
  ASSUME NEW r, RecordOK(r), NEW now \in Nat, NEW retryable \in BOOLEAN,
         r.state = "running"
  PROVE  RecordOK(Failed(r, now, retryable)) /\ SameRun(r, Failed(r, now, retryable))
<1> DEFINE s == Failed(r, now, retryable)
           retry == retryable /\ r.attempt < MaxAttempts
<1>1. now + RetryDelayMs \in Nat
  BY QueueOptionsAssumption
<1>2. s \in JobRecord
  BY <1>1, QueueOptionsAssumption DEF RecordOK, Failed, Unleased, JobRecord, JobStates
<1>3. /\ s.request = r.request /\ s.attempt = r.attempt
      /\ s.leaseId = Null /\ s.workerId = Null /\ s.leaseExpiresAt = Null
      /\ s.state = IF retry THEN "queued" ELSE "failed"
      /\ s.completedAt = IF retry THEN Null ELSE now
  BY DEF RecordOK, Failed, Unleased, JobRecord
<1>4. r.attempt \in Nat /\ r.attempt <= MaxAttempts /\ MaxAttempts \in Nat /\ now # Null
  BY QueueOptionsAssumption DEF RecordOK, JobRecord
<1>5. CASE retry
  BY <1>2, <1>3, <1>4, <1>5
  DEF RecordOK, SameRun, LeaseCoherent, TerminalCoherent, IsTerminal
<1>6. CASE ~retry
  BY <1>2, <1>3, <1>4, <1>6
  DEF RecordOK, SameRun, LeaseCoherent, TerminalCoherent, IsTerminal
<1> QED BY <1>5, <1>6

LEMMA CancelledOK ==
  ASSUME NEW r, RecordOK(r), NEW now \in Nat, ~IsTerminal(r)
  PROVE  RecordOK(Cancelled(r, now)) /\ SameRun(r, Cancelled(r, now))
BY QueueOptionsAssumption
   DEF RecordOK, SameRun, Cancelled, Unleased, JobRecord, JobStates,
       LeaseCoherent, TerminalCoherent, IsTerminal

-----------------------------------------------------------------------------
(* Whole snapshots. *)

(* Subsiding keeps a snapshot acceptable.                                  *)
LEMMA SubsidesOK ==
  ASSUME NEW rs, NEW ss, SnapshotOK(rs), Subsides(rs, ss)
  PROVE  SnapshotOK(ss)
<1>1. /\ IsFiniteSet(DOMAIN ss)
      /\ Cardinality(DOMAIN ss) <= Cardinality(DOMAIN rs)
      /\ Cardinality(DOMAIN ss) \in Nat /\ Cardinality(DOMAIN rs) \in Nat
  BY FS_Subset, FS_CardinalityType DEF SnapshotOK, Subsides
<1>2. RunningJobs(ss) \subseteq RunningJobs(rs) /\ RunningJobs(rs) \subseteq DOMAIN rs
  BY DEF RunningJobs, Subsides, SameRun
<1>3. /\ Cardinality(RunningJobs(ss)) <= Cardinality(RunningJobs(rs))
      /\ Cardinality(RunningJobs(ss)) \in Nat /\ Cardinality(RunningJobs(rs)) \in Nat
  <2>1. IsFiniteSet(RunningJobs(rs))
    BY <1>2, FS_Subset DEF SnapshotOK
  <2> QED BY <1>2, <2>1, FS_Subset, FS_CardinalityType
<1>4. UniqueKeys(ss)
  BY DEF SnapshotOK, Subsides, SameRun, UniqueKeys
<1>5. OneRunningPerCase(ss)
  BY <1>2 DEF SnapshotOK, Subsides, SameRun, OneRunningPerCase, RunningJobs
<1>6. MaxRecords \in Nat /\ MaxRunning \in Nat
  BY QueueOptionsAssumption
<1> QED BY <1>1, <1>3, <1>4, <1>5, <1>6 DEF SnapshotOK, Subsides

LEMMA MaintainedSubsides ==
  ASSUME NEW rs, SnapshotOK(rs), NEW now \in Nat
  PROVE  Subsides(rs, Maintained(rs, now))
<1> DEFINE m == Maintained(rs, now)
<1>1. DOMAIN m \subseteq DOMAIN rs
  BY DEF Maintained
<1>2. ASSUME NEW j \in DOMAIN m
      PROVE  RecordOK(m[j]) /\ SameRun(rs[j], m[j])
  <2>1. RecordOK(rs[j])
    BY <1>1 DEF SnapshotOK
  <2>2. CASE LeaseExpired(rs[j], now)
    BY <2>1, <2>2, ReclaimedOK DEF Maintained, LeaseExpired
  <2>3. CASE ~LeaseExpired(rs[j], now)
    BY <2>1, <2>3 DEF Maintained, SameRun
  <2> QED BY <2>2, <2>3
<1> QED BY <1>1, <1>2 DEF Subsides

LEMMA SubsidesTransitive ==
  ASSUME NEW rs, NEW ss, NEW ts, Subsides(rs, ss), Subsides(ss, ts)
  PROVE  Subsides(rs, ts)
BY DEF Subsides, SameRun

(* Dropping records, or moving one record on, is subsiding.                *)
LEMMA WithoutSubsides ==
  ASSUME NEW rs, SnapshotOK(rs), NEW gone
  PROVE  Subsides(rs, Without(rs, gone))
BY DEF Subsides, SameRun, SnapshotOK, Without

LEMMA UpdateSubsides ==
  ASSUME NEW rs, SnapshotOK(rs), NEW id \in DOMAIN rs, NEW r,
         RecordOK(r), SameRun(rs[id], r)
  PROVE  Subsides(rs, [rs EXCEPT ![id] = r])
BY DEF Subsides, SameRun, SnapshotOK

LEMMA SameSubsides ==
  ASSUME NEW rs, SnapshotOK(rs)
  PROVE  Subsides(rs, rs)
BY DEF Subsides, SameRun, SnapshotOK

-----------------------------------------------------------------------------
(* The operations. *)

LEMMA MaintainedOK ==
  ASSUME NEW rs, SnapshotOK(rs), NEW now \in Nat
  PROVE  SnapshotOK(Maintained(rs, now))
BY MaintainedSubsides, SubsidesOK

(* Every operation other than enqueue() and claim() lets the snapshot      *)
(* subside.                                                                *)
LEMMA FinishSubsides ==
  ASSUME NEW rs, SnapshotOK(rs), NEW now \in Nat, NEW c, NEW retryable \in BOOLEAN
  PROVE  /\ Subsides(rs, AfterRenew(rs, now, c))
         /\ Subsides(rs, AfterComplete(rs, now, c))
         /\ Subsides(rs, AfterFail(rs, now, c, retryable))
<1> DEFINE m == Maintained(rs, now)
<1>1. Subsides(rs, m) /\ SnapshotOK(m)
  BY MaintainedSubsides, MaintainedOK
<1>2. CASE ~HoldsLease(m, c)
  BY <1>1, <1>2 DEF AfterRenew, AfterComplete, AfterFail
<1>3. CASE HoldsLease(m, c)
  <2>1. PICK id \in DOMAIN m : id = c.jobId /\ RecordOK(m[id]) /\ m[id].state = "running"
    BY <1>1, <1>3 DEF HoldsLease, SnapshotOK
  <2>2. ASSUME NEW r, RecordOK(r), SameRun(m[id], r)
        PROVE  Subsides(rs, [m EXCEPT ![id] = r])
    BY <1>1, <2>2, UpdateSubsides, SubsidesTransitive
  <2> HIDE DEF m
  <2>3. Subsides(rs, AfterRenew(rs, now, c))
    <3>1. AfterRenew(rs, now, c) = [m EXCEPT ![id] = Renewed(m[id], now)]
      BY <1>3, <2>1 DEF AfterRenew, m
    <3> QED BY <2>1, <2>2, <3>1, RenewedOK
  <2>4. Subsides(rs, AfterComplete(rs, now, c))
    <3>1. AfterComplete(rs, now, c) = [m EXCEPT ![id] = Completed(m[id], now)]
      BY <1>3, <2>1 DEF AfterComplete, m
    <3> QED BY <2>1, <2>2, <3>1, CompletedOK
  <2>5. Subsides(rs, AfterFail(rs, now, c, retryable))
    <3>1. AfterFail(rs, now, c, retryable) =
            [m EXCEPT ![id] = Failed(m[id], now, retryable)]
      BY <1>3, <2>1 DEF AfterFail, m
    <3> QED BY <2>1, <2>2, <3>1, FailedOK
  <2> QED BY <2>3, <2>4, <2>5
<1> QED BY <1>2, <1>3

LEMMA CancelSubsides ==
  ASSUME NEW rs, SnapshotOK(rs), NEW now \in Nat,
         NEW id, NEW actor, NEW caseId, NEW expected
  PROVE  Subsides(rs, AfterCancel(rs, now, id, actor, caseId, expected))
<1> DEFINE m == Maintained(rs, now)
           r == m[id]
           cancels == /\ Names(m, id, actor, caseId)
                      /\ m[id].request.expectedRevision = expected
                      /\ ~IsTerminal(m[id])
<1>1. Subsides(rs, m) /\ SnapshotOK(m)
  BY MaintainedSubsides, MaintainedOK
<1>2. CASE cancels
  <2>1. id \in DOMAIN m /\ RecordOK(r) /\ ~IsTerminal(r)
    BY <1>1, <1>2 DEF Names, SnapshotOK
  <2>2. RecordOK(Cancelled(r, now)) /\ SameRun(r, Cancelled(r, now))
    BY <2>1, CancelledOK
  <2>3. AfterCancel(rs, now, id, actor, caseId, expected) =
          [m EXCEPT ![id] = Cancelled(r, now)]
    BY <1>2, <2>1 DEF AfterCancel
  <2> QED BY <1>1, <2>1, <2>2, <2>3, UpdateSubsides, SubsidesTransitive
<1>3. CASE ~cancels
  BY <1>1, <1>3 DEF AfterCancel
<1> QED BY <1>2, <1>3

LEMMA RemovalSubsides ==
  ASSUME NEW rs, SnapshotOK(rs), NEW now \in Nat, NEW id, NEW actor, NEW caseId
  PROVE  /\ Subsides(rs, AfterDelete(rs, now, id, actor, caseId))
         /\ Subsides(rs, AfterPurgeCase(rs, now, actor, caseId))
         /\ Subsides(rs, AfterPurgeDeletedCase(rs, now, caseId))
<1> DEFINE m == Maintained(rs, now)
<1>1. Subsides(rs, m) /\ SnapshotOK(m)
  BY MaintainedSubsides, MaintainedOK
<1>2. \A gone : Subsides(rs, Without(m, gone))
  BY <1>1, WithoutSubsides, SubsidesTransitive
<1> QED
  BY <1>1, <1>2 DEF AfterDelete, AfterPurgeCase, AfterPurgeDeletedCase

LEMMA EnqueueOK ==
  ASSUME NEW rs, SnapshotOK(rs), NEW now \in Nat,
         NEW id, id \notin DOMAIN rs, NEW q \in Requests
  PROVE  LET ss == AfterEnqueue(rs, now, id, q)
         IN  /\ SnapshotOK(ss)
             /\ DOMAIN ss \subseteq DOMAIN rs \cup {id}
             /\ \A j \in DOMAIN ss : ss[j].state = "running" =>
                  j \in DOMAIN rs /\ SameRun(rs[j], ss[j])
<1> DEFINE m  == Maintained(rs, now)
           ss == AfterEnqueue(rs, now, id, q)
<1>1. Subsides(rs, m) /\ SnapshotOK(m)
  BY MaintainedSubsides, MaintainedOK
<1>2. CASE ~Accepts(m, q)
  BY <1>1, <1>2 DEF AfterEnqueue, Subsides
<1>3. CASE Accepts(m, q)
  <2>1. /\ DOMAIN ss = DOMAIN m \cup {id} /\ id \notin DOMAIN m
        /\ ss[id] = NewRecord(q, now)
        /\ \A j \in DOMAIN m : ss[j] = m[j]
    BY <1>1, <1>3 DEF AfterEnqueue, Subsides
  <2> HIDE DEF m, ss
  <2>2. ss[id].state = "queued" /\ ss[id].request = q /\ RecordOK(ss[id])
    <3>1. NewRecord(q, now).state = "queued" /\ NewRecord(q, now).request = q
      BY DEF NewRecord
    <3> QED BY <2>1, <3>1, NewRecordOK
  <2>3. RunningJobs(ss) = RunningJobs(m)
    BY <2>1, <2>2 DEF RunningJobs
  <2>4. /\ IsFiniteSet(DOMAIN ss)
        /\ Cardinality(DOMAIN ss) = Cardinality(DOMAIN m) + 1
    BY <1>1, <2>1, FS_AddElement DEF SnapshotOK
  <2>5. Cardinality(DOMAIN ss) <= MaxRecords
    <3>1. Cardinality(DOMAIN m) \in Nat /\ Cardinality(DOMAIN m) < MaxRecords
      BY <1>1, <1>3, FS_CardinalityType DEF Accepts, SnapshotOK
    <3> QED BY <2>4, <3>1, QueueOptionsAssumption
  <2>6. UniqueKeys(ss)
    BY <1>1, <1>3, <2>1, <2>2 DEF SnapshotOK, UniqueKeys, Accepts, SameKey
  <2>7. OneRunningPerCase(ss) /\ Cardinality(RunningJobs(ss)) <= MaxRunning
    <3>1. \A j \in RunningJobs(m) : ss[j] = m[j]
      BY <2>1 DEF RunningJobs
    <3> QED BY <1>1, <2>3, <3>1 DEF SnapshotOK, OneRunningPerCase
  <2>8. \A j \in DOMAIN ss : RecordOK(ss[j])
    BY <1>1, <2>1, <2>2 DEF SnapshotOK
  <2>9. SnapshotOK(ss)
    BY <2>4, <2>5, <2>6, <2>7, <2>8 DEF SnapshotOK
  <2> QED BY <1>1, <2>1, <2>2, <2>9 DEF Subsides, ss
<1> QED BY <1>2, <1>3

LEMMA ClaimOK ==
  ASSUME NEW rs, SnapshotOK(rs), NEW now \in Nat, NEW types,
         NEW id \in Candidates(Maintained(rs, now), now, types),
         NEW worker \in Workers, NEW lease \in Nat
  PROVE  LET ss == AfterClaim(rs, now, id, worker, lease)
         IN  /\ SnapshotOK(ss)
             /\ id \in DOMAIN ss /\ DOMAIN ss \subseteq DOMAIN rs
             /\ ss[id].leaseId = lease
             /\ \A j \in DOMAIN ss : j # id => SameRun(rs[j], ss[j])
<1> DEFINE m  == Maintained(rs, now)
           ss == AfterClaim(rs, now, id, worker, lease)
<1>1. Subsides(rs, m) /\ SnapshotOK(m)
  BY MaintainedSubsides, MaintainedOK
<1>2. /\ id \in DOMAIN m /\ m[id].state = "queued"
      /\ IdleCase(m, m[id].request.caseId)
      /\ Cardinality(RunningJobs(m)) < MaxRunning
  BY DEF Candidates, Claimable
<1>3. /\ DOMAIN ss = DOMAIN m
      /\ ss[id] = Leased(m[id], now, worker, lease)
      /\ \A j \in DOMAIN m : j # id => ss[j] = m[j]
  BY <1>2 DEF AfterClaim
<1> HIDE DEF m, ss
<1>4. /\ RecordOK(ss[id]) /\ ss[id].request = m[id].request
      /\ ss[id].state = "running" /\ ss[id].leaseId = lease
  BY <1>1, <1>2, <1>3, LeasedOK DEF SnapshotOK
<1>5. RunningJobs(ss) = RunningJobs(m) \cup {id} /\ id \notin RunningJobs(m)
  BY <1>2, <1>3, <1>4 DEF RunningJobs
<1>6. Cardinality(RunningJobs(ss)) <= MaxRunning
  <2>1. IsFiniteSet(RunningJobs(m))
    BY <1>1, FS_Subset DEF SnapshotOK, RunningJobs
  <2>2. /\ Cardinality(RunningJobs(m)) \in Nat
        /\ Cardinality(RunningJobs(ss)) = Cardinality(RunningJobs(m)) + 1
    BY <2>1, <1>5, FS_AddElement, FS_CardinalityType
  <2> QED BY <1>2, <2>2, QueueOptionsAssumption
<1>7. OneRunningPerCase(ss)
  <2>1. \A j \in RunningJobs(m) : ss[j] = m[j] /\ j # id
    BY <1>3, <1>5 DEF RunningJobs
  <2>2. \A j \in RunningJobs(m) : ss[j].request.caseId # ss[id].request.caseId
    BY <1>2, <1>4, <2>1 DEF IdleCase
  <2> QED BY <1>1, <1>5, <2>1, <2>2 DEF SnapshotOK, OneRunningPerCase
<1>8. UniqueKeys(ss)
  <2>1. \A j \in DOMAIN ss : ss[j].request = m[j].request
    BY <1>3, <1>4
  <2> QED BY <1>1, <1>3, <2>1 DEF SnapshotOK, UniqueKeys
<1>9. \A j \in DOMAIN ss : RecordOK(ss[j])
  BY <1>1, <1>3, <1>4 DEF SnapshotOK
<1>10. SnapshotOK(ss)
  BY <1>1, <1>3, <1>6, <1>7, <1>8, <1>9 DEF SnapshotOK
<1> QED BY <1>1, <1>2, <1>3, <1>4, <1>10 DEF Subsides, ss

==============================================================================
