-------------------------- MODULE JobQueueCasProofs ---------------------------
(***************************************************************************)
(* The calls that read, compute and write back implement the atomic queue, *)
(* for every number of callers, jobs and workers and all limits.           *)
(*                                                                         *)
(* While the stored text is the one a call has read, what the call has     *)
(* computed is what its operation, done atomically at the time of the      *)
(* read, would store (Outcome); so a write that finds the text unchanged   *)
(* is that operation, with a clock that may lag.  The other steps of a     *)
(* call change nothing that is stored.                                     *)
(***************************************************************************)
EXTENDS JobQueueCas, JobQueueOpsProofs

LeaseClaim == [jobId : JobIds, leaseId : Nat, workerId : Workers]

LeaseOps == {"renew", "complete", "fail"}

(* What cmd, done at now, may store.                                       *)
Outcome(cmd, now, next) ==
  \/ next = Maintained(records, now)
  \/ \E q \in Requests, id \in JobIds \ issued : next = AfterEnqueue(records, now, id, q)
  \/ /\ cmd.op = "claim"
     /\ \E w \in Workers, types \in ClaimTypes :
        \E id \in Candidates(Maintained(records, now), now, types) :
          next = AfterClaim(records, now, id, w, leases + 1)
  \/ /\ cmd.op \in LeaseOps
     /\ \/ next = AfterRenew(records, now, cmd.claim)
        \/ next = AfterComplete(records, now, cmd.claim)
        \/ \E retryable \in BOOLEAN : next = AfterFail(records, now, cmd.claim, retryable)
  \/ \E q \in Requests, id \in issued :
       next = AfterCancel(records, now, id, q.actor, q.caseId, q.expectedRevision)
  \/ \E q \in Requests : next = AfterPurgeDeletedCase(records, now, q.caseId)

(* A call in progress: its command may still be given, and its result is   *)
(* good as long as the text has not changed.                               *)
CallOK(c) ==
  /\ c.cmd \in Commands
  /\ c.base \in Nat /\ c.base <= revision
  /\ c.base = revision => \E now \in 0 .. clock : Outcome(c.cmd, now, c.next)

(* The failed tries of a call up to its last read are paid for.            *)
TriesPaid(c) ==
  /\ c.tries \in Nat /\ c.since \in Nat
  /\ c.base \in Nat /\ c.base <= revision
  /\ c.tries <= c.base - c.since

StoreOK ==
  /\ issued \subseteq JobIds
  /\ DOMAIN records \subseteq issued
  /\ SnapshotOK(records)
  /\ \A j \in DOMAIN records : records[j].leaseId \in {Null} \cup 1 .. leases
  /\ leases \in Nat
  /\ claims \subseteq LeaseClaim /\ IsFiniteSet(claims)
  /\ clock \in 0 .. MaxClock
  /\ revision \in Nat

CasInv ==
  /\ StoreOK
  /\ call = [p \in Callers |-> call[p]]
  /\ \A p \in Callers : call[p] # Null => CallOK(call[p]) /\ TriesPaid(call[p])
  /\ Cardinality(claims) + Cardinality(Claiming) <= MaxClaims

-----------------------------------------------------------------------------
(* The operators of the atomic queue are those of the calls. *)

LEMMA SameOperators ==
  /\ \A rs, now : Atomic!Maintained(rs, now) = Maintained(rs, now)
  /\ \A rs, now, types : Atomic!Candidates(rs, now, types) = Candidates(rs, now, types)
  /\ \A rs, now, id, q : Atomic!AfterEnqueue(rs, now, id, q) = AfterEnqueue(rs, now, id, q)
  /\ \A rs, now, id, w, lease :
       Atomic!AfterClaim(rs, now, id, w, lease) = AfterClaim(rs, now, id, w, lease)
  /\ \A rs, now, c : Atomic!AfterRenew(rs, now, c) = AfterRenew(rs, now, c)
  /\ \A rs, now, c : Atomic!AfterComplete(rs, now, c) = AfterComplete(rs, now, c)
  /\ \A rs, now, c, retryable :
       Atomic!AfterFail(rs, now, c, retryable) = AfterFail(rs, now, c, retryable)
  /\ \A rs, now, id, actor, caseId, expected :
       Atomic!AfterCancel(rs, now, id, actor, caseId, expected)
         = AfterCancel(rs, now, id, actor, caseId, expected)
  /\ \A rs, now, caseId :
       Atomic!AfterPurgeDeletedCase(rs, now, caseId) = AfterPurgeDeletedCase(rs, now, caseId)
<1>1. \A rs, now : Atomic!Maintained(rs, now) = Maintained(rs, now)
  BY DEF Atomic!Maintained, Maintained, Atomic!RetentionOver, RetentionOver,
     Atomic!LeaseExpired, LeaseExpired, Atomic!Reclaimed, Reclaimed,
     Atomic!Unleased, Unleased, Atomic!IsTerminal, IsTerminal
<1>2. \A rs, now, types : Atomic!Candidates(rs, now, types) = Candidates(rs, now, types)
  BY DEF Atomic!Candidates, Candidates, Atomic!Claimable, Claimable,
     Atomic!IdleCase, IdleCase, Atomic!RunningJobs, RunningJobs,
     Atomic!Before, Before, Atomic!Cardinality, Cardinality
<1>3. \A rs, now, id, q : Atomic!AfterEnqueue(rs, now, id, q) = AfterEnqueue(rs, now, id, q)
  <2>1. \A rs, q : Atomic!Accepts(rs, q) = Accepts(rs, q)
    BY DEF Atomic!Accepts, Accepts, Atomic!SameKey, SameKey,
       Atomic!Cardinality, Cardinality
  <2>2. \A q, now : Atomic!NewRecord(q, now) = NewRecord(q, now)
    BY DEF Atomic!NewRecord, NewRecord
  <2> QED BY <1>1, <2>1, <2>2 DEF Atomic!AfterEnqueue, AfterEnqueue
<1>4. \A rs, now, id, w, lease :
        Atomic!AfterClaim(rs, now, id, w, lease) = AfterClaim(rs, now, id, w, lease)
  BY <1>1, ZenonT(60) DEF Atomic!AfterClaim, AfterClaim, Atomic!Leased, Leased
<1>5. \A rs, c : Atomic!HoldsLease(rs, c) = HoldsLease(rs, c)
  BY DEF Atomic!HoldsLease, HoldsLease
<1>6. \A r : Atomic!Unleased(r) = Unleased(r) /\ Atomic!IsTerminal(r) = IsTerminal(r)
  BY DEF Atomic!Unleased, Unleased, Atomic!IsTerminal, IsTerminal
<1>7. \A rs, now, c : Atomic!AfterRenew(rs, now, c) = AfterRenew(rs, now, c)
  BY <1>1, <1>5 DEF Atomic!AfterRenew, AfterRenew, Atomic!Renewed, Renewed
<1>8. \A rs, now, c : Atomic!AfterComplete(rs, now, c) = AfterComplete(rs, now, c)
  BY <1>1, <1>5, <1>6 DEF Atomic!AfterComplete, AfterComplete, Atomic!Completed, Completed
<1>9. \A rs, now, c, retryable :
        Atomic!AfterFail(rs, now, c, retryable) = AfterFail(rs, now, c, retryable)
  <2>1. \A r, now, retryable : Atomic!Failed(r, now, retryable) = Failed(r, now, retryable)
    BY DEF Atomic!Failed, Failed, Atomic!Unleased, Unleased
  <2> QED BY <1>1, <1>5, <2>1 DEF Atomic!AfterFail, AfterFail
<1>10. \A rs, now, id, actor, caseId, expected :
         Atomic!AfterCancel(rs, now, id, actor, caseId, expected)
           = AfterCancel(rs, now, id, actor, caseId, expected)
  <2>1. \A r, now : Atomic!Cancelled(r, now) = Cancelled(r, now)
    BY DEF Atomic!Cancelled, Cancelled, Atomic!Unleased, Unleased
  <2>2. \A rs, id, actor, caseId : Atomic!Names(rs, id, actor, caseId) = Names(rs, id, actor, caseId)
    BY DEF Atomic!Names, Names
  <2> QED BY <1>1, <1>6, <2>1, <2>2 DEF Atomic!AfterCancel, AfterCancel
<1>11. \A rs, now, caseId :
         Atomic!AfterPurgeDeletedCase(rs, now, caseId) = AfterPurgeDeletedCase(rs, now, caseId)
  BY <1>1 DEF Atomic!AfterPurgeDeletedCase, AfterPurgeDeletedCase, Atomic!Without, Without
<1> QED BY <1>1, <1>2, <1>3, <1>4, <1>7, <1>8, <1>9, <1>10, <1>11

-----------------------------------------------------------------------------
(* What a call computes. *)

LEMMA ResultsAreOutcomes ==
  ASSUME NEW cmd \in Commands, NEW next \in Results(cmd)
  PROVE  Outcome(cmd, clock, next)
<1>1. CASE cmd \in [op : {"enqueue"}, request : Requests]
  BY <1>1 DEF Results, Outcome
<1>2. CASE cmd \in [op : {"claim"}, worker : Workers, types : ClaimTypes]
  <2>1. cmd.op = "claim" /\ cmd.worker \in Workers /\ cmd.types \in ClaimTypes
    BY <1>2
  <2>2. next \in ClaimResults(cmd.worker, cmd.types)
    BY <2>1 DEF Results
  <2> QED BY <2>1, <2>2 DEF ClaimResults, Outcome
<1>3. CASE cmd \in [op : {"purge"}, caseId : {q.caseId : q \in Requests}]
  <2>1. PICK q \in Requests : cmd.caseId = q.caseId
    BY <1>3
  <2>2. next = AfterPurgeDeletedCase(records, clock, q.caseId)
    BY <1>3, <2>1 DEF Results
  <2> QED BY <2>2 DEF Outcome
<1>4. CASE cmd \in [op : {"get"}]
  BY <1>4 DEF Results, Outcome
<1>5. CASE cmd \in [op : {"renew", "complete"}, claim : claims]
  BY <1>5 DEF Results, Outcome, LeaseOps
<1>6. CASE cmd \in [op : {"fail"}, claim : claims, retryable : BOOLEAN]
  BY <1>6 DEF Results, Outcome, LeaseOps
<1>7. CASE cmd \in [op : {"cancel"}, id : issued, request : Requests]
  <2>1. cmd.op = "cancel" /\ cmd.id \in issued /\ cmd.request \in Requests
    BY <1>7
  <2>2. next = AfterCancel(records, clock, cmd.id, cmd.request.actor, cmd.request.caseId,
                           cmd.request.expectedRevision)
    BY <2>1 DEF Results
  <2> QED BY <2>1, <2>2 DEF Outcome
<1> QED
  BY <1>1, <1>2, <1>3, <1>4, <1>5, <1>6, <1>7, CommandsAssumption DEF Commands

(* A snapshot in which every running job was running before under the same *)
(* lease contains no lease that was not drawn.                             *)
LEMMA NoNewLeases ==
  ASSUME StoreOK, NEW next, SnapshotOK(next),
         \A j \in DOMAIN next : next[j].state = "running" =>
           j \in DOMAIN records /\ SameRun(records[j], next[j])
  PROVE  /\ NewLeases(next) = {}
         /\ \A j \in DOMAIN next : next[j].leaseId \in {Null} \cup 1 .. leases
<1>1. ASSUME NEW j \in DOMAIN next
      PROVE  next[j].leaseId \in {Null} \cup 1 .. leases
  <2>1. LeaseCoherent(next[j])
    BY DEF SnapshotOK, RecordOK
  <2>2. CASE next[j].state = "running"
    BY <2>2 DEF SameRun, StoreOK
  <2>3. CASE next[j].state # "running"
    BY <2>1, <2>3 DEF LeaseCoherent
  <2> QED BY <2>2, <2>3
<1> QED BY <1>1 DEF NewLeases

LEMMA SubsidingHasNoNewLeases ==
  ASSUME StoreOK, NEW next, Subsides(records, next)
  PROVE  /\ SnapshotOK(next) /\ DOMAIN next \subseteq DOMAIN records
         /\ NewLeases(next) = {}
         /\ \A j \in DOMAIN next : next[j].leaseId \in {Null} \cup 1 .. leases
BY SubsidesOK, NoNewLeases DEF StoreOK, Subsides, SameRun

(* The one new lease of a claim.                                           *)
LEMMA GrantedLease ==
  ASSUME StoreOK, NEW now \in Nat, NEW types, NEW w \in Workers,
         NEW id \in Candidates(Maintained(records, now), now, types),
         NEW next, next = AfterClaim(records, now, id, w, leases + 1)
  PROVE  /\ SnapshotOK(next) /\ DOMAIN next \subseteq DOMAIN records
         /\ id \in DOMAIN next
         /\ next[id].leaseId = leases + 1 /\ next[id].workerId = w
         /\ NewLeases(next) = {id}
         /\ \A j \in DOMAIN next : next[j].leaseId \in {Null} \cup 1 .. leases + 1
<1> DEFINE m == Maintained(records, now)
<1>1. leases \in Nat /\ leases + 1 \in Nat /\ SnapshotOK(records)
  BY DEF StoreOK
<1>2. /\ SnapshotOK(next) /\ id \in DOMAIN next /\ DOMAIN next \subseteq DOMAIN records
      /\ next[id].leaseId = leases + 1
      /\ \A j \in DOMAIN next : j # id => SameRun(records[j], next[j])
  BY <1>1, ClaimOK
<1>3. next[id].workerId = w
  <2>1. SnapshotOK(m) /\ id \in DOMAIN m
    BY <1>1, MaintainedOK DEF Candidates, Claimable
  <2>2. next[id] = Leased(m[id], now, w, leases + 1) /\ m[id] \in JobRecord
    BY <2>1 DEF AfterClaim, SnapshotOK, RecordOK
  <2> QED BY <2>2 DEF Leased, JobRecord
<1>4. ASSUME NEW j \in DOMAIN next, j # id
      PROVE  next[j].leaseId \in {Null} \cup 1 .. leases
  <2>1. LeaseCoherent(next[j]) /\ j \in DOMAIN records /\ SameRun(records[j], next[j])
    BY <1>2, <1>4 DEF SnapshotOK, RecordOK
  <2>2. CASE next[j].state = "running"
    BY <2>1, <2>2 DEF SameRun, StoreOK
  <2>3. CASE next[j].state # "running"
    BY <2>1, <2>3 DEF LeaseCoherent
  <2> QED BY <2>2, <2>3
<1>5. leases + 1 \notin {Null} \cup 1 .. leases
  BY <1>1, QueueOptionsAssumption
<1>6. NewLeases(next) = {id}
  BY <1>2, <1>4, <1>5 DEF NewLeases
<1> QED BY <1>1, <1>2, <1>3, <1>4, <1>6

-----------------------------------------------------------------------------
(* The write. *)

LEMMA AddingOne ==
  ASSUME NEW S, IsFiniteSet(S), NEW x
  PROVE  /\ IsFiniteSet(S \cup {x}) /\ Cardinality(S) \in Nat
         /\ Cardinality(S \cup {x}) <= Cardinality(S) + 1
<1> DEFINE T == S \cup {x}
<1>1. Cardinality(S) \in Nat
  BY FS_CardinalityType
<1>2. CASE x \in S
  <2>1. T = S
    BY <1>2
  <2> HIDE DEF T
  <2>2. IsFiniteSet(T) /\ Cardinality(T) = Cardinality(S)
    BY <2>1
  <2>3. Cardinality(T) <= Cardinality(S) + 1
    BY <1>1, <2>2
  <2> QED BY <1>1, <2>2, <2>3 DEF T
<1>3. CASE x \notin S
  BY <1>1, <1>3, FS_AddElement
<1> QED BY <1>2, <1>3

(* A write that grants no lease.                                           *)
LEMMA QuietWrite ==
  ASSUME StoreOK, NEW p \in Callers, Commit(p),
         DOMAIN records' \subseteq JobIds, SnapshotOK(records'),
         NewLeases(records') = {},
         \A j \in DOMAIN records' : records'[j].leaseId \in {Null} \cup 1 .. leases
  PROVE  /\ StoreOK'
         /\ issued' = issued \cup DOMAIN records'
         /\ UNCHANGED <<leases, claims, clock>>
<1>1. /\ issued' = issued \cup DOMAIN records'
      /\ leases' = leases + Cardinality(NewLeases(records'))
      /\ claims' = claims \cup {[jobId |-> j, leaseId |-> records'[j].leaseId,
                                 workerId |-> records'[j].workerId] : j \in NewLeases(records')}
      /\ revision' = revision + 1 /\ clock' = clock
  BY DEF Commit
<1>2. leases' = leases /\ claims' = claims
  BY <1>1, FS_EmptySet DEF StoreOK
<1>3. issued' \subseteq JobIds /\ DOMAIN records' \subseteq issued' /\ revision' \in Nat
  BY <1>1 DEF StoreOK
<1> QED BY <1>1, <1>2, <1>3 DEF StoreOK

LEMMA ClaimWrite ==
  ASSUME StoreOK, NEW p \in Callers, Commit(p), NEW now \in Nat, NEW w \in Workers, NEW types,
         NEW id \in Candidates(Maintained(records, now), now, types),
         records' = AfterClaim(records, now, id, w, leases + 1)
  PROVE  /\ StoreOK'
         /\ issued' = issued /\ clock' = clock
         /\ leases' = leases + 1
         /\ claims' = claims \cup
              {[jobId |-> id, leaseId |-> leases + 1, workerId |-> w]}
         /\ Cardinality(claims') <= Cardinality(claims) + 1
<1> DEFINE new == [jobId |-> id, leaseId |-> leases + 1, workerId |-> w]
<1>1. /\ issued' = issued \cup DOMAIN records'
      /\ leases' = leases + Cardinality(NewLeases(records'))
      /\ claims' = claims \cup {[jobId |-> j, leaseId |-> records'[j].leaseId,
                                 workerId |-> records'[j].workerId] : j \in NewLeases(records')}
      /\ revision' = revision + 1 /\ clock' = clock
  BY DEF Commit
<1>2. /\ SnapshotOK(records') /\ DOMAIN records' \subseteq DOMAIN records
      /\ id \in DOMAIN records'
      /\ records'[id].leaseId = leases + 1 /\ records'[id].workerId = w
      /\ NewLeases(records') = {id}
      /\ \A j \in DOMAIN records' : records'[j].leaseId \in {Null} \cup 1 .. leases + 1
  BY GrantedLease
<1>3. Cardinality({id}) = 1
  BY FS_Singleton
<1>4. leases' = leases + 1 /\ claims' = claims \cup {new} /\ issued' = issued
  BY <1>1, <1>2, <1>3 DEF StoreOK
<1>5. new \in LeaseClaim /\ leases + 1 \in Nat
  BY <1>2 DEF LeaseClaim, StoreOK
<1> HIDE DEF new
<1>6. /\ IsFiniteSet(claims \cup {new})
      /\ Cardinality(claims \cup {new}) <= Cardinality(claims) + 1
  BY AddingOne DEF StoreOK
<1>7. claims' \subseteq LeaseClaim /\ IsFiniteSet(claims') /\ leases' \in Nat
      /\ revision' \in Nat /\ DOMAIN records' \subseteq issued'
  <2>1. claims' \subseteq LeaseClaim
    BY <1>4, <1>5 DEF StoreOK
  <2>2. IsFiniteSet(claims') /\ leases' \in Nat
    BY <1>4, <1>5, <1>6
  <2>3. revision' \in Nat /\ DOMAIN records' \subseteq issued'
    BY <1>1 DEF StoreOK
  <2> QED BY <2>1, <2>2, <2>3
<1>8. \A j \in DOMAIN records' : records'[j].leaseId \in {Null} \cup 1 .. leases'
  BY <1>2, <1>4
<1> QED BY <1>1, <1>2, <1>4, <1>6, <1>7, <1>8 DEF StoreOK, new

(* The calls that are left have read an older text.                        *)
LEMMA WriteOvertakes ==
  ASSUME CasInv, NEW p \in Callers, Commit(p), StoreOK', claims \subseteq claims'
  PROVE  /\ call' = [q \in Callers |-> call'[q]]
         /\ \A q \in Callers : call'[q] # Null => CallOK(call[q])' /\ TriesPaid(call[q])'
         /\ Claiming' = Claiming \ {p}
<1>1. /\ call' = [call EXCEPT ![p] = Null] /\ revision' = revision + 1
      /\ issued' = issued \cup DOMAIN call[p].next /\ revision \in Nat
  BY DEF Commit, CasInv, StoreOK
<1>2. Commands \subseteq Commands'
  BY <1>1 DEF Commands
<1>3. ASSUME NEW q \in Callers, call'[q] # Null
      PROVE  q # p /\ call'[q] = call[q] /\ CallOK(call[q])' /\ TriesPaid(call[q])'
  <2>1. q # p /\ call'[q] = call[q]
    BY <1>1, <1>3 DEF CasInv
  <2>2. CallOK(call[q]) /\ TriesPaid(call[q])
    BY <1>3, <2>1 DEF CasInv
  <2>3. call'[q].base # revision' /\ call'[q].base <= revision'
    BY <1>1, <2>1, <2>2 DEF CallOK
  <2>4. CallOK(call[q])'
    BY <1>2, <2>1, <2>2, <2>3 DEF CallOK
  <2>5. TriesPaid(call[q])'
    BY <2>1, <2>2, <2>3 DEF TriesPaid
  <2> QED BY <2>1, <2>4, <2>5
<1>4. Claiming' = Claiming \ {p}
  BY <1>1, <1>3 DEF Claiming, CasInv
<1> QED BY <1>1, <1>3, <1>4 DEF CasInv

LEMMA CommitStep ==
  ASSUME CasInv, NEW p \in Callers, Commit(p)
  PROVE  CasInv' /\ Atomic!Next
<1> DEFINE cmd == call[p].cmd
<1>1. /\ call[p] # Null /\ CallOK(call[p]) /\ call[p].base = revision
      /\ records' = call[p].next /\ StoreOK
  BY DEF Commit, Unchanged, CasInv
<1>2. PICK now \in 0 .. clock : Outcome(cmd, now, records')
  BY <1>1 DEF CallOK
<1>3. now \in Nat /\ now \in Atomic!Nows /\ SnapshotOK(records)
      /\ DOMAIN records \subseteq issued /\ issued \subseteq JobIds
  BY <1>1, CasAssumption DEF StoreOK, Atomic!Nows
<1>4. Claiming \subseteq Callers /\ IsFiniteSet(Claiming) /\ Cardinality(Claiming) \in Nat
      /\ Cardinality(claims) \in Nat /\ MaxClaims \in Nat
      /\ Cardinality(claims) + Cardinality(Claiming) <= MaxClaims
  <2>1. Claiming \subseteq Callers
    BY DEF Claiming
  <2> QED BY <1>1, <2>1, CasAssumption, FS_Subset, FS_CardinalityType DEF StoreOK, CasInv
<1>5. SUFFICES StoreOK' /\ claims \subseteq claims' /\ Atomic!Next
               /\ \/ claims' = claims
                  \/ cmd.op = "claim" /\ Cardinality(claims') <= Cardinality(claims) + 1
  <2>1. Claiming' = Claiming \ {p} /\ IsFiniteSet(Claiming')
        /\ Cardinality(Claiming') \in Nat /\ Cardinality(claims') \in Nat
        /\ Cardinality(Claiming') <= Cardinality(Claiming)
    BY <1>4, <1>5, WriteOvertakes, FS_Subset, FS_CardinalityType DEF StoreOK
  <2>2. cmd.op = "claim" => Cardinality(Claiming') = Cardinality(Claiming) - 1
    <3>1. cmd.op = "claim" => p \in Claiming
      BY <1>1 DEF Claiming
    <3> QED BY <1>4, <2>1, <3>1, FS_RemoveElement
  <2>3. Cardinality(claims') + Cardinality(Claiming') <= MaxClaims
    BY <1>4, <1>5, <2>1, <2>2
  <2> QED BY <1>5, <2>3, WriteOvertakes DEF CasInv
<1>6. ASSUME Subsides(records, records')
      PROVE  /\ StoreOK' /\ claims' = claims /\ UNCHANGED <<issued, leases, claims, clock>>
  <2>1. /\ SnapshotOK(records') /\ DOMAIN records' \subseteq DOMAIN records
        /\ NewLeases(records') = {}
        /\ \A j \in DOMAIN records' : records'[j].leaseId \in {Null} \cup 1 .. leases
    BY <1>1, <1>6, SubsidingHasNoNewLeases
  <2> QED BY <1>1, <1>3, <2>1, QuietWrite
<1>7. CASE records' = Maintained(records, now)
  <2>1. Subsides(records, records')
    BY <1>3, <1>7, MaintainedSubsides
  <2>2. Atomic!Maintain
    BY <1>3, <1>6, <1>7, <2>1, SameOperators DEF Atomic!Maintain
  <2> QED BY <1>6, <2>1, <2>2 DEF Atomic!Next
<1>8. CASE \E q \in Requests, id \in JobIds \ issued : records' = AfterEnqueue(records, now, id, q)
  <2>1. PICK q \in Requests, id \in JobIds \ issued : records' = AfterEnqueue(records, now, id, q)
    BY <1>8
  <2>2. /\ SnapshotOK(records') /\ DOMAIN records' \subseteq DOMAIN records \cup {id}
        /\ \A j \in DOMAIN records' : records'[j].state = "running" =>
             j \in DOMAIN records /\ SameRun(records[j], records'[j])
    BY <1>3, <2>1, EnqueueOK
  <2>3. StoreOK' /\ issued' = issued \cup DOMAIN records' /\ UNCHANGED <<leases, claims, clock>>
    BY <1>1, <1>3, <2>2, NoNewLeases, QuietWrite
  <2>4. issued' = IF id \in DOMAIN records' THEN issued \cup {id} ELSE issued
    BY <1>3, <2>2, <2>3
  <2>5. Atomic!Enqueue(q)
    BY <1>3, <2>1, <2>3, <2>4, SameOperators DEF Atomic!Enqueue
  <2> QED BY <2>3, <2>5 DEF Atomic!Next, Atomic!ClientNext
<1>9. CASE /\ cmd.op = "claim"
           /\ \E w \in Workers, types \in ClaimTypes :
              \E id \in Candidates(Maintained(records, now), now, types) :
                records' = AfterClaim(records, now, id, w, leases + 1)
  <2>1. PICK w \in Workers, types \in ClaimTypes :
        \E id \in Candidates(Maintained(records, now), now, types) :
          records' = AfterClaim(records, now, id, w, leases + 1)
    BY <1>9
  <2>2. PICK id \in Candidates(Maintained(records, now), now, types) :
          records' = AfterClaim(records, now, id, w, leases + 1)
    BY <2>1
  <2>3. /\ StoreOK' /\ issued' = issued /\ clock' = clock
        /\ leases' = leases + 1
        /\ claims' = claims \cup {[jobId |-> id, leaseId |-> leases + 1, workerId |-> w]}
        /\ Cardinality(claims') <= Cardinality(claims) + 1
    BY <1>1, <1>3, <2>2, ClaimWrite
  <2>4. Cardinality(claims) < MaxClaims
    <3>1. p \in Claiming
      BY <1>1, <1>9 DEF Claiming
    <3>2. Cardinality(Claiming) # 0
      BY <1>4, <3>1, FS_EmptySet
    <3> QED BY <1>4, <3>2
  <2>5. Atomic!Cardinality(claims) = Cardinality(claims)
    BY DEF Atomic!Cardinality, Cardinality
  <2>6. Atomic!ClaimJob(w, types)
    BY <1>3, <2>2, <2>3, <2>4, <2>5, SameOperators DEF Atomic!ClaimJob
  <2> QED BY <1>9, <2>3, <2>6 DEF Atomic!Next, Atomic!WorkerNext
<1>10. CASE cmd.op \in LeaseOps /\
              \/ records' = AfterRenew(records, now, cmd.claim)
              \/ records' = AfterComplete(records, now, cmd.claim)
              \/ \E retryable \in BOOLEAN :
                   records' = AfterFail(records, now, cmd.claim, retryable)
  <2>1. cmd.claim \in claims
    BY <1>1, <1>10, CommandsAssumption DEF CallOK, Commands, LeaseOps
  <2>2. Subsides(records, records')
    BY <1>3, <1>10, FinishSubsides
  <2>3. \/ Atomic!Renew(cmd.claim) \/ Atomic!Complete(cmd.claim)
        \/ \E retryable \in BOOLEAN : Atomic!Fail(cmd.claim, retryable)
    BY <1>3, <1>6, <1>10, <2>2, SameOperators DEF Atomic!Renew, Atomic!Complete, Atomic!Fail
  <2> QED BY <1>6, <2>1, <2>2, <2>3 DEF Atomic!Next, Atomic!WorkerNext
<1>11. CASE \E q \in Requests, id \in issued :
              records' = AfterCancel(records, now, id, q.actor, q.caseId, q.expectedRevision)
  <2>1. PICK q \in Requests, id \in issued :
          records' = AfterCancel(records, now, id, q.actor, q.caseId, q.expectedRevision)
    BY <1>11
  <2>2. Subsides(records, records')
    BY <1>3, <2>1, CancelSubsides
  <2>3. Atomic!CancelJob(id, q)
    BY <1>3, <1>6, <2>1, <2>2, SameOperators DEF Atomic!CancelJob
  <2> QED BY <1>6, <2>2, <2>3 DEF Atomic!Next, Atomic!ClientNext
<1>12. CASE \E q \in Requests : records' = AfterPurgeDeletedCase(records, now, q.caseId)
  <2>1. PICK q \in Requests : records' = AfterPurgeDeletedCase(records, now, q.caseId)
    BY <1>12
  <2>2. Subsides(records, records')
    BY <1>3, <2>1, RemovalSubsides
  <2>3. Atomic!PurgeDeletedCase(q.caseId)
    BY <1>3, <1>6, <2>1, <2>2, SameOperators DEF Atomic!PurgeDeletedCase
  <2> QED BY <1>6, <2>2, <2>3 DEF Atomic!Next, Atomic!ClientNext
<1> QED BY <1>2, <1>7, <1>8, <1>9, <1>10, <1>11, <1>12 DEF Outcome

-----------------------------------------------------------------------------
(* The steps that store nothing. *)

(* What a call has just computed from the text it has just read.           *)
LEMMA ReadIsOK ==
  ASSUME CasInv, NEW p \in Callers, NEW cmd \in Commands, NEW tries \in Nat, NEW since \in Nat,
         tries <= revision - since, Read(p, cmd, tries, since),
         UNCHANGED <<records, revision, issued, leases, claims, clock>>
  PROVE  /\ StoreOK'
         /\ call' = [q \in Callers |-> call'[q]]
         /\ \A q \in Callers : call'[q] # Null => CallOK(call[q])' /\ TriesPaid(call[q])'
         /\ \A q \in Callers : q # p => call'[q] = call[q]
         /\ call'[p] # Null => call'[p].cmd = cmd
<1>1. StoreOK'
  BY DEF CasInv, StoreOK
<1>2. PICK next \in Results(cmd) :
        call' = [call EXCEPT ![p] =
          IF Changed(cmd, next)
            THEN [cmd |-> cmd, base |-> revision, next |-> next, tries |-> tries, since |-> since]
            ELSE Null]
  BY DEF Read
<1>3. Outcome(cmd, clock, next)
  BY ResultsAreOutcomes
<1>4. /\ revision \in Nat /\ clock \in 0 .. clock
      /\ Commands' = Commands /\ \A c, now, n : Outcome(c, now, n) <=> Outcome(c, now, n)'
  <2>1. revision \in Nat /\ clock \in 0 .. clock
    BY DEF CasInv, StoreOK
  <2> QED BY <2>1 DEF Commands, Outcome, Candidates
<1>5. ASSUME NEW q \in Callers, call'[q] # Null
      PROVE  CallOK(call[q])' /\ TriesPaid(call[q])'
  <2>1. CASE q = p
    <3>1. call'[q] = [cmd |-> cmd, base |-> revision, next |-> next, tries |-> tries,
                      since |-> since]
      BY <1>2, <1>5, <2>1 DEF CasInv
    <3> QED BY <1>3, <1>4, <3>1 DEF CallOK, TriesPaid
  <2>2. CASE q # p
    <3>1. call'[q] = call[q] /\ CallOK(call[q]) /\ TriesPaid(call[q])
      BY <1>2, <1>5, <2>2 DEF CasInv
    <3> QED BY <1>4, <3>1 DEF CallOK, TriesPaid
  <2> QED BY <2>1, <2>2
<1> QED BY <1>1, <1>2, <1>5 DEF CasInv

LEMMA ClaimingCount ==
  ASSUME CasInv, NEW p \in Callers, Claiming' \subseteq Claiming \cup {p}
  PROVE  /\ Cardinality(Claiming') \in Nat /\ Cardinality(Claiming) \in Nat
         /\ Cardinality(claims) \in Nat
         /\ Cardinality(Claiming') <= Cardinality(Claiming) + 1
         /\ Claiming' \subseteq Claiming => Cardinality(Claiming') <= Cardinality(Claiming)
<1>1. Claiming \subseteq Callers /\ IsFiniteSet(Claiming) /\ IsFiniteSet(claims)
  <2>1. Claiming \subseteq Callers
    BY DEF Claiming
  <2> QED BY <2>1, CasAssumption, FS_Subset DEF CasInv, StoreOK
<1>2. /\ IsFiniteSet(Claiming \cup {p}) /\ Cardinality(Claiming) \in Nat
      /\ Cardinality(Claiming \cup {p}) \in Nat /\ Cardinality(claims) \in Nat
      /\ Cardinality(Claiming \cup {p}) <= Cardinality(Claiming) + 1
  BY <1>1, AddingOne, FS_CardinalityType
<1>3. /\ Cardinality(Claiming') \in Nat
      /\ Cardinality(Claiming') <= Cardinality(Claiming \cup {p})
      /\ Claiming' \subseteq Claiming => Cardinality(Claiming') <= Cardinality(Claiming)
  BY <1>1, <1>2, FS_Subset, FS_CardinalityType
<1> QED BY <1>2, <1>3

(* A call that ends without a write.                                       *)
LEMMA CallEnds ==
  ASSUME CasInv, NEW p \in Callers, call' = [call EXCEPT ![p] = Null],
         UNCHANGED <<records, revision, issued, leases, claims, clock>>
  PROVE  CasInv'
<1>1. StoreOK' /\ call = [q \in Callers |-> call[q]]
  BY DEF CasInv, StoreOK
<1>2. Commands' = Commands /\ \A c, now, n : Outcome(c, now, n) <=> Outcome(c, now, n)'
  BY DEF Commands, Outcome, Candidates
<1>3. ASSUME NEW q \in Callers, call'[q] # Null
      PROVE  CallOK(call[q])' /\ TriesPaid(call[q])'
  <2>1. call'[q] = call[q] /\ CallOK(call[q]) /\ TriesPaid(call[q])
    BY <1>1, <1>3 DEF CasInv
  <2> QED BY <1>2, <2>1 DEF CallOK, TriesPaid
<1>4. Claiming' \subseteq Claiming
  BY <1>1 DEF Claiming
<1>5. Cardinality(claims') + Cardinality(Claiming') <= MaxClaims
  <2>1. Cardinality(claims) + Cardinality(Claiming) <= MaxClaims /\ MaxClaims \in Nat
    BY CasAssumption DEF CasInv
  <2> QED BY <1>4, <2>1, ClaimingCount
<1> QED BY <1>1, <1>3, <1>5 DEF CasInv

LEMMA BeginStep ==
  ASSUME CasInv, NEW p \in Callers, NEW cmd \in Commands, Begin(p, cmd)
  PROVE  CasInv'
<1>1. /\ Read(p, cmd, 0, revision) /\ revision \in Nat
      /\ cmd.op = "claim" => Cardinality(claims) + Cardinality(Claiming) < MaxClaims
      /\ UNCHANGED <<records, revision, issued, leases, claims, clock>>
  BY DEF Begin, CasInv, StoreOK
<1>2. /\ StoreOK' /\ call' = [q \in Callers |-> call'[q]]
      /\ \A q \in Callers : call'[q] # Null => CallOK(call[q])' /\ TriesPaid(call[q])'
      /\ \A q \in Callers : q # p => call'[q] = call[q]
      /\ call'[p] # Null => call'[p].cmd = cmd
  <2>1. 0 \in Nat /\ 0 <= revision - revision
    BY <1>1
  <2> QED BY <1>1, <2>1, ReadIsOK
<1>3. /\ Claiming' \subseteq Claiming \cup {p}
      /\ cmd.op # "claim" => Claiming' \subseteq Claiming
  BY <1>2 DEF Claiming
<1>4. Cardinality(claims') + Cardinality(Claiming') <= MaxClaims
  <2>1. Cardinality(claims) + Cardinality(Claiming) <= MaxClaims /\ MaxClaims \in Nat
    BY CasAssumption DEF CasInv
  <2> QED BY <1>1, <1>3, <2>1, ClaimingCount
<1> QED BY <1>2, <1>4 DEF CasInv

LEMMA RetryStep ==
  ASSUME CasInv, NEW p \in Callers, Retry(p)
  PROVE  CasInv'
<1> DEFINE c == call[p]
           tries == c.tries + 1
<1>1. /\ c # Null /\ CallOK(c) /\ TriesPaid(c) /\ c.base # revision
      /\ revision \in Nat /\ call = [q \in Callers |-> call[q]]
      /\ UNCHANGED <<records, revision, issued, leases, claims, clock>>
  BY DEF Retry, Unchanged, CasInv, StoreOK
<1>2. CASE tries < MaxContentionRetries
  <2>1. Read(p, c.cmd, tries, c.since)
    BY <1>2 DEF Retry
  <2>2. tries \in Nat /\ c.since \in Nat /\ tries <= revision - c.since /\ c.cmd \in Commands
    BY <1>1 DEF CallOK, TriesPaid
  <2>3. /\ StoreOK' /\ call' = [q \in Callers |-> call'[q]]
        /\ \A q \in Callers : call'[q] # Null => CallOK(call[q])' /\ TriesPaid(call[q])'
        /\ \A q \in Callers : q # p => call'[q] = call[q]
        /\ call'[p] # Null => call'[p].cmd = c.cmd
    BY <1>1, <2>1, <2>2, ReadIsOK
  <2>4. Claiming' \subseteq Claiming
    BY <1>1, <2>3 DEF Claiming
  <2>5. Cardinality(claims') + Cardinality(Claiming') <= MaxClaims
    <3>1. Cardinality(claims) + Cardinality(Claiming) <= MaxClaims /\ MaxClaims \in Nat
      BY CasAssumption DEF CasInv
    <3> QED BY <1>1, <2>4, <3>1, ClaimingCount
  <2> QED BY <2>3, <2>5 DEF CasInv
<1>3. CASE ~(tries < MaxContentionRetries)
  <2>1. call' = [call EXCEPT ![p] = Null]
    BY <1>3 DEF Retry
  <2> QED BY <1>1, <2>1, CallEnds
<1> QED BY <1>2, <1>3

LEMMA CrashStep ==
  ASSUME CasInv, NEW p \in Callers, Crash(p)
  PROVE  CasInv'
BY CallEnds DEF Crash

(* A worker stops: its calls are over, so the commands of the calls in     *)
(* progress may still be given.                                            *)
LEMMA DropStep ==
  ASSUME CasInv, NEW c \in claims, Drop(c)
  PROVE  CasInv' /\ Atomic!Next
<1>1. /\ claims' = claims \ {c}
      /\ UNCHANGED <<records, revision, issued, leases, clock, call>>
      /\ \A p \in Callers : call[p] # Null =>
           ~(call[p].cmd.op \in LeaseOps /\ call[p].cmd.claim = c)
  BY DEF Drop, LeaseOps
<1>2. /\ claims' \subseteq LeaseClaim /\ IsFiniteSet(claims')
      /\ Cardinality(claims') <= Cardinality(claims)
      /\ Cardinality(claims') \in Nat /\ Cardinality(claims) \in Nat
  BY <1>1, FS_Subset, FS_CardinalityType DEF CasInv, StoreOK
<1>3. StoreOK'
  <2>1. /\ StoreOK
        /\ SnapshotOK(records) => SnapshotOK(records')
    BY <1>1 DEF CasInv
  <2> QED BY <1>1, <1>2, <2>1 DEF StoreOK
<1>4. Claiming' = Claiming
  BY <1>1 DEF Claiming
<1>5. Cardinality(claims') + Cardinality(Claiming') <= MaxClaims
  <2>1. Claiming \subseteq Callers
    BY DEF Claiming
  <2>2. Cardinality(Claiming) \in Nat
    BY <2>1, CasAssumption, FS_Subset, FS_CardinalityType
  <2> QED BY <1>2, <1>4, <2>2, CasAssumption DEF CasInv
<1>6. ASSUME NEW p \in Callers, call'[p] # Null
      PROVE  CallOK(call[p])' /\ TriesPaid(call[p])'
  <2>1. call'[p] = call[p] /\ CallOK(call[p]) /\ TriesPaid(call[p])
    BY <1>1, <1>6 DEF CasInv
  <2>2. call[p].cmd \in Commands'
    BY <1>1, <1>6, <2>1 DEF CallOK, Commands, LeaseOps
  <2>3. \A now, next : Outcome(call[p].cmd, now, next) => Outcome(call[p].cmd, now, next)'
    BY <1>1 DEF Outcome, Candidates
  <2> QED BY <1>1, <2>1, <2>2, <2>3 DEF CallOK, TriesPaid
<1>7. Atomic!Drop(c)
  BY <1>1 DEF Atomic!Drop
<1> QED BY <1>1, <1>3, <1>5, <1>6, <1>7 DEF CasInv, Atomic!Next, Atomic!WorkerNext

LEMMA TickStep ==
  ASSUME CasInv, Tick
  PROVE  CasInv' /\ Atomic!Next
<1>1. /\ clock' = clock + 1 /\ clock < MaxClock
      /\ UNCHANGED <<records, revision, issued, leases, claims, call>>
  BY DEF Tick
<1>2. clock \in 0 .. MaxClock /\ clock' \in 0 .. MaxClock /\ \A t \in 0 .. clock : t \in 0 .. clock'
  BY <1>1, CasAssumption DEF CasInv, StoreOK
<1>3. StoreOK'
  BY <1>1, <1>2 DEF CasInv, StoreOK
<1>4. /\ Commands' = Commands /\ Claiming' = Claiming
      /\ \A c, now, n : Outcome(c, now, n) <=> Outcome(c, now, n)'
  BY <1>1 DEF Commands, Claiming, Outcome, Candidates
<1>5. ASSUME NEW p \in Callers, call'[p] # Null
      PROVE  CallOK(call[p])' /\ TriesPaid(call[p])'
  <2>1. call'[p] = call[p] /\ CallOK(call[p]) /\ TriesPaid(call[p])
    BY <1>1, <1>5 DEF CasInv
  <2> QED BY <1>1, <1>2, <1>4, <2>1 DEF CallOK, TriesPaid
<1>6. Atomic!Tick
  BY <1>1 DEF Atomic!Tick
<1> QED BY <1>1, <1>3, <1>4, <1>5, <1>6 DEF CasInv, Atomic!Next

-----------------------------------------------------------------------------
(* The theorems. *)

LEMMA CasInit ==
  ASSUME Init
  PROVE  CasInv /\ Atomic!Init
<1>1. SnapshotOK(records) /\ DOMAIN records = {} /\ IsFiniteSet(claims)
  <2>1. DOMAIN records = {} /\ RunningJobs(records) = {} /\ claims = {}
    BY DEF Init, RunningJobs
  <2> QED
    BY <2>1, FS_EmptySet, QueueOptionsAssumption DEF SnapshotOK, UniqueKeys, OneRunningPerCase
<1>2. StoreOK
  BY <1>1, CasAssumption DEF Init, StoreOK
<1>3. Cardinality(claims) + Cardinality(Claiming) <= MaxClaims
  <2>1. claims = {} /\ Claiming = {}
    BY DEF Init, Claiming
  <2> QED BY <2>1, FS_EmptySet, CasAssumption
<1>4. Atomic!Init
  BY DEF Init, Atomic!Init
<1> QED BY <1>2, <1>3, <1>4 DEF Init, CasInv

LEMMA CasStep ==
  ASSUME CasInv, [Next]_vars
  PROVE  CasInv' /\ [Atomic!Next]_(Atomic!vars)
<1>1. ASSUME NEW p \in Callers, NEW cmd \in Commands, Begin(p, cmd)
      PROVE  CasInv' /\ UNCHANGED Atomic!vars
  BY <1>1, BeginStep DEF Begin, Atomic!vars
<1>2. ASSUME NEW p \in Callers, Retry(p)
      PROVE  CasInv' /\ UNCHANGED Atomic!vars
  BY <1>2, RetryStep DEF Retry, Atomic!vars
<1>3. ASSUME NEW p \in Callers, Crash(p)
      PROVE  CasInv' /\ UNCHANGED Atomic!vars
  BY <1>3, CrashStep DEF Crash, Atomic!vars
<1>4. CASE UNCHANGED vars
  <2>1. UNCHANGED Atomic!vars
    BY <1>4 DEF vars, Atomic!vars
  <2>2. /\ Commands' = Commands /\ Claiming' = Claiming /\ StoreOK'
        /\ \A c, now, n : Outcome(c, now, n) <=> Outcome(c, now, n)'
    BY <1>4 DEF vars, Commands, Claiming, Outcome, Candidates, CasInv, StoreOK
  <2>3. ASSUME NEW p \in Callers, call'[p] # Null
        PROVE  CallOK(call[p])' /\ TriesPaid(call[p])'
    <3>1. CallOK(call[p]) /\ TriesPaid(call[p])
      BY <1>4, <2>3 DEF vars, CasInv
    <3> QED BY <1>4, <2>2, <3>1 DEF vars, CallOK, TriesPaid
  <2> QED BY <1>4, <2>1, <2>2, <2>3 DEF vars, CasInv
<1> QED
  BY <1>1, <1>2, <1>3, <1>4, CommitStep, DropStep, TickStep DEF Next

(* Whatever calls are in progress, the stored text is sound, every lease   *)
(* in it was drawn, and a call whose text is unchanged holds the result    *)
(* of its operation.                                                       *)
THEOREM CasInvariant == Spec => []CasInv
BY CasInit, CasStep, PTL DEF Spec

(* Concurrent read-compute-compare-and-swap calls, their retries and       *)
(* crashes, behave as the atomic operations of JobQueue.                   *)
THEOREM CasImplementsQueue == Spec => AtomicSpec
<1>1. CasInv /\ [Next]_vars => [Atomic!Next]_(Atomic!vars)
  BY CasStep
<1>2. Init => Atomic!Init
  BY CasInit
<1> QED BY <1>1, <1>2, CasInvariant, PTL DEF Spec, AtomicSpec, Atomic!Spec

(* A caller is refused, and gives up with JOB_QUEUE_CONTENTION, only after *)
(* as many commits of others.                                              *)
THEOREM ContentionIsPaid == Spec => []ContentionMeansProgress
<1>1. CasInv => ContentionMeansProgress
  <2>1. ASSUME CasInv, NEW p \in Callers, call[p] # Null
        PROVE  call[p].tries <= revision - call[p].since
    <3>1. TriesPaid(call[p]) /\ revision \in Nat
      BY <2>1 DEF CasInv, StoreOK
    <3> QED BY <3>1 DEF TriesPaid
  <2> QED BY <2>1 DEF ContentionMeansProgress
<1> QED BY <1>1, CasInvariant, PTL

(* No interleaving of calls, retries and crashes stores a snapshot that    *)
(* the queue's own reader would reject.                                    *)
THEOREM CasNeverCorrupt == Spec => []SnapshotIntegrity(records)
<1>1. CasInv => SnapshotIntegrity(records)
  BY DEF CasInv, StoreOK, SnapshotOK, RecordOK, SnapshotIntegrity
<1> QED BY <1>1, CasInvariant, PTL
==============================================================================
