----------------------- MODULE ArtifactProcessingProofs -----------------------
(***************************************************************************)
(* What is proved of the processing of scanned contracts and videos, for   *)
(* every number of artifacts, jobs, workers, requests, attempts, stalls,   *)
(* errors and crashes.                                                     *)
(*                                                                         *)
(* TypeInv   every variable has its type, and every lease was granted to   *)
(*           an attempt of a job of its own;                               *)
(* LifeInv   what workers, requests and rows know of the records is true;  *)
(* StrayInv  who is to remove the files that nobody needs any more;        *)
(* AloneInv  unless a worker stalls, it is alone with its job;             *)
(* DiskInv   what was prepared, written and published is on disk;          *)
(* QuotaInv  the images and the videos of an open case fit its quota.      *)
(*                                                                         *)
(* Each is inductive given the ones above it (StrayInv and QuotaInv given  *)
(* the first two).  A lemma whose name ends in Move says what one action   *)
(* does, one that ends in Kept that a part of an invariant is preserved.   *)
(***************************************************************************)
EXTENDS ArtifactProcessing, FiniteSetTheorems, TLAPS

-----------------------------------------------------------------------------
(* Where workers and requests stand. *)

WorkerPcs == {"off", "claim", "gate", "find", "renew", "read", "write", "commit", "mark",
              "wipe", "complete", "fail"}

RunState ==
  [pc : WorkerPcs, stage : 0..3, job : Jobs \cup {Null}, lease : Nat \cup {Null},
   artifact : Artifacts \cup {Null}, copy : Records \cup {Null}, retry : BOOLEAN]

ClientPcs == {"idle", "findByKey", "save", "create", "discard", "submit", "link", "authorize",
              "candidate", "text", "finalize", "dequeue", "withdraw", "purge", "deleteFiles",
              "completeDeletion"}

CallState ==
  [pc : ClientPcs, artifact : Artifacts \cup {Null}, copy : Records \cup {Null}]

Resting(r) == r.pc \in {"off", "claim"}

\* The worker has read the record and is preparing or publishing its file, or
\* gives up on it.
Preparing(r) == \/ r.pc \in {"renew", "read", "write", "commit", "mark", "wipe"}
                \/ r.pc = "gate" /\ r.stage # 0

\* The local variables of a worker suit its step, n leases being granted.
RunOK(r, n) ==
  /\ r \in RunState
  /\ Resting(r) => r.job = Null /\ r.artifact = Null /\ r.copy = Null
  /\ ~Resting(r) => r.job \in Jobs /\ r.lease \in 1..n /\ r.artifact \in Artifacts
  /\ r.pc = "renew" => r.stage \in 1..3
  /\ r.pc = "find" => r.stage = 0
  /\ r.pc = "read" => r.stage = 1
  /\ r.pc = "write" => r.stage = 2
  /\ r.pc = "commit" => r.stage = 3
  /\ Preparing(r) => r.copy \in Records /\ r.copy.state = "queued"

\* Those of a request suit its step, d being the artifact ids in use.
CallOK(c, d) ==
  /\ c \in CallState
  /\ c.pc \in {"idle", "findByKey", "purge", "deleteFiles", "completeDeletion"} => c.artifact = Null
  /\ c.pc \in {"save", "create", "discard", "submit", "link", "authorize", "candidate", "text",
               "finalize", "dequeue", "withdraw"}
       => c.artifact \in Artifacts /\ c.artifact \in d /\ c.copy \in Records
  /\ c.pc = "findByKey" => c.copy \in Records
  /\ c.pc \in {"findByKey", "save", "create", "submit", "link"} => c.copy.state = "queued"
  /\ c.pc \in {"authorize", "candidate", "text", "finalize"} => c.copy.state = "requires_confirmation"
  /\ c.pc \in {"link", "dequeue"} => c.copy.jobId \in Jobs
  /\ c.pc \in {"dequeue", "withdraw"} => c.copy.state # "available"

JobOK(j) ==
  /\ job[j].state = "running" => job[j].lease \in 1..leases /\ job[j].attempt \in 1..MaxAttempts
  /\ job[j].state # "running" => job[j].lease = Null
  /\ job[j].state = "queued" => job[j].attempt < MaxAttempts
  /\ job[j].state = "new" => job[j].attempt = 0
  /\ job[j].state \in {"new", "gone"} <=> job[j].artifact = Null
  /\ job[j].artifact \in drawn \cup {Null}

\* Every lease was granted to some attempt of some job, so they are bounded.
LeasesCounted ==
  \E f \in [1..leases -> Jobs \X (1..MaxAttempts)] :
    /\ \A x, y \in 1..leases : f[x] = f[y] => x = y
    /\ \A x \in 1..leases : \/ job[f[x][1]].state = "gone"
                            \/ f[x][2] <= job[f[x][1]].attempt

TableTypes ==
  /\ rentalCase \in [status : {"open", "deleting", "gone"}, revision : Nat]
  /\ session \in BOOLEAN
  /\ rec \in [Artifacts -> Records \cup {Null}]
  /\ row \in [Artifacts -> Directories \cup {Null}]
  /\ image \in [Images -> {"none", "quarantined", "available", "abandoned"}]
  /\ files \in [Artifacts -> Directories \cup {Null}]
  /\ drawn \subseteq Artifacts /\ lostCreate \in BOOLEAN
  /\ \A a \in Artifacts : a \notin drawn => files[a] = Null /\ rec[a] = Null

QueueTypes ==
  /\ job \in [Jobs -> JobRecords] /\ leases \in Nat
  /\ \A j \in Jobs : JobOK(j)
  /\ LeasesCounted

MishapTypes == crashes \in Nat /\ stalls \in Nat /\ faults \in Nat

TypeInv ==
  /\ TableTypes /\ QueueTypes /\ MishapTypes
  /\ run \in [Workers -> RunState] /\ \A w \in Workers : RunOK(run[w], leases)
  /\ call \in [Clients -> CallState] /\ \A p \in Clients : CallOK(call[p], drawn)

-----------------------------------------------------------------------------
(* How a worker and a request move on. *)

\* Contents are named by leases: n leases, each for an attempt of a job of its
\* own, do not exhaust them.
LEMMA ContentsSuffice ==
  ASSUME NEW n \in Nat, NEW f \in [1..n -> Jobs \X (1..MaxAttempts)],
         \A x, y \in 1..n : f[x] = f[y] => x = y
  PROVE  0..n \subseteq Contents
<1>2. IsFiniteSet(Jobs) /\ MaxAttempts \in Nat
  BY ProcessingAssumption
<1>3. /\ IsFiniteSet(1..MaxAttempts) /\ Cardinality(1..MaxAttempts) = MaxAttempts
      /\ IsFiniteSet(1..n) /\ Cardinality(1..n) = n
  <2>1. \A k \in Nat : IsFiniteSet(1..k) /\ Cardinality(1..k) = k
    <3>1. ASSUME NEW k \in Nat PROVE IsFiniteSet(1..k) /\ Cardinality(1..k) = k
      <4>1. IsFiniteSet(1..k) /\ Cardinality(1..k) = IF 1 > k THEN 0 ELSE k - 1 + 1
        BY FS_Interval
      <4> QED BY <4>1
    <3> QED BY <3>1
  <2> QED BY <1>2, <2>1
<1>4. /\ IsFiniteSet(Jobs \X (1..MaxAttempts))
      /\ Cardinality(Jobs \X (1..MaxAttempts)) = Cardinality(Jobs) * MaxAttempts
  <2> DEFINE attempts == 1..MaxAttempts
  <2>1. IsFiniteSet(Jobs) /\ IsFiniteSet(attempts) /\ Cardinality(attempts) = MaxAttempts
    BY <1>2, <1>3
  <2> HIDE DEF attempts
  <2>2. /\ IsFiniteSet(Jobs \X attempts)
        /\ Cardinality(Jobs \X attempts) = Cardinality(Jobs) * Cardinality(attempts)
    BY <2>1, FS_Product
  <2> QED BY <2>1, <2>2 DEF attempts
<1>5. f \in Injection(1..n, Jobs \X (1..MaxAttempts))
  BY DEF Injection, IsInjective
<1>6. n <= Cardinality(Jobs) * MaxAttempts
  BY <1>3, <1>4, <1>5, FS_Injection
<1>7. Cardinality(Jobs) \in Nat
  BY <1>2, FS_CardinalityType
<1> DEFINE m == MaxAttempts * Cardinality(Jobs)
<1>8. m \in Nat /\ n <= m
  BY <1>2, <1>6, <1>7
<1>9. Contents = {Null} \cup 0..m
  BY DEF Contents
<1> HIDE DEF m
<1> QED BY <1>8, <1>9

LEMMA LeasesAreContents ==
  ASSUME TypeInv
  PROVE  0..leases \subseteq Contents /\ Null \notin 0..leases
<1>1. leases \in Nat /\ \E f \in [1..leases -> Jobs \X (1..MaxAttempts)] :
        \A x, y \in 1..leases : f[x] = f[y] => x = y
  BY DEF TypeInv, QueueTypes, LeasesCounted
<1> QED BY <1>1, ContentsSuffice, ProcessingAssumption

LEMMA CaughtOK ==
  ASSUME NEW r, NEW n \in Nat, RunOK(r, n), r.pc # "off"
  PROVE  /\ RunOK(Caught(r), n)
         /\ Resting(Caught(r)) \/ (/\ ~Resting(r) /\ Caught(r).pc \in {"fail", "mark"}
                                   /\ Caught(r).pc = "mark" => Preparing(r)
                                   /\ Caught(r).job = r.job /\ Caught(r).lease = r.lease
                                   /\ Caught(r).artifact = r.artifact /\ Caught(r).copy = r.copy)
<1>1. Off \in RunState /\ RunOK(Off, n) /\ Resting(Off)
  BY DEF Off, RunState, WorkerPcs, RunOK, Resting, Preparing
<1>2. CASE r.pc \in {"claim", "fail"}
  BY <1>1, <1>2 DEF Caught
<1> DEFINE f(b) == [r EXCEPT !.pc = "fail", !.retry = b]
           m == [r EXCEPT !.pc = "mark"]
<1>3. CASE r.pc \notin {"claim", "fail"}
  <2>1. \A b \in BOOLEAN : /\ f(b) \in RunState /\ f(b).pc = "fail" /\ f(b).job = r.job
                           /\ f(b).lease = r.lease /\ f(b).artifact = r.artifact
                           /\ f(b).copy = r.copy
    BY DEF RunOK, RunState, WorkerPcs
  <2>2. \A b \in BOOLEAN : RunOK(f(b), n)
    BY <1>3, <2>1, Zenon DEF RunOK, Resting, Preparing
  <2>3. /\ m \in RunState /\ m.pc = "mark" /\ m.job = r.job /\ m.lease = r.lease
        /\ m.artifact = r.artifact /\ m.copy = r.copy
    BY DEF RunOK, RunState, WorkerPcs
  <2>4. Preparing(r) => RunOK(m, n)
    BY <1>3, <2>3 DEF RunOK, Resting, Preparing
  <2>5. Caught(r) = f(TRUE) \/ Caught(r) = f(FALSE) \/ (Caught(r) = m /\ Preparing(r))
    BY <1>3 DEF Caught, Failing, RunOK, RunState, WorkerPcs, Preparing
  <2>6. ~Resting(r)
    BY <1>3 DEF Resting
  <2> HIDE DEF f, m
  <2> QED BY <2>1, <2>2, <2>3, <2>4, <2>5, <2>6
<1> QED BY <1>2, <1>3

\* A step of worker w that leaves it at r, or in its catch clause.
LEMMA WorkerMoves ==
  ASSUME TypeInv, NEW w \in Workers, NEW r, To(w, r), run[w].pc # "off",
         leases' \in Nat, leases <= leases', RunOK(r, leases')
  PROVE  /\ run' \in [Workers -> RunState] /\ \A v \in Workers : RunOK(run'[v], leases')
         /\ run'[w] = r \/ (run'[w] = Caught(run[w]) /\ faults' = faults + 1)
         /\ \A v \in Workers : v # w => run'[v] = run[v]
         /\ crashes' = crashes /\ stalls' = stalls /\ faults' \in {faults, faults + 1}
<1>1. /\ run \in [Workers -> RunState] /\ \A v \in Workers : RunOK(run[v], leases)
      /\ leases \in Nat
  BY DEF TypeInv, QueueTypes
<1>2. RunOK(Caught(run[w]), leases)
  BY <1>1, CaughtOK
<1>3. \A x : RunOK(x, leases) => RunOK(x, leases')
  BY <1>1 DEF RunOK
<1>4. PICK x : /\ run' = [run EXCEPT ![w] = x] /\ (x = r \/ (x = Caught(run[w]) /\ faults' = faults + 1))
               /\ crashes' = crashes /\ stalls' = stalls /\ faults' \in {faults, faults + 1}
  BY DEF To, mishaps
<1>5. RunOK(x, leases') /\ x \in RunState
  BY <1>2, <1>3, <1>4 DEF RunOK
<1>6. run' \in [Workers -> RunState] /\ run'[w] = x /\ \A v \in Workers : v # w => run'[v] = run[v]
  BY <1>1, <1>4, <1>5
<1> QED BY <1>1, <1>3, <1>4, <1>5, <1>6

\* Only the worker and the count of mishaps change.
LEMMA OnlyWorker ==
  ASSUME TypeInv, NEW w \in Workers, NEW r, To(w, r), run[w].pc # "off", RunOK(r, leases),
         UNCHANGED <<tables, files, history, queue, call>>
  PROVE  TypeInv'
<1>1. /\ leases' \in Nat /\ leases <= leases' /\ leases' = leases
      /\ UNCHANGED <<rentalCase, session, rec, row, image, files, drawn, lostCreate, job, call>>
  BY DEF TypeInv, QueueTypes, tables, history, queue
<1>2. /\ run' \in [Workers -> RunState] /\ \A v \in Workers : RunOK(run'[v], leases')
      /\ crashes' = crashes /\ stalls' = stalls /\ faults' \in {faults, faults + 1}
  BY <1>1, WorkerMoves
<1>3. TableTypes' /\ MishapTypes' /\ QueueTypes'
  <2>1. TableTypes'
    BY <1>1 DEF TypeInv, TableTypes
  <2>2. MishapTypes'
    BY <1>2 DEF TypeInv, MishapTypes
  <2>3. QueueTypes'
    BY <1>1, ZenonT(60) DEF TypeInv, QueueTypes, JobOK, LeasesCounted
  <2> QED BY <2>1, <2>2, <2>3
<1> QED BY <1>1, <1>2, <1>3 DEF TypeInv

-----------------------------------------------------------------------------
(* Types: the steps of the workers. *)

LEMMA OffOK ==
  ASSUME NEW n
  PROVE  RunOK(Off, n) /\ Resting(Off)
BY DEF Off, RunState, WorkerPcs, RunOK, Resting, Preparing

\* The record of a worker that goes on with the same job.
LEMMA FailingOK ==
  ASSUME NEW r, NEW n, RunOK(r, n), ~Resting(r), NEW b \in BOOLEAN
  PROVE  /\ RunOK(Failing(r, b), n) /\ Failing(r, b).pc = "fail"
         /\ Failing(r, b).job = r.job /\ Failing(r, b).lease = r.lease
         /\ Failing(r, b).artifact = r.artifact /\ Failing(r, b).copy = r.copy
<1> DEFINE f == [r EXCEPT !.pc = "fail", !.retry = b]
<1>1. /\ f \in RunState /\ f.pc = "fail" /\ f.job = r.job
      /\ f.lease = r.lease /\ f.artifact = r.artifact /\ f.copy = r.copy
  BY DEF RunOK, RunState, WorkerPcs
<1>2. f = Failing(r, b)
  BY DEF Failing
<1> HIDE DEF f
<1>3. RunOK(f, n)
  BY <1>1 DEF RunOK, Resting, Preparing
<1> QED BY <1>1, <1>2, <1>3

\* pc' is a later step of a worker that has read the record.
LEMMA NextPcOK ==
  ASSUME NEW r, NEW n, RunOK(r, n), ~Resting(r), NEW pc \in WorkerPcs \ {"off", "claim", "renew"},
         pc \in {"read", "write", "commit", "mark", "wipe"} => Preparing(r),
         pc = "gate" => Preparing(r) \/ r.stage = 0,
         pc = "find" => r.stage = 0,
         pc = "read" => r.stage = 1, pc = "write" => r.stage = 2, pc = "commit" => r.stage = 3
  PROVE  /\ RunOK([r EXCEPT !.pc = pc], n) /\ [r EXCEPT !.pc = pc].pc = pc
         /\ [r EXCEPT !.pc = pc].job = r.job /\ [r EXCEPT !.pc = pc].lease = r.lease
         /\ [r EXCEPT !.pc = pc].stage = r.stage
         /\ [r EXCEPT !.pc = pc].artifact = r.artifact /\ [r EXCEPT !.pc = pc].copy = r.copy
<1> DEFINE f == [r EXCEPT !.pc = pc]
<1>1. /\ f \in RunState /\ f.pc = pc /\ f.job = r.job /\ f.stage = r.stage
      /\ f.lease = r.lease /\ f.artifact = r.artifact /\ f.copy = r.copy
  BY DEF RunOK, RunState, WorkerPcs
<1> HIDE DEF f
<1>2. RunOK(f, n)
  BY <1>1 DEF RunOK, Resting, Preparing, WorkerPcs
<1> QED BY <1>1, <1>2 DEF f

LEMMA AssertActiveOK ==
  ASSUME NEW r, NEW n, RunOK(r, n), ~Resting(r), NEW stage \in 1..3,
         r.copy \in Records, r.copy.state = "queued"
  PROVE  /\ RunOK(AssertActive(r, stage), n) /\ AssertActive(r, stage).pc = "renew"
         /\ AssertActive(r, stage).stage = stage
         /\ AssertActive(r, stage).job = r.job /\ AssertActive(r, stage).lease = r.lease
         /\ AssertActive(r, stage).artifact = r.artifact /\ AssertActive(r, stage).copy = r.copy
<1> DEFINE f == [r EXCEPT !.pc = "renew", !.stage = stage]
<1>1. /\ f \in RunState /\ f.pc = "renew" /\ f.job = r.job /\ f.stage = stage
      /\ f.lease = r.lease /\ f.artifact = r.artifact /\ f.copy = r.copy
  <2> DEFINE g == [r EXCEPT !.pc = "renew"]
  <2>1. g \in RunState /\ g.pc = "renew" /\ g.job = r.job /\ g.lease = r.lease
        /\ g.artifact = r.artifact /\ g.copy = r.copy
    BY DEF RunOK, RunState, WorkerPcs
  <2>2. f = [g EXCEPT !.stage = stage]
    BY DEF RunOK, RunState
  <2>3. stage \in 0..3
    OBVIOUS
  <2> HIDE DEF f, g
  <2> QED BY <2>1, <2>2, <2>3 DEF RunState
<1>2. f = AssertActive(r, stage)
  BY DEF AssertActive
<1> HIDE DEF f
<1>3. RunOK(f, n)
  BY <1>1 DEF RunOK, Resting, Preparing
<1> QED BY <1>1, <1>2, <1>3

\* What a worker holds while it is at work on a record that it has read.
Same(r, s) == r.job = s.job /\ r.lease = s.lease /\ r.artifact = s.artifact /\ r.copy = s.copy

LEMMA GateMove ==
  ASSUME TypeInv, NEW w \in Workers, Gate(w)
  PROVE  \E r : /\ To(w, r) /\ RunOK(r, leases) /\ Same(r, run[w])
                /\ r.pc \in {"find", "read", "write", "commit", "fail", "mark"}
                /\ r.pc = "mark" => Preparing(run[w])
                /\ r.pc \in {"read", "write", "commit"} =>
                     r.stage = run[w].stage /\ Preparing(run[w]) /\ GateOpens(run[w].artifact)
<1> DEFINE o == run[w]
           pc == IF o.stage = 0 THEN "find" ELSE IF o.stage = 1 THEN "read"
                 ELSE IF o.stage = 2 THEN "write" ELSE "commit"
           g == [o EXCEPT !.pc = pc]
           m == [o EXCEPT !.pc = "mark"]
<1>1. RunOK(o, leases) /\ o.pc = "gate" /\ ~Resting(o) /\ o.stage \in 0..3
  BY DEF TypeInv, Gate, At, RunOK, RunState, Resting
<1>2. (o.stage # 0 => Preparing(o)) /\ pc \in {"find", "read", "write", "commit"}
  BY <1>1 DEF Preparing
<1>3. /\ RunOK(g, leases) /\ g.pc = pc /\ Same(g, o) /\ g.stage = o.stage
  BY <1>1, <1>2, NextPcOK DEF WorkerPcs, Same
<1>4. o.stage # 0 => RunOK(m, leases) /\ m.pc = "mark" /\ Same(m, o)
  BY <1>1, <1>2, NextPcOK DEF WorkerPcs, Same
<1>5. RunOK(Failing(o, FALSE), leases) /\ Failing(o, FALSE).pc = "fail" /\ Same(Failing(o, FALSE), o)
  BY <1>1, FailingOK DEF Same
<1>6. CASE GateOpens(o.artifact)
  <2>1. AfterGate(o) = g
    BY <1>1 DEF AfterGate
  <2>2. To(w, g)
    BY <1>6, <2>1 DEF Gate
  <2> HIDE DEF g
  <2> QED BY <1>2, <1>3, <1>6, <2>2
<1>7. CASE ~GateOpens(o.artifact)
  <2>1. To(w, Denied(o))
    BY <1>7 DEF Gate
  <2>2. Denied(o) = Failing(o, FALSE) \/ (Denied(o) = m /\ o.stage # 0)
    BY DEF Denied
  <2> HIDE DEF m
  <2> QED BY <1>2, <1>4, <1>5, <2>1, <2>2
<1> QED BY <1>6, <1>7

LEMMA RenewMove ==
  ASSUME TypeInv, NEW w \in Workers, Renew(w)
  PROVE  \E r : /\ To(w, r) /\ RunOK(r, leases) /\ Same(r, run[w])
                /\ r.pc \in {"gate", "fail", "mark"}
                /\ r.pc = "gate" => r.stage = run[w].stage /\ Holds(w)
<1> DEFINE o == run[w]
           g == [o EXCEPT !.pc = "gate"]
           m == [o EXCEPT !.pc = "mark"]
<1>1. RunOK(o, leases) /\ o.pc = "renew" /\ ~Resting(o) /\ o.stage \in 1..3 /\ Preparing(o)
  BY DEF TypeInv, Renew, At, RunOK, Resting, Preparing
<1>2. RunOK(g, leases) /\ g.pc = "gate" /\ Same(g, o) /\ g.stage = o.stage
  BY <1>1, NextPcOK DEF WorkerPcs, Same
<1>3. RunOK(m, leases) /\ m.pc = "mark" /\ Same(m, o)
  BY <1>1, NextPcOK DEF WorkerPcs, Same
<1>4. RunOK(Failing(o, FALSE), leases) /\ Failing(o, FALSE).pc = "fail" /\ Same(Failing(o, FALSE), o)
  BY <1>1, FailingOK DEF Same
<1>5. \/ To(w, g) /\ Holds(w)
      \/ To(w, m)
      \/ To(w, Failing(o, FALSE))
  BY DEF Renew, Denied
<1> HIDE DEF g, m
<1> QED BY <1>2, <1>3, <1>4, <1>5

LEMMA FindWorkMove ==
  ASSUME TypeInv, NEW w \in Workers, FindWork(w)
  PROVE  \E r : /\ To(w, r) /\ RunOK(r, leases)
                /\ r.job = run[w].job /\ r.lease = run[w].lease /\ r.artifact = run[w].artifact
                /\ r.pc \in {"fail", "complete", "renew"}
                /\ r.pc # "renew" => r.copy = run[w].copy
                /\ r.pc = "complete" => /\ rec[run[w].artifact] # Null
                                        /\ rec[run[w].artifact].state \in {"available", "requires_confirmation"}
                /\ r.pc = "renew" => /\ r.stage = 1 /\ r.copy = rec[run[w].artifact]
                                     /\ r.copy # Null /\ r.copy.state = "queued"
<1> DEFINE o == run[w]
           a == o.artifact
           d == [o EXCEPT !.pc = "complete"]
           e == [o EXCEPT !.copy = rec[a]]
<1>1. RunOK(o, leases) /\ o.pc = "find" /\ ~Resting(o) /\ a \in Artifacts /\ o.stage = 0
  BY DEF TypeInv, FindWork, At, RunOK, Resting
<1>2. RunOK(d, leases) /\ d.pc = "complete" /\ Same(d, o)
  BY <1>1, NextPcOK DEF WorkerPcs, Same
<1>3. /\ RunOK(Failing(o, FALSE), leases) /\ Failing(o, FALSE).pc = "fail" /\ Same(Failing(o, FALSE), o)
      /\ RunOK(Failing(o, TRUE), leases) /\ Failing(o, TRUE).pc = "fail" /\ Same(Failing(o, TRUE), o)
  BY <1>1, FailingOK DEF Same
<1>4. rec[a] \in Records \cup {Null}
  BY <1>1 DEF TypeInv, TableTypes
<1>5. /\ RunOK(e, leases) /\ ~Resting(e) /\ e.job = o.job /\ e.lease = o.lease
      /\ e.artifact = a /\ e.copy = rec[a]
  <2>1. /\ e \in RunState /\ e.job = o.job /\ e.lease = o.lease /\ e.pc = o.pc /\ e.stage = o.stage
        /\ e.artifact = a /\ e.copy = rec[a]
    BY <1>1, <1>4 DEF RunOK, RunState
  <2> HIDE DEF e
  <2> QED BY <1>1, <2>1 DEF RunOK, Resting, Preparing
<1> DEFINE q == AssertActive(e, 1)
<1>6. rec[a] # Null /\ rec[a].state = "queued" =>
        /\ RunOK(q, leases) /\ q.pc = "renew" /\ q.stage = 1 /\ q.job = o.job /\ q.lease = o.lease
        /\ q.artifact = a /\ q.copy = rec[a]
  <2> HIDE DEF e
  <2> QED BY <1>4, <1>5, AssertActiveOK
<1>7. \/ To(w, Failing(o, FALSE)) \/ To(w, Failing(o, TRUE))
      \/ To(w, d) /\ rec[a] # Null /\ rec[a].state \in {"available", "requires_confirmation"}
      \/ To(w, q) /\ rec[a] # Null /\ rec[a].state = "queued"
  BY DEF FindWork
<1> HIDE DEF d, e, q
<1> QED BY <1>2, <1>3, <1>6, <1>7 DEF Same

LEMMA ReadMove ==
  ASSUME TypeInv, NEW w \in Workers, ReadOriginal(w)
  PROVE  \E r : /\ To(w, r) /\ RunOK(r, leases) /\ Same(r, run[w])
                /\ r.pc = "mark" \/ (r.pc = "renew" /\ r.stage = 2)
<1> DEFINE o == run[w]
           m == [o EXCEPT !.pc = "mark"]
           q == AssertActive(o, 2)
<1>1. RunOK(o, leases) /\ o.pc = "read" /\ ~Resting(o) /\ Preparing(o)
      /\ o.copy \in Records /\ o.copy.state = "queued"
  BY DEF TypeInv, ReadOriginal, At, RunOK, Resting, Preparing
<1>2. RunOK(m, leases) /\ m.pc = "mark" /\ Same(m, o)
  BY <1>1, NextPcOK DEF WorkerPcs, Same
<1>3. RunOK(q, leases) /\ q.pc = "renew" /\ q.stage = 2 /\ Same(q, o)
  BY <1>1, AssertActiveOK DEF Same
<1>4. To(w, m) \/ To(w, q)
  BY DEF ReadOriginal
<1> HIDE DEF m, q
<1> QED BY <1>2, <1>3, <1>4

LEMMA WriteMove ==
  ASSUME TypeInv, NEW w \in Workers, WriteDerivative(w)
  PROVE  \E r : /\ To(w, r) /\ RunOK(r, leases) /\ Same(r, run[w])
                /\ \/ r.pc = "mark" /\ UNCHANGED files
                   \/ /\ r.pc = "renew" /\ r.stage = 3 /\ files[run[w].artifact] # Null
                      /\ files' = [files EXCEPT ![run[w].artifact].derivative = Prepared(w)]
<1> DEFINE o == run[w]
           m == [o EXCEPT !.pc = "mark"]
           q == AssertActive(o, 3)
<1>1. RunOK(o, leases) /\ o.pc = "write" /\ ~Resting(o) /\ Preparing(o)
      /\ o.copy \in Records /\ o.copy.state = "queued"
  BY DEF TypeInv, WriteDerivative, At, RunOK, Resting, Preparing
<1>2. RunOK(m, leases) /\ m.pc = "mark" /\ Same(m, o)
  BY <1>1, NextPcOK DEF WorkerPcs, Same
<1>3. RunOK(q, leases) /\ q.pc = "renew" /\ q.stage = 3 /\ Same(q, o)
  BY <1>1, AssertActiveOK DEF Same
<1>4. \/ To(w, m) /\ UNCHANGED files
      \/ /\ To(w, q) /\ files[run[w].artifact] # Null
         /\ files' = [files EXCEPT ![run[w].artifact].derivative = Prepared(w)]
  BY DEF WriteDerivative
<1> HIDE DEF m, q
<1> QED BY <1>2, <1>3, <1>4

\* The record of a prepared file.
LEMMA CandidateType ==
  ASSUME TypeInv, NEW w \in Workers, Preparing(run[w])
  PROVE  /\ Prepared(w) \in Contents
         /\ [run[w].copy EXCEPT !.state = "requires_confirmation", !.derivative = Prepared(w)] \in Records
         /\ [run[w].copy EXCEPT !.state = "failed"] \in Records
<1>1. RunOK(run[w], leases) /\ run[w].copy \in Records
  BY DEF TypeInv, RunOK
<1>2. Prepared(w) \in Contents
  <2>1. Prepared(w) \in 0..leases
    BY <1>1 DEF Prepared, Frames, RunOK, Resting, Preparing, TypeInv, QueueTypes
  <2> QED BY <2>1, LeasesAreContents
<1>3. \A c \in Records, d \in Contents, s \in RecordStates :
        /\ [c EXCEPT !.state = s, !.derivative = d] \in Records
        /\ [c EXCEPT !.state = s] \in Records
  BY DEF Records
<1> QED BY <1>1, <1>2, <1>3, Zenon DEF RecordStates

LEMMA CandidateMove ==
  ASSUME TypeInv, NEW w \in Workers, CommitCandidate(w)
  PROVE  \E r : /\ To(w, r) /\ RunOK(r, leases) /\ Same(r, run[w])
                /\ \/ r.pc = "mark" /\ UNCHANGED tables
                   \/ /\ r.pc = "complete" /\ rec[run[w].artifact] # Null
                      /\ rec[run[w].artifact].state = "queued" /\ Authorized
                      /\ run[w].copy.expectedRevision = rentalCase.revision
                      /\ \E c \in Records :
                           /\ c = [run[w].copy EXCEPT !.state = "requires_confirmation",
                                                      !.derivative = Prepared(w)]
                           /\ Replace(run[w].artifact, c)
<1> DEFINE o == run[w]
           m == [o EXCEPT !.pc = "mark"]
           d == [o EXCEPT !.pc = "complete"]
           c == [o.copy EXCEPT !.state = "requires_confirmation", !.derivative = Prepared(w)]
<1>1. RunOK(o, leases) /\ o.pc = "commit" /\ ~Resting(o) /\ Preparing(o) /\ o.copy \in Records
  BY DEF TypeInv, CommitCandidate, At, RunOK, Resting, Preparing
<1>2. RunOK(m, leases) /\ m.pc = "mark" /\ Same(m, o)
  BY <1>1, NextPcOK DEF WorkerPcs, Same
<1>3. RunOK(d, leases) /\ d.pc = "complete" /\ Same(d, o)
  BY <1>1, NextPcOK DEF WorkerPcs, Same
<1>4. c \in Records
  BY <1>1, CandidateType, Zenon
<1>5. \/ To(w, m) /\ UNCHANGED tables
      \/ To(w, d) /\ CanReplace(o.artifact, c, "queued") /\ Replace(o.artifact, c)
  BY DEF CommitCandidate
<1>6. c.state = "requires_confirmation" /\ c.expectedRevision = o.copy.expectedRevision
  BY <1>1 DEF Records
<1> HIDE DEF m, d, c
<1>7. CanReplace(o.artifact, c, "queued") =>
        /\ rec[o.artifact] # Null /\ rec[o.artifact].state = "queued" /\ Authorized
        /\ o.copy.expectedRevision = rentalCase.revision
  BY <1>6 DEF CanReplace
<1>8. CASE To(w, m) /\ UNCHANGED tables
  BY <1>2, <1>8
<1>9. CASE To(w, d) /\ CanReplace(o.artifact, c, "queued") /\ Replace(o.artifact, c)
  BY <1>3, <1>4, <1>7, <1>9 DEF c
<1> QED BY <1>5, <1>8, <1>9

LEMMA VideoMove ==
  ASSUME TypeInv, NEW w \in Workers, CommitVideo(w)
  PROVE  \E r : /\ To(w, r) /\ RunOK(r, leases) /\ Same(r, run[w])
                /\ \/ r.pc = "mark" /\ UNCHANGED tables
                   \/ /\ r.pc = "complete" /\ CanFinalize(run[w].artifact, Null)
                      /\ Publish(run[w].artifact, [derivative |-> Frames, text |-> Null])
<1> DEFINE o == run[w]
           m == [o EXCEPT !.pc = "mark"]
           d == [o EXCEPT !.pc = "complete"]
<1>1. RunOK(o, leases) /\ o.pc = "commit" /\ ~Resting(o) /\ Preparing(o)
  BY DEF TypeInv, CommitVideo, At, RunOK, Resting, Preparing
<1>2. RunOK(m, leases) /\ m.pc = "mark" /\ Same(m, o)
  BY <1>1, NextPcOK DEF WorkerPcs, Same
<1>3. RunOK(d, leases) /\ d.pc = "complete" /\ Same(d, o)
  BY <1>1, NextPcOK DEF WorkerPcs, Same
<1>4. \/ To(w, m) /\ UNCHANGED tables
      \/ /\ To(w, d) /\ CanFinalize(o.artifact, Null)
         /\ Publish(o.artifact, [derivative |-> Frames, text |-> Null])
  BY DEF CommitVideo
<1> HIDE DEF m, d
<1> QED BY <1>2, <1>3, <1>4

LEMMA MarkMove ==
  ASSUME TypeInv, NEW w \in Workers, MarkFailed(w)
  PROVE  \E r : /\ To(w, r) /\ RunOK(r, leases) /\ Same(r, run[w])
                /\ \/ r.pc = "fail" /\ UNCHANGED tables
                   \/ /\ r.pc = "wipe" /\ rec[run[w].artifact] # Null
                      /\ rec[run[w].artifact].state = "queued" /\ Authorized
                      /\ \E c \in Records : /\ c = [run[w].copy EXCEPT !.state = "failed"]
                                            /\ Replace(run[w].artifact, c)
<1> DEFINE o == run[w]
           d == [o EXCEPT !.pc = "wipe"]
           c == [o.copy EXCEPT !.state = "failed"]
<1>1. RunOK(o, leases) /\ o.pc = "mark" /\ ~Resting(o) /\ Preparing(o) /\ o.copy \in Records
  BY DEF TypeInv, MarkFailed, At, RunOK, Resting, Preparing
<1>2. RunOK(d, leases) /\ d.pc = "wipe" /\ Same(d, o)
  BY <1>1, NextPcOK DEF WorkerPcs, Same
<1>3. RunOK(Failing(o, FALSE), leases) /\ Failing(o, FALSE).pc = "fail" /\ Same(Failing(o, FALSE), o)
  BY <1>1, FailingOK DEF Same
<1>4. c \in Records
  BY <1>1, CandidateType, Zenon
<1>5. \/ To(w, Failing(o, FALSE)) /\ UNCHANGED tables
      \/ To(w, d) /\ CanReplace(o.artifact, c, "queued") /\ Replace(o.artifact, c)
  BY DEF MarkFailed
<1> HIDE DEF d, c
<1>6. CanReplace(o.artifact, c, "queued") =>
        rec[o.artifact] # Null /\ rec[o.artifact].state = "queued" /\ Authorized
  BY DEF CanReplace
<1>7. CASE To(w, Failing(o, FALSE)) /\ UNCHANGED tables
  BY <1>3, <1>7
<1>8. CASE To(w, d) /\ CanReplace(o.artifact, c, "queued") /\ Replace(o.artifact, c)
  BY <1>2, <1>4, <1>6, <1>8 DEF c
<1> QED BY <1>5, <1>7, <1>8

LEMMA WipeMove ==
  ASSUME TypeInv, NEW w \in Workers, WipeFailed(w)
  PROVE  \E r : /\ To(w, r) /\ RunOK(r, leases) /\ Same(r, run[w]) /\ r.pc = "fail"
                /\ RemoveFiles(run[w].artifact)
<1>1. RunOK(run[w], leases) /\ ~Resting(run[w])
  BY DEF TypeInv, WipeFailed, At, Resting
<1>2. /\ RunOK(Failing(run[w], FALSE), leases) /\ Failing(run[w], FALSE).pc = "fail"
      /\ Same(Failing(run[w], FALSE), run[w])
  BY <1>1, FailingOK DEF Same
<1> QED BY <1>2 DEF WipeFailed

LEMMA CompleteMove ==
  ASSUME TypeInv, NEW w \in Workers, Complete(w)
  PROVE  \/ Holds(w) /\ Settle(run[w].job, "succeeded") /\ To(w, Off)
         \/ \E r : /\ To(w, r) /\ RunOK(r, leases) /\ Same(r, run[w]) /\ r.pc = "fail"
                   /\ UNCHANGED job
<1>1. RunOK(run[w], leases) /\ ~Resting(run[w])
  BY DEF TypeInv, Complete, At, Resting
<1>2. /\ RunOK(Failing(run[w], TRUE), leases) /\ Failing(run[w], TRUE).pc = "fail"
      /\ Same(Failing(run[w], TRUE), run[w])
  BY <1>1, FailingOK DEF Same
<1> QED BY <1>2 DEF Complete

\* A granted lease is counted as a further attempt of its job.
LEMMA GrantIsCounted ==
  ASSUME TypeInv, NEW j \in Jobs, job[j].state # "gone", job[j].attempt < MaxAttempts
  PROVE  \E f \in [1..(leases + 1) -> Jobs \X (1..MaxAttempts)] :
           /\ \A x, y \in 1..(leases + 1) : f[x] = f[y] => x = y
           /\ \A x \in 1..leases : job[f[x][1]].state = "gone" \/ f[x][2] <= job[f[x][1]].attempt
           /\ f[leases + 1] = <<j, job[j].attempt + 1>>
<1>1. PICK f \in [1..leases -> Jobs \X (1..MaxAttempts)] :
        /\ \A x, y \in 1..leases : f[x] = f[y] => x = y
        /\ \A x \in 1..leases : job[f[x][1]].state = "gone" \/ f[x][2] <= job[f[x][1]].attempt
  BY DEF TypeInv, QueueTypes, LeasesCounted
<1>2. leases \in Nat /\ job[j].attempt \in Nat /\ job[j].attempt + 1 \in 1..MaxAttempts
  BY ProcessingAssumption DEF TypeInv, QueueTypes, JobRecords
<1> DEFINE t == <<j, job[j].attempt + 1>>
           g == [x \in 1..(leases + 1) |-> IF x = leases + 1 THEN t ELSE f[x]]
<1>3. t \in Jobs \X (1..MaxAttempts) /\ t[1] = j /\ t[2] = job[j].attempt + 1
  BY <1>2
<1>4. \A x \in 1..leases : f[x] # t
  <2>1. ASSUME NEW x \in 1..leases, f[x] = t PROVE FALSE
    <3>1. job[t[1]].state = "gone" \/ t[2] <= job[t[1]].attempt
      BY <1>1, <2>1
    <3> HIDE DEF t
    <3> QED BY <1>2, <1>3, <3>1
  <2> QED BY <2>1
<1> HIDE DEF t
<1>5. \A x \in 1..(leases + 1) : x = leases + 1 \/ x \in 1..leases
  BY <1>2
<1>6. leases + 1 \in 1..(leases + 1) /\ leases + 1 \notin 1..leases
      /\ 1..leases \subseteq 1..(leases + 1)
  BY <1>2
<1>7. /\ g \in [1..(leases + 1) -> Jobs \X (1..MaxAttempts)]
      /\ g[leases + 1] = t /\ \A x \in 1..leases : g[x] = f[x]
  BY <1>3, <1>5, <1>6
<1> HIDE DEF g
<1>8. \A x, y \in 1..(leases + 1) : g[x] = g[y] => x = y
  BY <1>1, <1>4, <1>5, <1>7
<1> QED BY <1>1, <1>7, <1>8 DEF t

LEMMA ClaimMove ==
  ASSUME TypeInv, NEW w \in Workers, Claim(w)
  PROVE  \E j \in Jobs : \E r :
           /\ job[j].state = "queued" /\ (\A i \in Jobs : job[i].state # "running")
           /\ leases' = leases + 1
           /\ job' \in [Jobs -> JobRecords]
           /\ job'[j].state = "running" /\ job'[j].attempt = job[j].attempt + 1
           /\ job'[j].lease = leases + 1 /\ job'[j].artifact = job[j].artifact
           /\ \A i \in Jobs : i # j => job'[i] = job[i]
           /\ job[j].attempt < MaxAttempts /\ job[j].artifact \in Artifacts
           /\ To(w, r) /\ RunOK(r, leases + 1)
           /\ r.pc = "gate" /\ r.stage = 0 /\ r.job = j /\ r.lease = leases + 1
           /\ r.artifact = job[j].artifact /\ r.copy = Null
<1>1. PICK j \in Jobs :
        /\ job[j].state = "queued" /\ (\A i \in Jobs : job[i].state # "running")
        /\ leases' = leases + 1
        /\ job' = [job EXCEPT ![j].state = "running", ![j].attempt = @ + 1, ![j].lease = leases']
        /\ To(w, [Off EXCEPT !.pc = "gate", !.job = j, !.lease = leases', !.artifact = job[j].artifact])
  BY Zenon DEF Claim
<1> DEFINE r == [Off EXCEPT !.pc = "gate", !.job = j, !.lease = leases + 1,
                            !.artifact = job[j].artifact]
           n == [artifact |-> job[j].artifact, attempt |-> job[j].attempt + 1, lease |-> leases + 1,
                 state |-> "running"]
<1>2. /\ job[j] \in JobRecords /\ JobOK(j) /\ leases \in Nat /\ drawn \subseteq Artifacts
      /\ job \in [Jobs -> JobRecords]
  BY <1>1 DEF TypeInv, QueueTypes, TableTypes
<1>3. /\ job[j].artifact \in Artifacts /\ job[j].attempt < MaxAttempts
      /\ job[j].attempt + 1 \in 0..MaxAttempts
  BY <1>1, <1>2, ProcessingAssumption DEF JobOK, JobRecords
<1>4. leases + 1 \in Contents \ {Frames}
  <2>1. \E f \in [1..(leases + 1) -> Jobs \X (1..MaxAttempts)] :
          \A x, y \in 1..(leases + 1) : f[x] = f[y] => x = y
    BY <1>1, <1>3, GrantIsCounted
  <2>2. 0..(leases + 1) \subseteq Contents
    BY <1>2, <2>1, ContentsSuffice
  <2> QED BY <1>2, <2>2 DEF Frames
<1>5. /\ r \in RunState /\ r.pc = "gate" /\ r.stage = 0 /\ r.job = j /\ r.lease = leases + 1
      /\ r.artifact = job[j].artifact /\ r.copy = Null
  <2> DEFINE s == [Off EXCEPT !.pc = "gate", !.job = j]
  <2>1. Off \in RunState /\ Off.stage = 0 /\ Off.copy = Null
    BY DEF Off, RunState, WorkerPcs
  <2>2. s \in RunState /\ s.pc = "gate" /\ s.stage = 0 /\ s.job = j /\ s.copy = Null
    BY <2>1 DEF RunState, WorkerPcs
  <2>3. r = [s EXCEPT !.lease = leases + 1, !.artifact = job[j].artifact]
    BY <2>1 DEF RunState
  <2> HIDE DEF s, r
  <2>4. leases + 1 \in Nat
    BY <1>2
  <2> QED BY <1>3, <2>2, <2>3, <2>4 DEF RunState
<1>6. RunOK(r, leases + 1)
  <2> HIDE DEF r
  <2> QED BY <1>2, <1>3, <1>5 DEF RunOK, Resting, Preparing
<1>7. n \in JobRecords /\ job' = [job EXCEPT ![j] = n]
  <2>1. n \in JobRecords
    BY <1>3, <1>4 DEF JobRecords
  <2>2. [job[j] EXCEPT !.state = "running", !.attempt = job[j].attempt + 1, !.lease = leases'] = n
    BY <1>1, <1>2 DEF JobRecords
  <2>3. job' = [job EXCEPT ![j] = [job[j] EXCEPT !.state = "running", !.attempt = job[j].attempt + 1,
                                                 !.lease = leases']]
    BY <1>1, <1>2
  <2> QED BY <2>1, <2>2, <2>3
<1>8. /\ job' \in [Jobs -> JobRecords]
      /\ job'[j].state = "running" /\ job'[j].attempt = job[j].attempt + 1
      /\ job'[j].lease = leases + 1 /\ job'[j].artifact = job[j].artifact
      /\ \A i \in Jobs : i # j => job'[i] = job[i]
  <2>1. n.state = "running" /\ n.attempt = job[j].attempt + 1
        /\ n.lease = leases + 1 /\ n.artifact = job[j].artifact
    OBVIOUS
  <2> HIDE DEF n
  <2> QED BY <1>2, <1>7, <2>1
<1>9. To(w, r)
  BY <1>1
<1> HIDE DEF r
<1> QED BY <1>1, <1>3, <1>5, <1>6, <1>8, <1>9

-----------------------------------------------------------------------------
(* Types: the queue. *)

\* No lease is granted, and a job that is not forgotten keeps its attempts.
LEMMA LeasesStayCounted ==
  ASSUME TypeInv, leases' = leases,
         \A i \in Jobs : \/ job'[i].state = "gone"
                         \/ job[i].state # "gone" /\ job'[i].attempt = job[i].attempt
  PROVE  LeasesCounted'
<1>1. PICK f \in [1..leases -> Jobs \X (1..MaxAttempts)] :
        /\ \A x, y \in 1..leases : f[x] = f[y] => x = y
        /\ \A x \in 1..leases : job[f[x][1]].state = "gone" \/ f[x][2] <= job[f[x][1]].attempt
  BY DEF TypeInv, QueueTypes, LeasesCounted
<1>2. \A x \in 1..leases : f[x][1] \in Jobs
  <2>1. ASSUME NEW x \in 1..leases PROVE f[x][1] \in Jobs
    <3>1. f[x] \in Jobs \X (1..MaxAttempts)
      OBVIOUS
    <3> QED BY <3>1
  <2> QED BY <2>1
<1>3. \A x \in 1..leases : job'[f[x][1]].state = "gone" \/ f[x][2] <= job'[f[x][1]].attempt
  BY <1>1, <1>2
<1> QED BY <1>1, <1>3, ZenonT(60) DEF LeasesCounted

\* A job gets its record n.
LEMMA JobSet ==
  ASSUME TypeInv, NEW j \in Jobs, NEW n \in JobRecords, job' = [job EXCEPT ![j] = n],
         leases' = leases, drawn' = drawn, n.attempt = job[j].attempt,
         n.state \in {"queued", "succeeded", "failed", "cancelled"}, n.lease = Null,
         n.state = "queued" => n.attempt < MaxAttempts,
         n.artifact \in drawn, job[j].state # "gone"
  PROVE  /\ QueueTypes' /\ job'[j] = n /\ \A i \in Jobs : i # j => job'[i] = job[i]
<1>1. job \in [Jobs -> JobRecords] /\ leases \in Nat /\ (\A i \in Jobs : JobOK(i)) /\ Null \notin drawn
  BY ProcessingAssumption DEF TypeInv, QueueTypes, TableTypes
<1>2. job' \in [Jobs -> JobRecords] /\ job'[j] = n /\ \A i \in Jobs : i # j => job'[i] = job[i]
  BY <1>1
<1>3. LeasesCounted'
  BY <1>2, LeasesStayCounted
<1>4. \A i \in Jobs : JobOK(i)'
  <2>1. JobOK(j)'
    BY <1>1, <1>2 DEF JobOK
  <2>2. \A i \in Jobs : i # j => JobOK(i)'
    BY <1>1, <1>2 DEF JobOK
  <2> QED BY <2>1, <2>2
<1> QED BY <1>1, <1>2, <1>3, <1>4 DEF QueueTypes

\* A job that waits or runs is settled or waits (again).
LEMMA SettleOK ==
  ASSUME TypeInv, NEW j \in Jobs, NEW state \in {"queued", "succeeded", "failed", "cancelled"},
         Settle(j, state), leases' = leases, drawn' = drawn,
         job[j].state \in {"queued", "running"},
         state = "queued" => job[j].attempt < MaxAttempts
  PROVE  /\ QueueTypes' /\ \A i \in Jobs : i # j => job'[i] = job[i]
         /\ job'[j].state = state /\ job'[j].lease = Null
         /\ job'[j].attempt = job[j].attempt /\ job'[j].artifact = job[j].artifact
<1>1. job \in [Jobs -> JobRecords] /\ JobOK(j)
  BY DEF TypeInv, QueueTypes
<1> DEFINE n == [job[j] EXCEPT !.state = state, !.lease = Null]
<1>2. n.state = state /\ n.lease = Null /\ n.attempt = job[j].attempt /\ n.artifact = job[j].artifact
  BY <1>1 DEF JobRecords
<1>3. n \in JobRecords
  <2>1. Null \in Contents \ {Frames}
    BY ProcessingAssumption DEF Contents, Frames
  <2> QED BY <1>1, <2>1 DEF JobRecords
<1>4. job' = [job EXCEPT ![j] = n]
  BY <1>1 DEF Settle
<1>5. job[j].artifact \in drawn
  BY <1>1 DEF JobOK
<1> HIDE DEF n
<1> QED BY <1>2, <1>3, <1>4, <1>5, JobSet

LEMMA DropOK ==
  ASSUME TypeInv, NEW gone, Drop(gone), leases' = leases, drawn' = drawn
  PROVE  /\ QueueTypes'
         /\ \A i \in Jobs : IF i \in gone
              THEN job'[i].state = "gone" /\ job'[i].artifact = Null /\ job'[i].lease = Null
                   /\ job'[i].attempt = 0
              ELSE job'[i] = job[i]
<1>1. /\ job \in [Jobs -> JobRecords] /\ leases \in Nat /\ \A i \in Jobs : JobOK(i)
  BY DEF TypeInv, QueueTypes
<1> DEFINE n == [NewJob EXCEPT !.state = "gone"]
<1>2. n \in JobRecords /\ n.state = "gone" /\ n.artifact = Null /\ n.lease = Null /\ n.attempt = 0
  <2>1. NewJob \in JobRecords /\ NewJob.artifact = Null /\ NewJob.lease = Null /\ NewJob.attempt = 0
    BY ProcessingAssumption DEF NewJob, JobRecords, Contents, Frames
  <2> QED BY <2>1 DEF JobRecords
<1>3. job' = [i \in Jobs |-> IF i \in gone THEN n ELSE job[i]]
  BY DEF Drop
<1> HIDE DEF n
<1>4. job' \in [Jobs -> JobRecords] /\ \A i \in Jobs : job'[i] = IF i \in gone THEN n ELSE job[i]
  BY <1>1, <1>2, <1>3
<1>5. LeasesCounted'
  BY <1>2, <1>4, LeasesStayCounted
<1>6. \A i \in Jobs : JobOK(i)'
  BY <1>1, <1>2, <1>4 DEF JobOK
<1> QED BY <1>1, <1>2, <1>4, <1>5, <1>6 DEF QueueTypes

LEMMA QueueKept ==
  ASSUME TypeInv, UNCHANGED <<queue, drawn>>
  PROVE  QueueTypes'
BY DEF TypeInv, QueueTypes, JobOK, LeasesCounted, queue

-----------------------------------------------------------------------------
(* Types: the tables. *)

LEMMA TablesKept ==
  ASSUME TypeInv, UNCHANGED <<tables, files, history>>
  PROVE  TableTypes'
BY DEF TypeInv, TableTypes, tables, history

LEMMA ReplaceOK ==
  ASSUME TypeInv, NEW a \in drawn, NEW c \in Records, Replace(a, c), UNCHANGED <<files, drawn>>,
         lostCreate' \in BOOLEAN
  PROVE  TableTypes' /\ rec'[a] = c /\ \A b \in Artifacts : b # a => rec'[b] = rec[b]
<1>1. a \in Artifacts /\ rec \in [Artifacts -> Records \cup {Null}]
  BY DEF TypeInv, TableTypes
<1>2. /\ rec' \in [Artifacts -> Records \cup {Null}] /\ rec'[a] = c
      /\ \A b \in Artifacts : b # a => rec'[b] = rec[b]
      /\ UNCHANGED <<rentalCase, session, row, image>>
  BY <1>1 DEF Replace
<1> QED BY <1>2 DEF TypeInv, TableTypes

LEMMA PublishOK ==
  ASSUME TypeInv, NEW a \in Artifacts, NEW d \in Directories, Publish(a, d), rec[a] # Null,
         UNCHANGED <<files, history>>
  PROVE  /\ TableTypes' /\ row'[a] = d /\ \A b \in Artifacts : b # a => row'[b] = row[b]
         /\ rec'[a] \in Records /\ rec'[a].state = "available" /\ rec'[a].upload = rec[a].upload
         /\ rec'[a].derivative = rec[a].derivative /\ rec'[a].jobId = rec[a].jobId
         /\ rec'[a].expectedRevision = rec[a].expectedRevision
         /\ \A b \in Artifacts : b # a => rec'[b] = rec[b]
         /\ rentalCase'.status = rentalCase.status
         /\ rentalCase'.revision = rentalCase.revision + 1
<1>1. /\ rec[a] \in Records /\ rec \in [Artifacts -> Records \cup {Null}]
      /\ row \in [Artifacts -> Directories \cup {Null}]
      /\ rentalCase \in [status : {"open", "deleting", "gone"}, revision : Nat]
  BY DEF TypeInv, TableTypes
<1> DEFINE c == [rec[a] EXCEPT !.state = "available"]
<1>2. /\ c \in Records /\ c.state = "available" /\ c.upload = rec[a].upload
      /\ c.derivative = rec[a].derivative /\ c.jobId = rec[a].jobId
      /\ c.expectedRevision = rec[a].expectedRevision
  BY <1>1 DEF Records, RecordStates
<1>3. rec' = [rec EXCEPT ![a] = c]
  BY <1>1 DEF Publish
<1> HIDE DEF c
<1>4. /\ rec' \in [Artifacts -> Records \cup {Null}] /\ rec'[a] = c
      /\ \A b \in Artifacts : b # a => rec'[b] = rec[b]
  BY <1>1, <1>2, <1>3
<1>5. /\ row' \in [Artifacts -> Directories \cup {Null}] /\ row'[a] = d
      /\ \A b \in Artifacts : b # a => row'[b] = row[b]
  BY <1>1 DEF Publish
<1>6. /\ rentalCase' \in [status : {"open", "deleting", "gone"}, revision : Nat]
      /\ rentalCase'.status = rentalCase.status
      /\ rentalCase'.revision = rentalCase.revision + 1
  BY <1>1 DEF Publish
<1>7. TableTypes'
  <2>1. session' = session /\ image' = image /\ files' = files /\ drawn' = drawn
        /\ lostCreate' = lostCreate
    BY DEF Publish, history
  <2>2. \A b \in Artifacts : b \notin drawn' => files'[b] = Null /\ rec'[b] = Null
    BY <1>4, <2>1 DEF TypeInv, TableTypes
  <2> QED BY <1>4, <1>5, <1>6, <2>1, <2>2 DEF TypeInv, TableTypes
<1> QED BY <1>2, <1>4, <1>5, <1>6, <1>7

\* The directory of an artifact in use is written or removed.
LEMMA FilesOK ==
  ASSUME TypeInv, NEW a \in Artifacts, NEW d \in Directories \cup {Null}, a \in drawn \/ d = Null,
         files' = [files EXCEPT ![a] = d], UNCHANGED <<tables, history>>
  PROVE  TableTypes' /\ files'[a] = d /\ \A b \in Artifacts : b # a => files'[b] = files[b]
<1>1. a \in Artifacts /\ files \in [Artifacts -> Directories \cup {Null}]
  BY DEF TypeInv, TableTypes
<1>2. /\ files' \in [Artifacts -> Directories \cup {Null}] /\ files'[a] = d
      /\ \A b \in Artifacts : b # a => files'[b] = files[b]
  BY <1>1
<1> QED BY <1>1, <1>2 DEF TypeInv, TableTypes, tables, history

-----------------------------------------------------------------------------
(* Types: every step of a worker. *)

\* Tables, files and queue being typed, so is the rest after a step of w to r.
LEMMA WorkerTypes ==
  ASSUME TypeInv, NEW w \in Workers, NEW r, To(w, r), run[w].pc # "off",
         leases' \in Nat, leases <= leases', RunOK(r, leases'),
         TableTypes', QueueTypes', UNCHANGED <<drawn, call>>
  PROVE  TypeInv'
<1>1. /\ run' \in [Workers -> RunState] /\ \A v \in Workers : RunOK(run'[v], leases')
      /\ crashes' = crashes /\ stalls' = stalls /\ faults' \in {faults, faults + 1}
  BY WorkerMoves
<1>2. MishapTypes'
  BY <1>1 DEF TypeInv, MishapTypes
<1>3. call' \in [Clients -> CallState] /\ \A p \in Clients : CallOK(call'[p], drawn')
  BY DEF TypeInv
<1> QED BY <1>1, <1>2, <1>3 DEF TypeInv

LEMMA ClaimTypes ==
  ASSUME TypeInv, NEW w \in Workers, Claim(w)
  PROVE  TypeInv'
<1>1. UNCHANGED <<tables, files, history, call>> /\ run[w].pc # "off" /\ drawn' = drawn
  BY DEF Claim, At, history
<1>2. PICK j, r :
           /\ j \in Jobs
           /\ job[j].state = "queued" /\ (\A i \in Jobs : job[i].state # "running")
           /\ leases' = leases + 1
           /\ job' \in [Jobs -> JobRecords]
           /\ job'[j].state = "running" /\ job'[j].attempt = job[j].attempt + 1
           /\ job'[j].lease = leases + 1 /\ job'[j].artifact = job[j].artifact
           /\ \A i \in Jobs : i # j => job'[i] = job[i]
           /\ job[j].attempt < MaxAttempts /\ job[j].artifact \in Artifacts
           /\ To(w, r) /\ RunOK(r, leases + 1)
  <2>1. \E j \in Jobs : \E r :
           /\ job[j].state = "queued" /\ (\A i \in Jobs : job[i].state # "running")
           /\ leases' = leases + 1
           /\ job' \in [Jobs -> JobRecords]
           /\ job'[j].state = "running" /\ job'[j].attempt = job[j].attempt + 1
           /\ job'[j].lease = leases + 1 /\ job'[j].artifact = job[j].artifact
           /\ \A i \in Jobs : i # j => job'[i] = job[i]
           /\ job[j].attempt < MaxAttempts /\ job[j].artifact \in Artifacts
           /\ To(w, r) /\ RunOK(r, leases + 1)
           /\ r.pc = "gate" /\ r.stage = 0 /\ r.job = j /\ r.lease = leases + 1
           /\ r.artifact = job[j].artifact /\ r.copy = Null
    BY ClaimMove
  <2> QED BY <2>1
<1>3. leases \in Nat /\ (\A i \in Jobs : JobOK(i)) /\ job \in [Jobs -> JobRecords]
  BY DEF TypeInv, QueueTypes
<1>4. LeasesCounted'
  <2>1. PICK f \in [1..(leases + 1) -> Jobs \X (1..MaxAttempts)] :
           /\ \A x, y \in 1..(leases + 1) : f[x] = f[y] => x = y
           /\ \A x \in 1..leases : job[f[x][1]].state = "gone" \/ f[x][2] <= job[f[x][1]].attempt
           /\ f[leases + 1] = <<j, job[j].attempt + 1>>
    BY <1>2, GrantIsCounted
  <2>2. \A x \in 1..(leases + 1) : f[x][1] \in Jobs /\ f[x][2] \in Nat
    <3>1. ASSUME NEW x \in 1..(leases + 1) PROVE f[x][1] \in Jobs /\ f[x][2] \in Nat
      <4>1. f[x] \in Jobs \X (1..MaxAttempts)
        OBVIOUS
      <4> QED BY <4>1
    <3> QED BY <3>1
  <2>3. job[j].attempt \in Nat
    BY <1>2, <1>3, ProcessingAssumption DEF JobRecords
  <2>4. \A x \in 1..leases : job'[f[x][1]].state = "gone" \/ f[x][2] <= job'[f[x][1]].attempt
    <3>1. ASSUME NEW x \in 1..leases
          PROVE  job'[f[x][1]].state = "gone" \/ f[x][2] <= job'[f[x][1]].attempt
      <4>1. f[x][1] \in Jobs /\ f[x][2] \in Nat
        BY <2>2, <1>3
      <4>2. CASE f[x][1] = j
        BY <1>2, <2>1, <2>3, <4>1, <4>2
      <4>3. CASE f[x][1] # j
        BY <1>2, <2>1, <4>1, <4>3
      <4> QED BY <4>2, <4>3
    <3> QED BY <3>1
  <2>5. f[leases + 1][1] = j /\ f[leases + 1][2] = job'[j].attempt
    BY <1>2, <2>1
  <2>6. \A x \in 1..leases' : job'[f[x][1]].state = "gone" \/ f[x][2] <= job'[f[x][1]].attempt
    BY <1>2, <1>3, <2>3, <2>4, <2>5
  <2> QED BY <1>2, <2>1, <2>6 DEF LeasesCounted
<1>5. \A i \in Jobs : JobOK(i)'
  <2>1. JobOK(j)'
    BY <1>1, <1>2, <1>3, ProcessingAssumption DEF JobOK, JobRecords
  <2>2. \A i \in Jobs : i # j => JobOK(i)'
    BY <1>1, <1>2, <1>3 DEF JobOK
  <2> QED BY <2>1, <2>2
<1>6. QueueTypes'
  BY <1>2, <1>3, <1>4, <1>5 DEF QueueTypes
<1>7. TableTypes'
  BY <1>1, TablesKept
<1> QED BY <1>1, <1>2, <1>3, <1>6, <1>7, WorkerTypes

LEMMA SettlingTypes ==
  ASSUME TypeInv, NEW w \in Workers, Complete(w) \/ Fail(w)
  PROVE  TypeInv'
<1>1. UNCHANGED <<tables, files, history, call>> /\ run[w].pc # "off" /\ drawn' = drawn /\ leases' = leases
  BY DEF Complete, Fail, At, history
<1>2. leases \in Nat /\ TableTypes' /\ RunOK(run[w], leases)
  BY <1>1, TablesKept DEF TypeInv, QueueTypes
<1>3. CASE Complete(w)
  <2>1. CASE Holds(w) /\ Settle(run[w].job, "succeeded") /\ To(w, Off)
    <3>1. run[w].job \in Jobs /\ job[run[w].job].state = "running"
      BY <1>2, <1>3, <2>1 DEF RunOK, Complete, At, Resting, Holds
    <3>2. QueueTypes'
      BY <1>1, <2>1, <3>1, SettleOK
    <3> QED BY <1>1, <1>2, <2>1, <3>2, OffOK, WorkerTypes
  <2>2. CASE \E r : To(w, r) /\ RunOK(r, leases) /\ UNCHANGED job
    <3>1. QueueTypes'
      BY <1>1, <2>2, QueueKept DEF queue
    <3> QED BY <1>1, <1>2, <2>2, <3>1, WorkerTypes
  <2> QED BY <1>3, <2>1, <2>2, CompleteMove
<1>4. CASE Fail(w)
  <2>1. QueueTypes'
    <3>1. CASE Holds(w)
      <4>1. run[w].job \in Jobs /\ job[run[w].job].state = "running"
        BY <1>2, <1>4, <3>1 DEF RunOK, Fail, At, Resting, Holds
      <4>2. PICK s \in {"queued", "failed"} :
              Settle(run[w].job, s) /\ (s = "queued" => job[run[w].job].attempt < MaxAttempts)
        BY <1>4, <3>1 DEF Fail
      <4> QED BY <1>1, <4>1, <4>2, SettleOK
    <3>2. CASE ~Holds(w)
      BY <1>1, <1>4, <3>2, QueueKept DEF Fail, queue
    <3> QED BY <3>1, <3>2
  <2>2. To(w, Off)
    BY <1>4 DEF Fail
  <2> QED BY <1>1, <1>2, <2>1, <2>2, OffOK, WorkerTypes
<1> QED BY <1>3, <1>4

LEMMA FileStepTypes ==
  ASSUME TypeInv, NEW w \in Workers, WriteDerivative(w) \/ WipeFailed(w)
  PROVE  TypeInv'
<1>1. UNCHANGED <<tables, history, queue, call>> /\ run[w].pc # "off" /\ drawn' = drawn /\ leases' = leases
  BY DEF WriteDerivative, WipeFailed, At, history, queue
<1>2. leases \in Nat /\ QueueTypes' /\ RunOK(run[w], leases) /\ run[w].artifact \in Artifacts
  BY <1>1, QueueKept DEF TypeInv, QueueTypes, RunOK, Resting, WriteDerivative, WipeFailed, At
<1> DEFINE a == run[w].artifact
<1>3. files \in [Artifacts -> Directories \cup {Null}] /\ (files[a] # Null => a \in drawn)
  BY <1>2 DEF TypeInv, TableTypes
<1>4. CASE WriteDerivative(w)
  <2>1. PICK r : /\ To(w, r) /\ RunOK(r, leases)
                 /\ \/ UNCHANGED files
                    \/ files[a] # Null /\ files' = [files EXCEPT ![a].derivative = Prepared(w)]
    BY <1>4, WriteMove
  <2>2. TableTypes'
    <3>1. CASE UNCHANGED files
      BY <1>1, <3>1, TablesKept
    <3>2. CASE files[a] # Null /\ files' = [files EXCEPT ![a].derivative = Prepared(w)]
      <4> DEFINE d == [files[a] EXCEPT !.derivative = Prepared(w)]
      <4>1. Prepared(w) \in Contents
        BY <1>4, CandidateType, Zenon DEF WriteDerivative, At, Preparing
      <4>2. files[a] \in Directories
        BY <1>2, <1>3, <3>2
      <4>3. d \in Directories
        BY <4>1, <4>2 DEF Directories
      <4>4. files' = [files EXCEPT ![a] = d]
        BY <1>2, <1>3, <3>2
      <4> HIDE DEF d
      <4> QED BY <1>1, <1>2, <1>3, <3>2, <4>3, <4>4, FilesOK, Zenon
    <3> QED BY <2>1, <3>1, <3>2
  <2> QED BY <1>1, <1>2, <2>1, <2>2, WorkerTypes
<1>5. CASE WipeFailed(w)
  <2>1. PICK r : To(w, r) /\ RunOK(r, leases) /\ RemoveFiles(a)
    BY <1>5, WipeMove
  <2>2. TableTypes'
    BY <1>1, <1>2, <2>1, FilesOK DEF RemoveFiles
  <2> QED BY <1>1, <1>2, <2>1, <2>2, WorkerTypes
<1> QED BY <1>4, <1>5

LEMMA CommitTypes ==
  ASSUME TypeInv, NEW w \in Workers, CommitCandidate(w) \/ CommitVideo(w) \/ MarkFailed(w)
  PROVE  TypeInv'
<1>1. UNCHANGED <<files, history, queue, call>> /\ run[w].pc # "off" /\ drawn' = drawn /\ leases' = leases
      /\ lostCreate' = lostCreate
  BY DEF CommitCandidate, CommitVideo, MarkFailed, At, history, queue
<1>2. leases \in Nat /\ QueueTypes' /\ RunOK(run[w], leases) /\ run[w].artifact \in Artifacts
  BY <1>1, QueueKept, Zenon
  DEF TypeInv, QueueTypes, RunOK, Resting, CommitCandidate, CommitVideo, MarkFailed, At
<1>3. lostCreate \in BOOLEAN /\ (rec[run[w].artifact] # Null => run[w].artifact \in drawn)
  BY <1>2 DEF TypeInv, TableTypes
<1>4. PICK r : /\ To(w, r) /\ RunOK(r, leases)
               /\ \/ UNCHANGED tables
                  \/ /\ rec[run[w].artifact] # Null
                     /\ \E c \in Records : Replace(run[w].artifact, c)
                  \/ /\ CanFinalize(run[w].artifact, Null)
                     /\ Publish(run[w].artifact, [derivative |-> Frames, text |-> Null])
  <2>1. CASE CommitCandidate(w)
    BY <2>1, CandidateMove, Zenon
  <2>2. CASE CommitVideo(w)
    BY <2>2, VideoMove
  <2>3. CASE MarkFailed(w)
    BY <2>3, MarkMove
  <2> QED BY <2>1, <2>2, <2>3
<1>5. TableTypes'
  <2>1. CASE UNCHANGED tables
    BY <1>1, <2>1, TablesKept
  <2>2. CASE rec[run[w].artifact] # Null /\ \E c \in Records : Replace(run[w].artifact, c)
    BY <1>1, <1>3, <2>2, ReplaceOK
  <2>3. CASE /\ CanFinalize(run[w].artifact, Null)
             /\ Publish(run[w].artifact, [derivative |-> Frames, text |-> Null])
    <3>1. [derivative |-> Frames, text |-> Null] \in Directories
      BY ProcessingAssumption, LeasesAreContents DEF Directories, Contents, Frames, TypeInv, QueueTypes
    <3>2. rec[run[w].artifact] # Null
      BY <2>3 DEF CanFinalize
    <3> QED BY <1>1, <1>2, <2>3, <3>1, <3>2, PublishOK
  <2> QED BY <1>4, <2>1, <2>2, <2>3
<1> QED BY <1>1, <1>2, <1>4, <1>5, WorkerTypes

\* The steps of a worker keep the types.
LEMMA WorkTypes ==
  ASSUME TypeInv, NEW w \in Workers, Work(w)
  PROVE  TypeInv'
<1>1. CASE ClaimNothing(w)
  BY <1>1, OffOK, OnlyWorker DEF ClaimNothing, At
<1>2. CASE Gate(w)
  <2>1. UNCHANGED <<tables, files, history, queue, call>> /\ run[w].pc # "off"
    BY <1>2 DEF Gate, At
  <2> QED BY <1>2, <2>1, GateMove, OnlyWorker
<1>3. CASE FindWork(w)
  <2>1. UNCHANGED <<tables, files, history, queue, call>> /\ run[w].pc # "off"
    BY <1>3 DEF FindWork, At
  <2> QED BY <1>3, <2>1, FindWorkMove, OnlyWorker
<1>4. CASE Renew(w)
  <2>1. UNCHANGED <<tables, files, history, queue, call>> /\ run[w].pc # "off"
    BY <1>4 DEF Renew, At
  <2> QED BY <1>4, <2>1, RenewMove, OnlyWorker
<1>5. CASE ReadOriginal(w)
  <2>1. UNCHANGED <<tables, files, history, queue, call>> /\ run[w].pc # "off"
    BY <1>5 DEF ReadOriginal, At
  <2> QED BY <1>5, <2>1, ReadMove, OnlyWorker
<1> QED BY <1>1, <1>2, <1>3, <1>4, <1>5, ClaimTypes, SettlingTypes, FileStepTypes, CommitTypes DEF Work

-----------------------------------------------------------------------------
(* Types: every step of a request. *)

LEMMA NoCallOK ==
  ASSUME NEW d
  PROVE  CallOK(NoCall, d) /\ NoCall.pc = "idle" /\ NoCall.artifact = Null
BY DEF CallOK, NoCall, CallState, ClientPcs

LEMMA UnwoundOK ==
  ASSUME NEW c, NEW d, CallOK(c, d)
  PROVE  /\ CallOK(Unwound(c), d)
         /\ \/ Unwound(c) = NoCall /\ c.pc \notin {"save", "create"}
            \/ /\ c.pc \in {"save", "create"} /\ Unwound(c).pc = "discard"
               /\ Unwound(c).artifact = c.artifact /\ Unwound(c).copy = c.copy
<1> DEFINE u == [c EXCEPT !.pc = "discard"]
<1>1. CASE c.pc \in {"save", "create"}
  <2>1. u \in CallState /\ u.pc = "discard" /\ u.artifact = c.artifact /\ u.copy = c.copy
    BY DEF CallOK, CallState, ClientPcs
  <2>2. Unwound(c) = u
    BY <1>1 DEF Unwound
  <2> HIDE DEF u
  <2> QED BY <1>1, <2>1, <2>2 DEF CallOK
<1>2. CASE c.pc \notin {"save", "create"}
  BY <1>2, NoCallOK DEF Unwound
<1> QED BY <1>1, <1>2

\* A later step of a request about an artifact.
LEMMA NextCallOK ==
  ASSUME NEW c, NEW d, CallOK(c, d), c.artifact \in Artifacts, c.artifact \in d, c.copy \in Records,
         NEW pc \in {"create", "discard", "submit", "candidate", "text", "finalize", "withdraw"},
         pc \in {"create", "submit"} => c.copy.state = "queued",
         pc \in {"candidate", "text", "finalize"} => c.copy.state = "requires_confirmation",
         pc = "withdraw" => c.copy.state # "available"
  PROVE  /\ CallOK([c EXCEPT !.pc = pc], d) /\ [c EXCEPT !.pc = pc].pc = pc
         /\ [c EXCEPT !.pc = pc].artifact = c.artifact /\ [c EXCEPT !.pc = pc].copy = c.copy
<1> DEFINE u == [c EXCEPT !.pc = pc]
<1>1. u \in CallState /\ u.pc = pc /\ u.artifact = c.artifact /\ u.copy = c.copy
  BY DEF CallOK, CallState, ClientPcs
<1> HIDE DEF u
<1>2. CallOK(u, d)
  BY <1>1 DEF CallOK
<1> QED BY <1>1, <1>2 DEF u

\* A step of request p that leaves it at c, or throws after its effect.
LEMMA CallMoves ==
  ASSUME TypeInv, NEW p \in Clients, NEW c, Goes(p, c), CallOK(c, drawn'), drawn \subseteq drawn'
  PROVE  /\ call' \in [Clients -> CallState] /\ \A q \in Clients : CallOK(call'[q], drawn')
         /\ call'[p] = c \/ (call'[p] = Unwound(call[p]) /\ faults' = faults + 1)
         /\ \A q \in Clients : q # p => call'[q] = call[q]
         /\ crashes' = crashes /\ stalls' = stalls /\ faults' \in {faults, faults + 1}
<1>1. call \in [Clients -> CallState] /\ \A q \in Clients : CallOK(call[q], drawn)
  BY DEF TypeInv
<1>2. CallOK(Unwound(call[p]), drawn)
  BY <1>1, UnwoundOK
<1>3. \A x : CallOK(x, drawn) => CallOK(x, drawn')
  BY DEF CallOK
<1>4. PICK x : /\ call' = [call EXCEPT ![p] = x]
               /\ x = c \/ (x = Unwound(call[p]) /\ faults' = faults + 1)
               /\ crashes' = crashes /\ stalls' = stalls /\ faults' \in {faults, faults + 1}
  BY DEF Goes, mishaps
<1>5. CallOK(x, drawn') /\ x \in CallState
  BY <1>2, <1>3, <1>4 DEF CallOK
<1>6. call' \in [Clients -> CallState] /\ call'[p] = x /\ \A q \in Clients : q # p => call'[q] = call[q]
  BY <1>1, <1>4, <1>5
<1> QED BY <1>1, <1>3, <1>4, <1>5, <1>6

LEMMA RequestTypes ==
  ASSUME TypeInv, NEW p \in Clients, NEW c, Goes(p, c), CallOK(c, drawn'), drawn \subseteq drawn',
         TableTypes', QueueTypes', UNCHANGED <<run, leases>>
  PROVE  TypeInv'
<1>1. /\ call' \in [Clients -> CallState] /\ \A q \in Clients : CallOK(call'[q], drawn')
      /\ crashes' = crashes /\ stalls' = stalls /\ faults' \in {faults, faults + 1}
  BY CallMoves
<1>2. MishapTypes'
  BY <1>1 DEF TypeInv, MishapTypes
<1>3. run' \in [Workers -> RunState] /\ \A w \in Workers : RunOK(run'[w], leases')
  BY DEF TypeInv
<1> QED BY <1>1, <1>2, <1>3 DEF TypeInv

\* Only the request and the count of mishaps change.
LEMMA OnlyRequest ==
  ASSUME TypeInv, NEW p \in Clients, NEW c, Goes(p, c), CallOK(c, drawn),
         UNCHANGED <<tables, files, history, queue, run>>
  PROVE  TypeInv'
<1>1. drawn' = drawn /\ leases' = leases
  BY DEF history, queue
<1>2. TableTypes' /\ QueueTypes'
  BY <1>1, TablesKept, QueueKept
<1> QED BY <1>1, <1>2, RequestTypes

\* What a request starts with.
LEMMA EnqueueMove ==
  ASSUME TypeInv, NEW p \in Clients, NEW u \in Uploads, Enqueue(p, u)
  PROVE  \E c : /\ Goes(p, c) /\ CallOK(c, drawn) /\ c.pc = "findByKey" /\ c.artifact = Null
                /\ c.copy = NewRecord(u, rentalCase.revision) /\ call[p].pc = "idle" /\ Authorized
                /\ UNCHANGED <<tables, files, history, queue, run>>
<1> DEFINE n == NewRecord(u, rentalCase.revision)
           c == [NoCall EXCEPT !.pc = "findByKey", !.copy = n]
<1>1. n \in Records /\ n.state = "queued"
  BY DEF NewRecord, Records, RecordStates, Contents, TypeInv, TableTypes
<1>2. c \in CallState /\ c.pc = "findByKey" /\ c.artifact = Null /\ c.copy = n
  <2> HIDE DEF n
  <2>1. NoCall \in CallState /\ NoCall.artifact = Null
    BY DEF NoCall, CallState, ClientPcs
  <2> QED BY <1>1, <2>1 DEF CallState, ClientPcs
<1>3. CallOK(c, drawn)
  <2> HIDE DEF c, n
  <2> QED BY <1>1, <1>2 DEF CallOK
<1>4. /\ Goes(p, c) /\ call[p].pc = "idle" /\ Authorized
      /\ UNCHANGED <<tables, files, history, queue, run>>
  BY DEF Enqueue, On
<1> HIDE DEF c
<1> QED BY <1>2, <1>3, <1>4

\* A request about an artifact with a record goes on with its copy of it.
LEMMA CopyOK ==
  ASSUME TypeInv, NEW a \in Artifacts, rec[a] # Null, NEW pc \in {"submit", "authorize", "dequeue", "withdraw"},
         pc = "submit" => rec[a].state = "queued",
         pc = "authorize" => rec[a].state = "requires_confirmation",
         pc \in {"dequeue", "withdraw"} => rec[a].state # "available",
         pc = "dequeue" => rec[a].jobId # Null
  PROVE  CallOK([pc |-> pc, artifact |-> a, copy |-> rec[a]], drawn)
<1>1. rec[a] \in Records /\ a \in drawn
  BY DEF TypeInv, TableTypes
<1>2. rec[a].jobId \in Jobs \cup {Null}
  BY <1>1 DEF Records
<1>3. [pc |-> pc, artifact |-> a, copy |-> rec[a]] \in CallState
  BY <1>1 DEF CallState, ClientPcs
<1> QED BY <1>1, <1>2, <1>3 DEF CallOK

LEMMA FindByKeyMove ==
  ASSUME TypeInv, NEW p \in Clients, FindByKey(p)
  PROVE  \E c : /\ Goes(p, c) /\ CallOK(c, drawn') /\ drawn \subseteq drawn' /\ drawn' \subseteq Artifacts
                /\ call[p].pc = "findByKey" /\ UNCHANGED <<tables, files, lostCreate, queue, run>>
                /\ \/ c = NoCall /\ drawn' = drawn
                   \/ /\ c.pc = "submit" /\ drawn' = drawn /\ c.artifact \in Artifacts
                      /\ rec[c.artifact] # Null /\ c.copy = rec[c.artifact]
                      /\ c.copy.jobId = Null /\ c.copy.state = "queued"
                   \/ /\ c.pc = "save" /\ c.artifact \in Artifacts \ drawn
                      /\ drawn' = drawn \cup {c.artifact} /\ c.copy = call[p].copy
<1>1. /\ call[p].pc = "findByKey" /\ UNCHANGED <<tables, files, lostCreate, queue, run>>
      /\ drawn \subseteq Artifacts /\ CallOK(call[p], drawn)
  BY Zenon DEF FindByKey, On, TypeInv, TableTypes
<1>2. CASE Ends(p) /\ UNCHANGED drawn
  BY <1>1, <1>2, NoCallOK DEF Ends
<1>3. CASE \E a \in InUse : /\ rec[a].jobId = Null /\ rec[a].state = "queued"
                            /\ Goes(p, [pc |-> "submit", artifact |-> a, copy |-> rec[a]])
                            /\ UNCHANGED drawn
  <2>1. PICK a \in InUse : /\ rec[a].jobId = Null /\ rec[a].state = "queued"
                           /\ Goes(p, [pc |-> "submit", artifact |-> a, copy |-> rec[a]])
                           /\ UNCHANGED drawn
    BY <1>3
  <2> DEFINE c == [pc |-> "submit", artifact |-> a, copy |-> rec[a]]
  <2>2. CallOK(c, drawn)
    BY <2>1, CopyOK DEF InUse
  <2>3. c.pc = "submit" /\ c.artifact = a /\ c.copy = rec[a] /\ Goes(p, c)
    BY <2>1
  <2> HIDE DEF c
  <2> QED BY <1>1, <2>1, <2>2, <2>3 DEF InUse
<1>4. CASE \E a \in Artifacts \ drawn : /\ drawn' = drawn \cup {a}
                                        /\ Goes(p, [call[p] EXCEPT !.pc = "save", !.artifact = a])
  <2>1. PICK a \in Artifacts \ drawn : /\ drawn' = drawn \cup {a}
                                       /\ Goes(p, [call[p] EXCEPT !.pc = "save", !.artifact = a])
    BY <1>4, Zenon
  <2> DEFINE c == [call[p] EXCEPT !.pc = "save", !.artifact = a]
  <2>2. c \in CallState /\ c.pc = "save" /\ c.artifact = a /\ c.copy = call[p].copy
    BY <1>1 DEF CallOK, CallState, ClientPcs
  <2>3. Goes(p, c)
    BY <2>1
  <2> HIDE DEF c
  <2>4. CallOK(c, drawn')
    BY <1>1, <2>1, <2>2 DEF CallOK
  <2> QED BY <1>1, <2>1, <2>2, <2>3, <2>4
<1> QED BY <1>2, <1>3, <1>4, Zenon DEF FindByKey

LEMMA CreateMove ==
  ASSUME TypeInv, NEW p \in Clients, Create(p)
  PROVE  /\ call[p].pc = "create" /\ UNCHANGED <<files, drawn, queue, run>> /\ lostCreate' \in BOOLEAN
         /\ \E c : /\ Goes(p, c) /\ CallOK(c, drawn) /\ c.artifact = call[p].artifact
                   /\ c.copy = call[p].copy
                   /\ \/ /\ c.pc = "submit" /\ CanCreate(call[p].copy)
                         /\ Replace(call[p].artifact, call[p].copy)
                         /\ lostCreate' = (lostCreate \/ call'[p].pc = "discard")
                      \/ c.pc = "discard" /\ UNCHANGED <<tables, lostCreate>>
<1>1. /\ call[p].pc = "create" /\ UNCHANGED <<files, drawn, queue, run>> /\ CallOK(call[p], drawn)
      /\ call[p].artifact \in Artifacts /\ call[p].artifact \in drawn /\ call[p].copy \in Records
      /\ call[p].copy.state = "queued"
  BY DEF Create, On, TypeInv, CallOK
<1> DEFINE c == [call[p] EXCEPT !.pc = "submit"]
           u == [call[p] EXCEPT !.pc = "discard"]
<1>2. CallOK(c, drawn) /\ c.pc = "submit" /\ c.artifact = call[p].artifact /\ c.copy = call[p].copy
  BY <1>1, NextCallOK
<1>3. CallOK(u, drawn) /\ u.pc = "discard" /\ u.artifact = call[p].artifact /\ u.copy = call[p].copy
  BY <1>1, NextCallOK, ZenonT(60)
<1>4. Unwound(call[p]) = u
  BY <1>1 DEF Unwound
<1>5. \/ /\ Goes(p, c) /\ CanCreate(call[p].copy)
         /\ Replace(call[p].artifact, call[p].copy)
         /\ lostCreate' = (lostCreate \/ call'[p].pc = "discard")
      \/ Goes(p, u) /\ UNCHANGED <<tables, lostCreate>>
  BY <1>4 DEF Create
<1> HIDE DEF c, u
<1>6. lostCreate' \in BOOLEAN
  BY <1>5 DEF TypeInv, TableTypes
<1> QED BY <1>1, <1>2, <1>3, <1>5, <1>6

LEMMA SubmitMove ==
  ASSUME TypeInv, NEW p \in Clients, Submit(p)
  PROVE  /\ call[p].pc = "submit" /\ UNCHANGED <<tables, files, history, leases, run>>
         /\ \E c : \E j \in Jobs :
              /\ Goes(p, c) /\ CallOK(c, drawn) /\ c.pc = "link" /\ c.artifact = call[p].artifact
              /\ c.copy = [call[p].copy EXCEPT !.jobId = j] /\ c.copy.jobId = j
              /\ c.copy.state = "queued" /\ c.copy.upload = call[p].copy.upload
              /\ c.copy.expectedRevision = call[p].copy.expectedRevision
              /\ c.copy.derivative = call[p].copy.derivative
              /\ \/ JobOf(call[p].artifact) # {} /\ j \in JobOf(call[p].artifact) /\ job' = job
                 \/ /\ JobOf(call[p].artifact) = {} /\ job[j].state = "new"
                    /\ job' = [job EXCEPT ![j].artifact = call[p].artifact, ![j].state = "queued"]
<1>1. /\ call[p].pc = "submit" /\ UNCHANGED <<tables, files, history, leases, run>>
      /\ CallOK(call[p], drawn)
      /\ call[p].artifact \in Artifacts /\ call[p].artifact \in drawn /\ call[p].copy \in Records
      /\ call[p].copy.state = "queued"
  BY DEF Submit, On, TypeInv, CallOK
<1>2. PICK j \in Jobs :
           /\ IF JobOf(call[p].artifact) = {} THEN job[j].state = "new" ELSE j \in JobOf(call[p].artifact)
           /\ job' = IF JobOf(call[p].artifact) = {}
                       THEN [job EXCEPT ![j].artifact = call[p].artifact, ![j].state = "queued"]
                       ELSE job
           /\ Goes(p, [call[p] EXCEPT !.pc = "link", !.copy.jobId = j])
  BY Zenon DEF Submit
<1> DEFINE n == [call[p].copy EXCEPT !.jobId = j]
           c == [call[p] EXCEPT !.pc = "link", !.copy.jobId = j]
<1>3. /\ n \in Records /\ n.jobId = j /\ n.state = "queued" /\ n.upload = call[p].copy.upload
      /\ n.expectedRevision = call[p].copy.expectedRevision
      /\ n.derivative = call[p].copy.derivative
  BY <1>1 DEF Records
<1>4. c \in CallState /\ c.pc = "link" /\ c.artifact = call[p].artifact /\ c.copy = n
  <2>1. c = [call[p] EXCEPT !.pc = "link", !.copy = n]
    BY <1>1 DEF CallOK, CallState
  <2> HIDE DEF n, c
  <2> QED BY <1>1, <1>3, <2>1 DEF CallOK, CallState, ClientPcs
<1>5. CallOK(c, drawn)
  <2> HIDE DEF n, c
  <2> QED BY <1>1, <1>3, <1>4 DEF CallOK
<1>6. Goes(p, c) /\ c.copy = [call[p].copy EXCEPT !.jobId = j]
  BY <1>2, <1>4
<1> HIDE DEF c
<1> QED BY <1>1, <1>2, <1>3, <1>4, <1>5, <1>6

LEMMA CreatingTypes ==
  ASSUME TypeInv, NEW p \in Clients, FindByKey(p) \/ Create(p) \/ Submit(p)
  PROVE  TypeInv'
<1>1. CASE FindByKey(p)
  <2>1. PICK c : /\ Goes(p, c) /\ CallOK(c, drawn') /\ drawn \subseteq drawn' /\ drawn' \subseteq Artifacts
                 /\ UNCHANGED <<tables, files, lostCreate, queue, run>>
    BY <1>1, FindByKeyMove
  <2>2. TableTypes'
    BY <2>1 DEF TypeInv, TableTypes, tables
  <2>3. QueueTypes'
    <3>1. UNCHANGED <<job, leases>>
      BY <2>1 DEF queue
    <3>2. LeasesCounted'
      BY <3>1 DEF TypeInv, QueueTypes, LeasesCounted
    <3>3. \A j \in Jobs : JobOK(j)'
      BY <2>1, <3>1 DEF TypeInv, QueueTypes, JobOK
    <3> QED BY <3>1, <3>2, <3>3 DEF TypeInv, QueueTypes
  <2> QED BY <2>1, <2>2, <2>3, RequestTypes DEF queue
<1>2. CASE Create(p)
  <2>1. /\ call[p].pc = "create" /\ UNCHANGED <<files, drawn, queue, run>> /\ lostCreate' \in BOOLEAN
        /\ CallOK(call[p], drawn)
    BY <1>2, CreateMove DEF TypeInv
  <2>2. PICK c : /\ Goes(p, c) /\ CallOK(c, drawn)
                 /\ \/ Replace(call[p].artifact, call[p].copy)
                    \/ UNCHANGED <<tables, lostCreate>>
    BY <1>2, CreateMove
  <2>3. TableTypes'
    <3>1. CASE Replace(call[p].artifact, call[p].copy)
      <4>1. call[p].artifact \in drawn /\ call[p].copy \in Records
        BY <2>1 DEF CallOK
      <4> QED BY <2>1, <3>1, <4>1, ReplaceOK
    <3>2. CASE UNCHANGED <<tables, lostCreate>>
      BY <2>1, <3>2, TablesKept DEF history
    <3> QED BY <2>2, <3>1, <3>2
  <2>4. QueueTypes' /\ leases' = leases
    BY <2>1, QueueKept DEF queue
  <2> QED BY <2>1, <2>2, <2>3, <2>4, RequestTypes
<1>3. CASE Submit(p)
  <2>1. call[p].pc = "submit" /\ UNCHANGED <<tables, files, history, leases, run>> /\ drawn' = drawn
        /\ call[p].artifact \in drawn
    BY <1>3, SubmitMove DEF history, TypeInv, CallOK
  <2>2. PICK c, j : /\ j \in Jobs /\ Goes(p, c) /\ CallOK(c, drawn)
                    /\ \/ job' = job
                       \/ /\ job[j].state = "new"
                          /\ job' = [job EXCEPT ![j].artifact = call[p].artifact, ![j].state = "queued"]
    <3>1. \E c : \E j \in Jobs :
              /\ Goes(p, c) /\ CallOK(c, drawn)
              /\ \/ JobOf(call[p].artifact) # {} /\ j \in JobOf(call[p].artifact) /\ job' = job
                 \/ /\ JobOf(call[p].artifact) = {} /\ job[j].state = "new"
                    /\ job' = [job EXCEPT ![j].artifact = call[p].artifact, ![j].state = "queued"]
      BY <1>3, SubmitMove, ZenonT(60)
    <3> QED BY <3>1
  <2>3. TableTypes'
    BY <2>1, TablesKept
  <2>4. QueueTypes'
    <3>1. CASE job' = job
      BY <2>1, <3>1, QueueKept DEF queue
    <3>2. CASE /\ job[j].state = "new"
               /\ job' = [job EXCEPT ![j].artifact = call[p].artifact, ![j].state = "queued"]
      <4> DEFINE n == [job[j] EXCEPT !.artifact = call[p].artifact, !.state = "queued"]
      <4>1. job \in [Jobs -> JobRecords] /\ JobOK(j) /\ drawn \subseteq Artifacts
        BY <2>2 DEF TypeInv, QueueTypes, TableTypes
      <4>2. n \in JobRecords /\ n.artifact = call[p].artifact /\ n.state = "queued"
            /\ n.attempt = job[j].attempt /\ n.lease = job[j].lease
        BY <2>1, <2>2, <4>1 DEF JobRecords
      <4>3. job[j].lease = Null /\ job[j].attempt = 0 /\ 0 < MaxAttempts
        BY <3>2, <4>1, ProcessingAssumption DEF JobOK
      <4>4. job' = [job EXCEPT ![j] = n]
        BY <2>2, <3>2, <4>1
      <4> HIDE DEF n
      <4> QED BY <2>1, <2>2, <3>2, <4>2, <4>3, <4>4, JobSet
    <3> QED BY <2>2, <3>1, <3>2
  <2>5. leases' = leases /\ drawn' = drawn /\ UNCHANGED <<run, leases>>
    BY <2>1
  <2> QED BY <2>2, <2>3, <2>4, <2>5, RequestTypes
<1> QED BY <1>1, <1>2, <1>3

LEMMA RequestFileTypes ==
  ASSUME TypeInv, NEW p \in Clients, Save(p) \/ Discard(p) \/ WriteText(p)
  PROVE  TypeInv'
<1> DEFINE a == call[p].artifact
<1>1. /\ UNCHANGED <<tables, history, queue, run>> /\ drawn' = drawn /\ leases' = leases
      /\ call[p].pc \in {"save", "discard", "text"} /\ CallOK(call[p], drawn)
  BY DEF Save, Discard, WriteText, On, history, queue, TypeInv
<1>2. /\ a \in Artifacts /\ a \in drawn /\ call[p].copy \in Records /\ QueueTypes'
      /\ files \in [Artifacts -> Directories \cup {Null}]
  BY <1>1, QueueKept DEF CallOK, TypeInv, TableTypes
<1>3. CASE Save(p)
  <2> DEFINE c == [call[p] EXCEPT !.pc = "create"]
  <2>1. EmptyDirectory \in Directories
    BY DEF EmptyDirectory, Directories, Contents
  <2>2. TableTypes'
    BY <1>1, <1>2, <1>3, <2>1, FilesOK DEF Save
  <2>3. CallOK(c, drawn)
    <3>1. call[p].copy.state = "queued"
      BY <1>1, <1>3 DEF Save, On, CallOK
    <3> QED BY <1>1, <1>2, <3>1, NextCallOK
  <2>4. Goes(p, c)
    BY <1>3 DEF Save
  <2> HIDE DEF c
  <2> QED BY <1>1, <1>2, <2>2, <2>3, <2>4, RequestTypes
<1>4. CASE Discard(p)
  <2>1. TableTypes'
    BY <1>1, <1>2, <1>4, FilesOK DEF Discard, RemoveFiles
  <2> QED BY <1>1, <1>2, <1>4, <2>1, NoCallOK, RequestTypes DEF Discard, Ends
<1>5. CASE WriteText(p)
  <2>1. CASE files[a] # Null
    <3> DEFINE c == [call[p] EXCEPT !.pc = "finalize"]
               d == [files[a] EXCEPT !.text = call[p].copy.derivative]
    <3>1. call[p].pc = "text" /\ Goes(p, c) /\ files' = [files EXCEPT ![a].text = call[p].copy.derivative]
      BY <1>5, <2>1 DEF WriteText, On
    <3>2. CallOK(c, drawn)
      BY <1>1, <1>2, <3>1, NextCallOK, ZenonT(60) DEF CallOK
    <3>3. d \in Directories
      <4>1. files[a] \in Directories /\ call[p].copy.derivative \in Contents
        BY <1>2, <2>1 DEF Records
      <4> QED BY <4>1 DEF Directories
    <3>4. files' = [files EXCEPT ![a] = d]
      BY <1>2, <3>1
    <3> HIDE DEF c, d
    <3>5. TableTypes'
      BY <1>1, <1>2, <3>3, <3>4, FilesOK
    <3> QED BY <1>1, <1>2, <3>1, <3>2, <3>5, RequestTypes
  <2>2. CASE files[a] = Null
    <3>1. UNCHANGED files /\ Goes(p, NoCall)
      BY <1>5, <2>2 DEF WriteText, Ends
    <3> QED BY <1>1, <3>1, NoCallOK, OnlyRequest
  <2> QED BY <2>1, <2>2
<1> QED BY <1>3, <1>4, <1>5

LEMMA RequestRecordTypes ==
  ASSUME TypeInv, NEW p \in Clients, Link(p) \/ Withdraw(p) \/ FinalizeContract(p)
  PROVE  TypeInv'
<1> DEFINE a == call[p].artifact
<1>1. /\ UNCHANGED <<files, history, queue, run>> /\ drawn' = drawn /\ leases' = leases
      /\ lostCreate' = lostCreate /\ lostCreate \in BOOLEAN
      /\ call[p].pc \in {"link", "withdraw", "finalize"} /\ CallOK(call[p], drawn)
  BY DEF Link, Withdraw, FinalizeContract, On, history, queue, TypeInv, TableTypes
<1>2. /\ a \in Artifacts /\ a \in drawn /\ call[p].copy \in Records /\ QueueTypes'
  BY <1>1, QueueKept DEF CallOK
<1>3. CASE Link(p)
  <2>1. TableTypes'
    <3>1. CASE Replace(a, call[p].copy)
      BY <1>1, <1>2, <3>1, ReplaceOK
    <3>2. CASE UNCHANGED tables
      BY <1>1, <3>2, TablesKept
    <3> QED BY <1>3, <3>1, <3>2 DEF Link
  <2> QED BY <1>1, <1>2, <1>3, <2>1, NoCallOK, RequestTypes DEF Link, Ends
<1>4. CASE Withdraw(p)
  <2> DEFINE r == [call[p].copy EXCEPT !.state = "cancelled"]
             c == [call[p] EXCEPT !.pc = "discard"]
  <2>1. CASE Replace(a, r) /\ Goes(p, c)
    <3>1. r \in Records
      BY <1>2 DEF Records, RecordStates
    <3>2. TableTypes'
      BY <1>1, <1>2, <2>1, <3>1, ReplaceOK
    <3>3. CallOK(c, drawn)
      BY <1>1, <1>2, NextCallOK
    <3> QED BY <1>1, <1>2, <2>1, <3>2, <3>3, RequestTypes
  <2>2. CASE UNCHANGED tables /\ Ends(p)
    BY <1>1, <2>2, NoCallOK, OnlyRequest DEF Ends
  <2> QED BY <1>4, <2>1, <2>2 DEF Withdraw
<1>5. CASE FinalizeContract(p)
  <2> DEFINE d == [derivative |-> Null, text |-> call[p].copy.derivative]
  <2>1. CASE CanFinalize(a, call[p].copy.derivative) /\ Publish(a, d)
    <3>1. d \in Directories
      <4>1. call[p].copy.derivative \in Contents /\ Null \in Contents
        BY <1>2 DEF Records, Contents
      <4> QED BY <4>1 DEF Directories
    <3>2. rec[a] # Null
      BY <2>1 DEF CanFinalize
    <3>3. TableTypes'
      BY <1>1, <1>2, <2>1, <3>1, <3>2, PublishOK
    <3> QED BY <1>1, <1>2, <1>5, <3>3, NoCallOK, RequestTypes DEF FinalizeContract, Ends
  <2>2. CASE UNCHANGED tables
    BY <1>1, <1>5, <2>2, NoCallOK, OnlyRequest DEF FinalizeContract, Ends
  <2> QED BY <1>5, <2>1, <2>2 DEF FinalizeContract
<1> QED BY <1>3, <1>4, <1>5

LEMMA ConfirmingTypes ==
  ASSUME TypeInv, NEW p \in Clients,
         \/ \E a \in Artifacts : Confirm(p, a) \/ Cancel(p, a)
         \/ ConfirmAuthorize(p) \/ ReadCandidate(p) \/ CancelJob(p)
  PROVE  TypeInv'
<1>1. CallOK(call[p], drawn)
  BY DEF TypeInv
<1>2. ASSUME NEW a \in Artifacts, Confirm(p, a) PROVE TypeInv'
  <2>1. CallOK([pc |-> "authorize", artifact |-> a, copy |-> rec[a]], drawn)
    BY <1>2, CopyOK DEF Confirm
  <2> QED BY <1>2, <2>1, OnlyRequest DEF Confirm
<1>3. ASSUME NEW a \in Artifacts, Cancel(p, a) PROVE TypeInv'
  <2>1. rec[a].jobId = Null => CallOK([pc |-> "withdraw", artifact |-> a, copy |-> rec[a]], drawn)
    BY <1>3, CopyOK DEF Cancel
  <2>2. rec[a].jobId # Null => CallOK([pc |-> "dequeue", artifact |-> a, copy |-> rec[a]], drawn)
    BY <1>3, CopyOK DEF Cancel
  <2>3. \E pc \in {"withdraw", "dequeue"} :
          /\ Goes(p, [pc |-> pc, artifact |-> a, copy |-> rec[a]])
          /\ pc = "withdraw" <=> rec[a].jobId = Null
    BY <1>3 DEF Cancel
  <2>4. UNCHANGED <<tables, files, history, queue, run>>
    BY <1>3 DEF Cancel
  <2> QED BY <2>1, <2>2, <2>3, <2>4, OnlyRequest
<1>4. CASE ConfirmAuthorize(p)
  <2>1. CallOK([call[p] EXCEPT !.pc = "candidate"], drawn)
    <3>1. /\ call[p].copy.state = "requires_confirmation" /\ call[p].copy \in Records
          /\ call[p].artifact \in Artifacts /\ call[p].artifact \in drawn
      BY <1>1, <1>4 DEF ConfirmAuthorize, On, CallOK
    <3> QED BY <1>1, <3>1, NextCallOK
  <2> QED BY <1>4, <2>1, NoCallOK, OnlyRequest DEF ConfirmAuthorize, Ends
<1>5. CASE ReadCandidate(p)
  <2>1. CallOK([call[p] EXCEPT !.pc = "text"], drawn)
    <3>1. /\ call[p].copy.state = "requires_confirmation" /\ call[p].copy \in Records
          /\ call[p].artifact \in Artifacts /\ call[p].artifact \in drawn
      BY <1>1, <1>5 DEF ReadCandidate, On, CallOK
    <3> QED BY <1>1, <3>1, NextCallOK
  <2> QED BY <1>5, <2>1, NoCallOK, OnlyRequest DEF ReadCandidate, Ends
<1>6. CASE CancelJob(p)
  <2> DEFINE c == [call[p] EXCEPT !.pc = "withdraw"]
             j == call[p].copy.jobId
  <2>1. /\ call[p].copy.state # "available" /\ call[p].copy \in Records /\ j \in Jobs
        /\ call[p].artifact \in Artifacts /\ call[p].artifact \in drawn
        /\ Goes(p, c) /\ UNCHANGED <<tables, files, history, leases, run>> /\ drawn' = drawn
    BY <1>1, <1>6 DEF CancelJob, On, CallOK, history
  <2>2. CallOK(c, drawn)
    BY <1>1, <2>1, NextCallOK, ZenonT(60)
  <2>3. QueueTypes'
    <3>1. CASE job[j].state \in {"queued", "running"} /\ Settle(j, "cancelled")
      BY <2>1, <3>1, SettleOK
    <3>2. CASE UNCHANGED job
      BY <2>1, <3>2, QueueKept DEF queue
    <3> QED BY <1>6, <3>1, <3>2 DEF CancelJob
  <2>4. TableTypes'
    BY <2>1, TablesKept
  <2> HIDE DEF c, j
  <2> QED BY <2>1, <2>2, <2>3, <2>4, RequestTypes
<1> QED BY <1>2, <1>3, <1>4, <1>5, <1>6

\* Deletion of the case.
LEMMA DeletionTypes ==
  ASSUME TypeInv, NEW p \in Clients,
         DeleteCase(p) \/ PurgeJobs(p) \/ DeleteFiles(p) \/ CompleteCaseDeletion(p)
  PROVE  TypeInv'
<1>1. CallOK(call[p], drawn) /\ run' = run /\ leases' = leases /\ drawn' = drawn
      /\ lostCreate' = lostCreate
  BY DEF TypeInv, DeleteCase, PurgeJobs, DeleteFiles, CompleteCaseDeletion, queue, history
<1>2. \A pc \in {"purge", "deleteFiles", "completeDeletion"}, c \in {NoCall, call[p]} :
        c.artifact = Null => CallOK([c EXCEPT !.pc = pc], drawn)
  <2>1. ASSUME NEW pc \in {"purge", "deleteFiles", "completeDeletion"}, NEW c \in {NoCall, call[p]},
               c.artifact = Null
        PROVE  CallOK([c EXCEPT !.pc = pc], drawn)
    <3> DEFINE u == [c EXCEPT !.pc = pc]
    <3>1. c \in CallState
      BY <1>1, NoCallOK DEF CallOK
    <3>2. u \in CallState /\ u.pc = pc /\ u.artifact = Null
      BY <2>1, <3>1 DEF CallState, ClientPcs
    <3> HIDE DEF u
    <3>3. CallOK(u, drawn)
      BY <3>2 DEF CallOK
    <3> QED BY <3>3 DEF u
  <2> QED BY <2>1
<1>3. CASE DeleteCase(p)
  <2>1. CallOK([NoCall EXCEPT !.pc = "purge"], drawn)
    BY <1>2, NoCallOK
  <2>2. QueueTypes'
    BY <1>1, <1>3, QueueKept DEF DeleteCase
  <2>3. TableTypes'
    BY <1>1, <1>3 DEF DeleteCase, TypeInv, TableTypes
  <2> QED BY <1>1, <1>3, <2>1, <2>2, <2>3, RequestTypes DEF DeleteCase
<1>4. CASE PurgeJobs(p)
  <2>1. CallOK([call[p] EXCEPT !.pc = "deleteFiles"], drawn)
    BY <1>1, <1>2, <1>4 DEF PurgeJobs, On, CallOK
  <2>2. QueueTypes'
    BY <1>1, <1>4, DropOK DEF PurgeJobs
  <2>3. TableTypes'
    BY <1>4, TablesKept DEF PurgeJobs
  <2> QED BY <1>1, <1>4, <2>1, <2>2, <2>3, RequestTypes DEF PurgeJobs
<1>5. CASE DeleteFiles(p)
  <2>1. CallOK([call[p] EXCEPT !.pc = "completeDeletion"], drawn)
    BY <1>1, <1>2, <1>5 DEF DeleteFiles, On, CallOK
  <2>2. QueueTypes'
    BY <1>1, <1>5, QueueKept DEF DeleteFiles
  <2>3. TableTypes'
    BY <1>1, <1>5 DEF DeleteFiles, TypeInv, TableTypes, tables
  <2> QED BY <1>1, <1>5, <2>1, <2>2, <2>3, RequestTypes DEF DeleteFiles
<1>6. CASE CompleteCaseDeletion(p)
  <2>1. QueueTypes'
    BY <1>1, <1>6, QueueKept DEF CompleteCaseDeletion
  <2>2. files' = files
    BY <1>6 DEF CompleteCaseDeletion
  <2>3. TableTypes'
    <3>1. CASE rentalCase.status = "deleting"
      <4>1. rentalCase' \in [status : {"open", "deleting", "gone"}, revision : Nat]
        BY <1>6, <3>1 DEF CompleteCaseDeletion, TypeInv, TableTypes
      <4> QED BY <1>1, <1>6, <2>2, <3>1, <4>1 DEF CompleteCaseDeletion, TypeInv, TableTypes
    <3>2. CASE rentalCase.status # "deleting"
      BY <1>1, <1>6, <2>2, <3>2 DEF CompleteCaseDeletion, TypeInv, TableTypes, tables
    <3> QED BY <3>1, <3>2
  <2> QED BY <1>1, <1>6, <2>1, <2>3, NoCallOK, RequestTypes DEF CompleteCaseDeletion, Ends
<1> QED BY <1>3, <1>4, <1>5, <1>6

-----------------------------------------------------------------------------
(* Types: errors, the pump, the rest of the world. *)

LEMMA ThrowTypes ==
  ASSUME TypeInv, (\E w \in Workers : WorkerThrows(w)) \/ (\E p \in Clients : RequestThrows(p))
  PROVE  TypeInv'
<1>1. ASSUME NEW w \in Workers, WorkerThrows(w) PROVE TypeInv'
  <2>1. /\ run[w].pc # "off" /\ UNCHANGED <<tables, files, history, queue, call>>
        /\ run' = [run EXCEPT ![w] = Caught(run[w])] /\ UNCHANGED <<crashes, stalls>>
        /\ faults < MaxFaults /\ faults' = faults + 1
    BY <1>1 DEF WorkerThrows, At
  <2>2. To(w, Caught(run[w]))
    BY <2>1 DEF To
  <2>3. RunOK(Caught(run[w]), leases)
    BY <2>1, CaughtOK DEF TypeInv, QueueTypes
  <2> QED BY <2>1, <2>2, <2>3, OnlyWorker
<1>2. ASSUME NEW p \in Clients, RequestThrows(p) PROVE TypeInv'
  <2>1. CallOK(Unwound(call[p]), drawn)
    BY UnwoundOK DEF TypeInv
  <2>2. Goes(p, Unwound(call[p]))
    BY <1>2 DEF RequestThrows, Goes
  <2> QED BY <1>2, <2>1, <2>2, OnlyRequest DEF RequestThrows
<1> QED BY <1>1, <1>2

LEMMA PumpTypes ==
  ASSUME TypeInv, Pump
  PROVE  TypeInv'
<1> DEFINE c == [Off EXCEPT !.pc = "claim"]
<1>1. c \in RunState /\ c.pc = "claim" /\ c.job = Null /\ c.artifact = Null /\ c.copy = Null
  <2>1. Off \in RunState /\ Off.job = Null /\ Off.artifact = Null /\ Off.copy = Null
    BY DEF Off, RunState, WorkerPcs
  <2> QED BY <2>1 DEF RunState, WorkerPcs
<1>2. run' = [w \in Workers |-> c] /\ UNCHANGED <<tables, files, history, queue, call, mishaps>>
  BY DEF Pump
<1> HIDE DEF c
<1>3. RunOK(c, leases)
  BY <1>1 DEF RunOK, Resting, Preparing
<1>4. TableTypes' /\ QueueTypes' /\ leases' = leases /\ drawn' = drawn /\ call' = call
  BY <1>2, TablesKept, QueueKept DEF history, queue
<1>5. MishapTypes'
  BY <1>2 DEF TypeInv, MishapTypes, mishaps
<1> QED BY <1>1, <1>2, <1>3, <1>4, <1>5 DEF TypeInv

\* No worker and no request moves.
LEMMA NobodyMoves ==
  ASSUME TypeInv, TableTypes', QueueTypes', MishapTypes', UNCHANGED <<run, call, leases, drawn>>
  PROVE  TypeInv'
BY DEF TypeInv

LEMMA WorldTypes ==
  ASSUME TypeInv, World
  PROVE  TypeInv'
<1>1. /\ rentalCase \in [status : {"open", "deleting", "gone"}, revision : Nat]
      /\ image \in [Images -> {"none", "quarantined", "available", "abandoned"}]
      /\ crashes \in Nat /\ stalls \in Nat /\ faults \in Nat
  BY DEF TypeInv, TableTypes, MishapTypes
<1>2. ASSUME NEW i \in Images, ReserveImage(i) \/ FinalizeImage(i) \/ AbandonImage(i) PROVE TypeInv'
  <2>1. UNCHANGED <<run, call, leases, drawn, session, rec, row, files, lostCreate, queue, mishaps>>
    BY <1>2 DEF ReserveImage, FinalizeImage, AbandonImage, history, queue, mishaps
  <2>2. QueueTypes' /\ MishapTypes'
    BY <2>1, QueueKept DEF TypeInv, MishapTypes, mishaps
  <2>3. rentalCase' \in [status : {"open", "deleting", "gone"}, revision : Nat]
    BY <1>1, <1>2 DEF ReserveImage, FinalizeImage, AbandonImage
  <2>4. image' \in [Images -> {"none", "quarantined", "available", "abandoned"}]
    BY <1>1, <1>2 DEF ReserveImage, FinalizeImage, AbandonImage
  <2>5. TableTypes'
    BY <2>1, <2>3, <2>4 DEF TypeInv, TableTypes
  <2> QED BY <2>1, <2>2, <2>5, NobodyMoves
<1>3. ASSUME NEW j \in Jobs, DeadLeaseRunsOut(j) \/ Stall(j) \/ ForgetJob(j) PROVE TypeInv'
  <2>1. UNCHANGED <<tables, files, history, leases, run, call, drawn, crashes, faults>>
        /\ stalls' \in {stalls, stalls + 1}
    BY <1>3 DEF DeadLeaseRunsOut, Stall, ForgetJob, LeaseRunsOut, mishaps, history
  <2>2. TableTypes' /\ MishapTypes'
    BY <1>1, <2>1, TablesKept DEF MishapTypes
  <2>3. CASE LeaseRunsOut(j)
    <3>1. PICK s \in {"queued", "failed"} :
            Settle(j, s) /\ (s = "queued" => job[j].attempt < MaxAttempts) /\ job[j].state = "running"
      BY <2>3 DEF LeaseRunsOut
    <3>2. QueueTypes'
      BY <2>1, <3>1, SettleOK
    <3> QED BY <2>1, <2>2, <3>2, NobodyMoves
  <2>4. CASE ForgetJob(j)
    <3>1. QueueTypes'
      BY <2>1, <2>4, DropOK DEF ForgetJob
    <3> QED BY <2>1, <2>2, <3>1, NobodyMoves
  <2> QED BY <1>3, <2>3, <2>4 DEF DeadLeaseRunsOut, Stall
<1>4. CASE RevokeSession
  <2>1. UNCHANGED <<run, call, leases, drawn, queue, mishaps>>
    BY <1>4 DEF RevokeSession, history, queue
  <2>2. QueueTypes' /\ MishapTypes'
    BY <2>1, QueueKept DEF TypeInv, MishapTypes, mishaps
  <2>3. TableTypes'
    BY <1>4 DEF RevokeSession, history, TypeInv, TableTypes
  <2> QED BY <2>1, <2>2, <2>3, NobodyMoves
<1>5. CASE Crash
  <2>1. UNCHANGED <<tables, files, history, queue, stalls, faults, drawn, leases>>
        /\ crashes' = crashes + 1
    BY <1>5 DEF Crash, history, queue
  <2>2. TableTypes' /\ QueueTypes' /\ MishapTypes'
    BY <1>1, <2>1, TablesKept, QueueKept DEF MishapTypes
  <2>3. run' = [w \in Workers |-> Off] /\ call' = [p \in Clients |-> NoCall]
    BY <1>5 DEF Crash
  <2>4. /\ Off \in RunState /\ NoCall \in CallState
        /\ RunOK(Off, leases') /\ CallOK(NoCall, drawn')
    BY OffOK, NoCallOK DEF RunOK, CallOK
  <2> HIDE DEF Off, NoCall
  <2> QED BY <2>2, <2>3, <2>4 DEF TypeInv
<1> QED BY <1>2, <1>3, <1>4, <1>5 DEF World

\* Every step keeps the types.
LEMMA NextTypes ==
  ASSUME TypeInv, [Next]_vars
  PROVE  TypeInv'
<1>1. ASSUME NEW p \in Clients, Request(p) PROVE TypeInv'
  <2>1. ASSUME NEW u \in Uploads, Enqueue(p, u) PROVE TypeInv'
    BY <2>1, EnqueueMove, OnlyRequest
  <2>2. CASE RequestThrows(p)
    BY <2>2, ThrowTypes
  <2> QED BY <1>1, <2>1, <2>2, CreatingTypes, RequestFileTypes, RequestRecordTypes,
             ConfirmingTypes, DeletionTypes DEF Request
<1>2. CASE UNCHANGED vars
  <2>1. UNCHANGED <<tables, files, history, queue, run, call, mishaps, drawn, leases>>
    BY <1>2 DEF vars, history, queue
  <2>2. TableTypes' /\ QueueTypes' /\ MishapTypes'
    BY <2>1, TablesKept, QueueKept DEF TypeInv, MishapTypes, mishaps
  <2> QED BY <2>1, <2>2, NobodyMoves
<1> QED BY <1>1, <1>2, WorkTypes, ThrowTypes, PumpTypes, WorldTypes DEF Next

LEMMA InitTypes ==
  ASSUME Init
  PROVE  TypeInv
<1>1. TableTypes
  BY DEF Init, TableTypes
<1>2. QueueTypes
  <2>1. NewJob \in JobRecords /\ NewJob.state = "new" /\ NewJob.attempt = 0 /\ NewJob.lease = Null
        /\ NewJob.artifact = Null
    BY ProcessingAssumption DEF NewJob, JobRecords, Contents, Frames
  <2>2. job = [j \in Jobs |-> NewJob] /\ leases = 0
    BY DEF Init
  <2> HIDE DEF NewJob
  <2>3. job \in [Jobs -> JobRecords] /\ \A j \in Jobs : JobOK(j)
    BY <2>1, <2>2 DEF JobOK
  <2>4. LeasesCounted
    <3> DEFINE f == [x \in 1..leases |-> <<x, x>>]
    <3>1. 1..leases = {}
      BY <2>2
    <3>2. f \in [1..leases -> Jobs \X (1..MaxAttempts)]
      BY <3>1
    <3> QED BY <3>1, <3>2 DEF LeasesCounted
  <2> QED BY <2>2, <2>3, <2>4 DEF QueueTypes
<1>3. /\ Off \in RunState /\ NoCall \in CallState /\ RunOK(Off, leases) /\ CallOK(NoCall, drawn)
  BY OffOK, NoCallOK DEF RunOK, CallOK
<1>4. run = [w \in Workers |-> Off] /\ call = [p \in Clients |-> NoCall] /\ MishapTypes
  BY DEF Init, MishapTypes
<1> QED BY <1>1, <1>2, <1>3, <1>4 DEF TypeInv

\* Every variable has its type, workers and requests hold what their step
\* needs, and every lease was granted to an attempt of a job of its own.
THEOREM ProcessingInvariant == Spec => []TypeInv
<1>1. TypeInv /\ [Next]_vars => TypeInv'
  BY NextTypes
<1> QED BY <1>1, InitTypes, PTL DEF Spec

LEMMA TypesFollow ==
  ASSUME TypeInv
  PROVE  TypeOK
<1>1. \A w \in Workers : run[w].stage \in 0..3 /\ run[w].copy \in Records \cup {Null}
  BY DEF TypeInv, RunState
<1>2. \A p \in Clients : call[p].copy \in Records \cup {Null}
  BY DEF TypeInv, CallState
<1> QED BY <1>1, <1>2 DEF TypeInv, TableTypes, QueueTypes, TypeOK

\* Whatever errors, stalls and crashes happen, the rows, files, jobs, workers
\* and requests are well-formed: contents are named by leases that were
\* granted, of which there are at most MaxAttempts for each job.
THEOREM ProcessingTypes == Spec => []TypeOK
<1>1. TypeInv => TypeOK
  BY TypesFollow
<1> QED BY <1>1, ProcessingInvariant, PTL

-----------------------------------------------------------------------------
(* What workers, requests and rows know of the records. *)

\* c is a copy of the record of a, unless that is gone.
Suits(c, a) ==
  rec[a] # Null => c.upload = rec[a].upload /\ c.expectedRevision = rec[a].expectedRevision

WorkerOK(r) ==
  /\ r.artifact \in drawn \cup {Null}
  /\ ~Resting(r) => job[r.job].state = "gone" \/ job[r.job].artifact = r.artifact
  /\ Preparing(r) => Suits(r.copy, r.artifact)
  /\ r.pc = "wipe" /\ rec[r.artifact] # Null => rec[r.artifact].state \in {"failed", "cancelled"}
  /\ r.pc = "complete" /\ rec[r.artifact] # Null => rec[r.artifact].state \notin {"queued", "failed"}

RequestOK(c) ==
  /\ c.pc \in {"submit", "link", "authorize", "candidate", "text", "finalize", "dequeue", "withdraw"}
       => Suits(c.copy, c.artifact)
  /\ c.pc \in {"authorize", "candidate", "text", "finalize"} /\ rec[c.artifact] # Null
       => /\ rec[c.artifact].state # "queued"
          /\ rec[c.artifact].state \in {"requires_confirmation", "available"}
               => rec[c.artifact].derivative = c.copy.derivative
  /\ c.pc \in {"purge", "deleteFiles", "completeDeletion"} => ~Open

\* The artifact of an upload that is being created is nobody else's.
FreshOK(p) ==
  call[p].pc \in {"save", "create"} =>
    /\ rec[call[p].artifact] = Null
    /\ \A j \in Jobs : job[j].artifact # call[p].artifact
    /\ \A w \in Workers : run[w].artifact # call[p].artifact
    /\ \A q \in Clients : q # p => call[q].artifact # call[p].artifact

RowOK(a) ==
  row[a] # Null =>
    /\ rec[a] # Null /\ rec[a].state = "available"
    /\ row[a].text \in {Null, rec[a].derivative}
    /\ row[a].derivative \in {Null, Frames}
    /\ row[a].derivative # Null => IsVideo(rec[a])

\* An artifact has one job at most.
OneJob == \A i, j \in Jobs : job[i].artifact = job[j].artifact /\ job[i].artifact # Null => i = j

LifeInv ==
  /\ \A w \in Workers : WorkerOK(run[w])
  /\ \A p \in Clients : RequestOK(call[p]) /\ FreshOK(p)
  /\ \A a \in Artifacts : RowOK(a)
  /\ OneJob
  /\ SucceededMeansSettled

-----------------------------------------------------------------------------
(* Who is alone, what is on disk and who removes it. *)

\* The worker has read a record and is on its way to publish what it prepares.
Active(r) == \/ r.pc \in {"renew", "read", "write", "commit"}
             \/ r.pc = "gate" /\ r.stage # 0

\* The files that a request is going to remove are of no use.
DiscardOK(c) == c.pc = "discard" /\ rec[c.artifact] # Null => rec[c.artifact].state = "cancelled"

\* The worker has written what it prepared and has not published it yet.
Wrote(r) == r.pc \in {"renew", "gate", "commit"} /\ r.stage = 3

Written(w) ==
  Wrote(run[w]) /\ rec[run[w].artifact] # Null /\ rec[run[w].artifact].state = "queued"

PreparedOK(w) ==
  Written(w) /\ (IsVideo(run[w].copy) \/ stalls = 0) =>
    files[run[w].artifact] # Null /\ files[run[w].artifact].derivative = Prepared(w)

\* The request has written the text and has not published it yet.
Confirming(c) ==
  /\ c.pc = "finalize" /\ rec[c.artifact] # Null
  /\ rec[c.artifact].state \in {"requires_confirmation", "available"}

TextOK(c) ==
  Confirming(c) => files[c.artifact] # Null /\ files[c.artifact].text = c.copy.derivative

\* While the case stands and no create() was lost.
DiskInv ==
  Open /\ ~lostCreate =>
    /\ \A p \in Clients : DiscardOK(call[p]) /\ TextOK(call[p])
    /\ \A w \in Workers : PreparedOK(w)
    /\ PublishedIsReadable
    /\ CandidateIsOnDisk

AloneInv ==
  stalls = 0 =>
    /\ \A w \in Workers : ~Resting(run[w]) =>
         Holds(w) \/ IsTerminal(run[w].job) \/ (job[run[w].job].state = "gone" /\ ~Open)
    /\ \A v, w \in Workers : ~Resting(run[w]) /\ run[v].job = run[w].job => v = w
    /\ \A w \in Workers : Active(run[w]) /\ rec[run[w].artifact] # Null
                            => rec[run[w].artifact].state # "requires_confirmation"

Discarding(a) == \E p \in Clients : call[p].artifact = a /\ call[p].pc \in {"create", "discard"}

StrayInv ==
  crashes = 0 /\ faults = 0 =>
    /\ NoStrayFiles
    /\ rentalCase.status = "gone" \/ (\E p \in Clients : call[p].pc = "completeDeletion") =>
         \A a \in Artifacts : files[a] # Null => Discarding(a)

-----------------------------------------------------------------------------
(* What a step may do to a record, a job, a worker's artifact and a        *)
(* request's.                                                              *)

Moved(a) ==
  \/ rec'[a] = rec[a]
  \/ rec'[a] = Null /\ row'[a] = Null
  \/ rec[a] = Null /\ \E p \in Clients : /\ call[p].pc = "create" /\ call[p].artifact = a
                                         /\ call'[p].pc # "create"
  \/ /\ rec[a] # Null /\ rec'[a] # Null
     /\ rec'[a].upload = rec[a].upload /\ rec'[a].expectedRevision = rec[a].expectedRevision
     /\ rec'[a].state = rec[a].state \/ <<rec[a].state, rec'[a].state>> \in Onward
     /\ rec[a].state # "queued" /\ rec'[a].state # "cancelled"
          => rec'[a].derivative = rec[a].derivative

JobMoved(j) ==
  /\ job[j].state = "gone" => job'[j].state = "gone"
  /\ \/ job'[j].artifact = job[j].artifact
     \/ job'[j].state = "gone" /\ job'[j].artifact = Null
     \/ job[j].state = "new" /\ \E p \in Clients : /\ call[p].pc = "submit"
                                                   /\ job'[j].artifact = call[p].artifact
  /\ job'[j].state = "succeeded" =>
       \/ job[j].state = "succeeded"
       \/ \E w \in Workers : run[w].pc = "complete" /\ run[w].job = j /\ Holds(w)

RunMoved(w) ==
  \/ run'[w].artifact \in {run[w].artifact, Null}
  \/ \E j \in Jobs : run'[w].artifact = job[j].artifact

CallMoved(p) ==
  /\ \/ call'[p].artifact \in {call[p].artifact, Null}
     \/ call'[p].artifact \in Artifacts /\ rec[call'[p].artifact] # Null
     \/ call'[p].artifact \notin drawn
  /\ call'[p].pc \in {"save", "create"} =>
       \/ /\ call'[p].artifact = call[p].artifact /\ call[p].pc \in {"save", "create"}
          /\ call'[p].pc = call[p].pc \/ call[p].pc = "save"
       \/ /\ call'[p].artifact \in Artifacts \ drawn
          /\ \A q \in Clients : q # p => call'[q] = call[q]
          /\ UNCHANGED <<rec, job, run>>

\* The queue.

JobStep ==
  \/ \E w \in Workers : Claim(w) \/ Complete(w) \/ Fail(w)
  \/ \E p \in Clients : Submit(p) \/ CancelJob(p) \/ PurgeJobs(p)
  \/ \E j \in Jobs : LeaseRunsOut(j) \/ ForgetJob(j)

LEMMA JobSteps ==
  ASSUME [Next]_vars
  PROVE  JobStep \/ UNCHANGED queue
<1>1. ASSUME NEW w \in Workers, Work(w) \/ WorkerThrows(w) PROVE JobStep \/ UNCHANGED queue
  BY <1>1, Zenon DEF Work, WorkerThrows, JobStep, ClaimNothing, Gate, FindWork, Renew, ReadOriginal,
              WriteDerivative, CommitCandidate, CommitVideo, MarkFailed, WipeFailed
<1>2. ASSUME NEW p \in Clients, Request(p) PROVE JobStep \/ UNCHANGED queue
  BY <1>2, Zenon DEF Request, JobStep, Enqueue, Confirm, Cancel, FindByKey, Save, Create, Discard, Link,
              ConfirmAuthorize, ReadCandidate, WriteText, FinalizeContract, Withdraw, DeleteCase,
              DeleteFiles, CompleteCaseDeletion, RequestThrows
<1>3. CASE World
  BY <1>3 DEF World, JobStep, ReserveImage, FinalizeImage, AbandonImage, RevokeSession, Crash,
              DeadLeaseRunsOut, Stall
<1>4. CASE Pump
  BY <1>4 DEF Pump
<1>5. CASE UNCHANGED vars
  BY <1>5 DEF vars
<1> QED BY <1>1, <1>2, <1>3, <1>4, <1>5 DEF Next

LEMMA JobsMove ==
  ASSUME TypeInv, [Next]_vars
  PROVE  \A j \in Jobs : JobMoved(j)
<1>1. CASE UNCHANGED queue
  BY <1>1 DEF queue, JobMoved
<1>2. ASSUME NEW w \in Workers, Claim(w) PROVE \A j \in Jobs : JobMoved(j)
  <2>1. PICK j \in Jobs : /\ job'[j].state = "running" /\ job[j].state = "queued"
                          /\ job'[j].artifact = job[j].artifact
                          /\ \A i \in Jobs : i # j => job'[i] = job[i]
    BY <1>2, ClaimMove
  <2> QED BY <2>1 DEF JobMoved
<1>3. ASSUME NEW j \in Jobs, NEW s \in {"queued", "failed", "cancelled", "succeeded"}, Settle(j, s),
             leases' = leases, drawn' = drawn, job[j].state \in {"queued", "running"},
             s = "queued" => job[j].attempt < MaxAttempts,
             s = "succeeded" => \E w \in Workers : run[w].pc = "complete" /\ run[w].job = j /\ Holds(w)
      PROVE  \A i \in Jobs : JobMoved(i)
  <2>1. /\ \A i \in Jobs : i # j => job'[i] = job[i]
        /\ job'[j].state = s /\ job'[j].artifact = job[j].artifact
    BY <1>3, SettleOK
  <2> QED BY <1>3, <2>1 DEF JobMoved
<1>4. ASSUME NEW w \in Workers, Complete(w) \/ Fail(w) PROVE \A j \in Jobs : JobMoved(j)
  <2>1. CASE Holds(w)
    <3>1. run[w].job \in Jobs /\ job[run[w].job].state = "running" /\ leases' = leases /\ drawn' = drawn
      BY <1>4, <2>1 DEF Complete, Fail, At, Holds, TypeInv, RunOK, Resting, history
    <3>2. CASE Complete(w)
      <4>1. Settle(run[w].job, "succeeded") /\ run[w].pc = "complete"
        BY <2>1, <3>2 DEF Complete, At
      <4> QED BY <1>3, <2>1, <3>1, <4>1
    <3>3. CASE Fail(w)
      <4>1. PICK s \in {"queued", "failed"} :
              Settle(run[w].job, s) /\ (s = "queued" => job[run[w].job].attempt < MaxAttempts)
        BY <2>1, <3>3 DEF Fail
      <4> QED BY <1>3, <3>1, <4>1
    <3> QED BY <1>4, <3>2, <3>3
  <2>2. CASE ~Holds(w)
    BY <1>4, <2>2 DEF Complete, Fail, JobMoved
  <2> QED BY <2>1, <2>2
<1>5. ASSUME NEW p \in Clients, Submit(p) PROVE \A j \in Jobs : JobMoved(j)
  <2>1. PICK j : /\ j \in Jobs
                 /\ \/ job' = job
                    \/ /\ job[j].state = "new"
                       /\ job' = [job EXCEPT ![j].artifact = call[p].artifact, ![j].state = "queued"]
    BY <1>5, SubmitMove, ZenonT(60)
  <2>2. job \in [Jobs -> JobRecords] /\ call[p].pc = "submit"
    BY <1>5 DEF TypeInv, QueueTypes, Submit, On
  <2>3. CASE job' = job
    BY <2>3 DEF JobMoved
  <2>4. CASE /\ job[j].state = "new"
             /\ job' = [job EXCEPT ![j].artifact = call[p].artifact, ![j].state = "queued"]
    <3>1. /\ \A i \in Jobs : i # j => job'[i] = job[i]
          /\ job'[j].artifact = call[p].artifact /\ job'[j].state = "queued"
      BY <2>1, <2>2, <2>4 DEF JobRecords
    <3> QED BY <2>2, <2>4, <3>1 DEF JobMoved
  <2> QED BY <2>1, <2>3, <2>4
<1>6. ASSUME NEW p \in Clients, CancelJob(p) PROVE \A j \in Jobs : JobMoved(j)
  <2>1. call[p].copy.jobId \in Jobs /\ leases' = leases /\ drawn' = drawn
    BY <1>6 DEF CancelJob, On, TypeInv, CallOK, history
  <2>2. CASE job[call[p].copy.jobId].state \in {"queued", "running"}
    BY <1>3, <1>6, <2>1, <2>2 DEF CancelJob
  <2>3. CASE job[call[p].copy.jobId].state \notin {"queued", "running"}
    BY <1>6, <2>3 DEF CancelJob, JobMoved
  <2> QED BY <2>2, <2>3
<1>7. ASSUME NEW gone, Drop(gone), leases' = leases, drawn' = drawn PROVE \A j \in Jobs : JobMoved(j)
  BY <1>7, DropOK DEF JobMoved
<1>8. ASSUME NEW p \in Clients, PurgeJobs(p) PROVE \A j \in Jobs : JobMoved(j)
  BY <1>7, <1>8 DEF PurgeJobs, history
<1>9. ASSUME NEW j \in Jobs, LeaseRunsOut(j) \/ ForgetJob(j) PROVE \A i \in Jobs : JobMoved(i)
  <2>1. leases' = leases /\ drawn' = drawn
    BY <1>9 DEF LeaseRunsOut, ForgetJob, history
  <2>2. CASE LeaseRunsOut(j)
    <3>1. PICK s \in {"queued", "failed"} :
            Settle(j, s) /\ (s = "queued" => job[j].attempt < MaxAttempts) /\ job[j].state = "running"
      BY <2>2 DEF LeaseRunsOut
    <3> QED BY <1>3, <2>1, <3>1
  <2>3. CASE ForgetJob(j)
    BY <1>7, <2>1, <2>3 DEF ForgetJob
  <2> QED BY <1>9, <2>2, <2>3
<1> QED BY <1>1, <1>2, <1>4, <1>5, <1>6, <1>8, <1>9, JobSteps DEF JobStep

\* The records.

RecordStep ==
  \/ \E w \in Workers : CommitCandidate(w) \/ CommitVideo(w) \/ MarkFailed(w)
  \/ \E p \in Clients : Create(p) \/ Link(p) \/ Withdraw(p) \/ FinalizeContract(p)
                        \/ CompleteCaseDeletion(p)

LEMMA RecordSteps ==
  ASSUME [Next]_vars
  PROVE  RecordStep \/ UNCHANGED <<rec, row>>
<1>1. ASSUME NEW w \in Workers, Work(w) \/ WorkerThrows(w) PROVE RecordStep \/ UNCHANGED <<rec, row>>
  BY <1>1, ZenonT(60) DEF Work, WorkerThrows, RecordStep, Claim, ClaimNothing, Gate, FindWork, Renew,
              ReadOriginal, WriteDerivative, WipeFailed, Complete, Fail, tables
<1>2. ASSUME NEW p \in Clients, Request(p) PROVE RecordStep \/ UNCHANGED <<rec, row>>
  BY <1>2, Zenon DEF Request, RecordStep, Enqueue, Confirm, Cancel, FindByKey, Save, Discard, Submit,
              ConfirmAuthorize, ReadCandidate, WriteText, CancelJob, DeleteCase, PurgeJobs,
              DeleteFiles, RequestThrows, tables
<1>3. CASE World
  BY <1>3 DEF World, ReserveImage, FinalizeImage, AbandonImage, RevokeSession, Crash,
              DeadLeaseRunsOut, Stall, LeaseRunsOut, ForgetJob, tables
<1>4. CASE Pump
  BY <1>4 DEF Pump, tables
<1>5. CASE UNCHANGED vars
  BY <1>5 DEF vars, tables
<1> QED BY <1>1, <1>2, <1>3, <1>4, <1>5 DEF Next

\* A copy of the record of a gets another state.
LEMMA ReplaceMoves ==
  ASSUME TypeInv, NEW a \in Artifacts, rec[a] # Null, NEW c \in Records, Replace(a, c),
         c.upload = rec[a].upload, c.expectedRevision = rec[a].expectedRevision,
         c.state = rec[a].state \/ <<rec[a].state, c.state>> \in Onward,
         rec[a].state = "queued" \/ c.state = "cancelled"
  PROVE  \A b \in Artifacts : Moved(b)
<1>1. rec \in [Artifacts -> Records \cup {Null}] /\ Null \notin Records
  BY NullAssumption DEF TypeInv, TableTypes
<1>2. rec'[a] = c /\ c # Null /\ \A b \in Artifacts : b # a => rec'[b] = rec[b]
  BY <1>1 DEF Replace
<1> QED BY <1>2 DEF Moved

LEMMA PublishMoves ==
  ASSUME TypeInv, NEW a \in Artifacts, NEW d \in Directories, Publish(a, d), rec[a] # Null,
         rec[a].state \in {"queued", "requires_confirmation"}, UNCHANGED <<files, history>>
  PROVE  \A b \in Artifacts : Moved(b)
<1>1. /\ rec'[a] # Null /\ rec'[a].state = "available" /\ rec'[a].upload = rec[a].upload
      /\ rec'[a].derivative = rec[a].derivative
      /\ rec'[a].expectedRevision = rec[a].expectedRevision
      /\ \A b \in Artifacts : b # a => rec'[b] = rec[b]
  BY PublishOK, NullAssumption
<1> QED BY <1>1 DEF Moved, Onward

LEMMA RecordsMove ==
  ASSUME TypeInv, LifeInv, [Next]_vars
  PROVE  \A a \in Artifacts : Moved(a)
<1>1. CASE UNCHANGED <<rec, row>>
  BY <1>1 DEF Moved
<1>2. \A w \in Workers : WorkerOK(run[w]) /\ RunOK(run[w], leases)
  BY DEF LifeInv, TypeInv
<1>3. \A p \in Clients : RequestOK(call[p]) /\ CallOK(call[p], drawn) /\ FreshOK(p)
  BY DEF LifeInv, TypeInv
<1>4. [derivative |-> Frames, text |-> Null] \in Directories
  BY LeasesAreContents DEF Directories, Contents, Frames, TypeInv, QueueTypes
<1>5. ASSUME NEW w \in Workers, CommitCandidate(w) PROVE \A a \in Artifacts : Moved(a)
  <2>1. /\ Preparing(run[w]) /\ run[w].artifact \in Artifacts /\ run[w].copy \in Records
        /\ Suits(run[w].copy, run[w].artifact)
    BY <1>2, <1>5 DEF CommitCandidate, At, Preparing, RunOK, Resting, WorkerOK
  <2>2. CASE UNCHANGED tables
    BY <1>1, <2>2 DEF tables
  <2>3. ASSUME rec[run[w].artifact] # Null, rec[run[w].artifact].state = "queued",
               NEW c \in Records,
               c = [run[w].copy EXCEPT !.state = "requires_confirmation", !.derivative = Prepared(w)],
               Replace(run[w].artifact, c)
        PROVE  \A a \in Artifacts : Moved(a)
    <3>1. c.state = "requires_confirmation" /\ c.upload = run[w].copy.upload
          /\ c.expectedRevision = run[w].copy.expectedRevision
      BY <2>1, <2>3 DEF Records
    <3> QED BY <2>1, <2>3, <3>1, ReplaceMoves, Zenon DEF Suits, Onward
  <2>4. \/ UNCHANGED tables
        \/ /\ rec[run[w].artifact] # Null /\ rec[run[w].artifact].state = "queued"
           /\ \E c \in Records :
                /\ c = [run[w].copy EXCEPT !.state = "requires_confirmation", !.derivative = Prepared(w)]
                /\ Replace(run[w].artifact, c)
    BY <1>5, CandidateMove, Zenon
  <2> QED BY <2>2, <2>3, <2>4
<1>6. ASSUME NEW w \in Workers, MarkFailed(w) PROVE \A a \in Artifacts : Moved(a)
  <2>1. /\ Preparing(run[w]) /\ run[w].artifact \in Artifacts /\ run[w].copy \in Records
        /\ Suits(run[w].copy, run[w].artifact)
    BY <1>2, <1>6 DEF MarkFailed, At, Preparing, RunOK, Resting, WorkerOK
  <2>2. CASE UNCHANGED tables
    BY <1>1, <2>2 DEF tables
  <2>3. ASSUME rec[run[w].artifact] # Null, rec[run[w].artifact].state = "queued",
               NEW c \in Records, c = [run[w].copy EXCEPT !.state = "failed"],
               Replace(run[w].artifact, c)
        PROVE  \A a \in Artifacts : Moved(a)
    <3>1. c.state = "failed" /\ c.upload = run[w].copy.upload
          /\ c.expectedRevision = run[w].copy.expectedRevision
      BY <2>1, <2>3 DEF Records
    <3> QED BY <2>1, <2>3, <3>1, ReplaceMoves DEF Suits, Onward
  <2>4. \/ UNCHANGED tables
        \/ /\ rec[run[w].artifact] # Null /\ rec[run[w].artifact].state = "queued"
           /\ \E c \in Records : /\ c = [run[w].copy EXCEPT !.state = "failed"]
                                 /\ Replace(run[w].artifact, c)
    BY <1>6, MarkMove
  <2> QED BY <2>2, <2>3, <2>4
<1>7. ASSUME NEW w \in Workers, CommitVideo(w) PROVE \A a \in Artifacts : Moved(a)
  <2>1. /\ run[w].artifact \in Artifacts /\ UNCHANGED <<files, history>>
        /\ Preparing(run[w]) /\ Suits(run[w].copy, run[w].artifact) /\ IsVideo(run[w].copy)
    BY <1>2, <1>7 DEF CommitVideo, At, RunOK, Resting, Preparing, WorkerOK
  <2>2. CASE UNCHANGED tables
    BY <1>1, <2>2 DEF tables
  <2>3. CASE /\ CanFinalize(run[w].artifact, Null)
             /\ Publish(run[w].artifact, [derivative |-> Frames, text |-> Null])
    BY <1>4, <2>1, <2>3, PublishMoves DEF CanFinalize
  <2> QED BY <1>7, <2>2, <2>3, VideoMove
<1>8. ASSUME NEW p \in Clients, Create(p) PROVE \A a \in Artifacts : Moved(a)
  <2>1. /\ call[p].pc = "create" /\ rec[call[p].artifact] = Null /\ call[p].artifact \in Artifacts
        /\ call[p].copy \in Records
    BY <1>3, <1>8 DEF Create, On, FreshOK, CallOK
  <2>2. CASE UNCHANGED tables
    BY <1>1, <2>2 DEF tables
  <2>3. ASSUME NEW c, Goes(p, c), CallOK(c, drawn), c.pc = "submit",
               Replace(call[p].artifact, call[p].copy), drawn' = drawn
        PROVE  \A a \in Artifacts : Moved(a)
    <3>1. call'[p] = c \/ call'[p] = Unwound(call[p])
      BY <2>3, CallMoves
    <3>2. Unwound(call[p]).pc # "create"
      BY <1>3, UnwoundOK, NoCallOK
    <3>3. call'[p].pc # "create"
      BY <2>3, <3>1, <3>2
    <3>4. \A b \in Artifacts : b # call[p].artifact => rec'[b] = rec[b]
      BY <2>1, <2>3 DEF Replace, TypeInv, TableTypes
    <3> QED BY <2>1, <3>3, <3>4 DEF Moved
  <2>4. \/ UNCHANGED tables
        \/ \E c : /\ Goes(p, c) /\ CallOK(c, drawn) /\ c.pc = "submit"
                  /\ Replace(call[p].artifact, call[p].copy) /\ drawn' = drawn
    BY <1>8, CreateMove
  <2> QED BY <2>2, <2>3, <2>4
<1>9. ASSUME NEW p \in Clients, Link(p) PROVE \A a \in Artifacts : Moved(a)
  <2>1. /\ call[p].pc = "link" /\ call[p].artifact \in Artifacts /\ call[p].copy \in Records
        /\ Suits(call[p].copy, call[p].artifact) /\ call[p].copy.state = "queued"
    BY <1>3, <1>9 DEF Link, On, CallOK, RequestOK
  <2>2. CASE UNCHANGED tables
    BY <1>1, <2>2 DEF tables
  <2>3. CASE /\ CanReplace(call[p].artifact, call[p].copy, "queued")
             /\ Replace(call[p].artifact, call[p].copy)
    BY <2>1, <2>3, ReplaceMoves DEF CanReplace, Suits
  <2> QED BY <1>9, <2>2, <2>3 DEF Link
<1>10. ASSUME NEW p \in Clients, Withdraw(p) PROVE \A a \in Artifacts : Moved(a)
  <2> DEFINE r == [call[p].copy EXCEPT !.state = "cancelled"]
  <2>1. /\ call[p].pc = "withdraw" /\ call[p].artifact \in Artifacts /\ call[p].copy \in Records
        /\ Suits(call[p].copy, call[p].artifact) /\ call[p].copy.state # "available"
    BY <1>3, <1>10 DEF Withdraw, On, CallOK, RequestOK
  <2>2. CASE UNCHANGED tables
    BY <1>1, <2>2 DEF tables
  <2>3. CASE CanReplace(call[p].artifact, r, call[p].copy.state) /\ Replace(call[p].artifact, r)
    <3>1. r \in Records /\ r.state = "cancelled" /\ r.upload = call[p].copy.upload
          /\ r.expectedRevision = call[p].copy.expectedRevision /\ call[p].copy.state \in RecordStates
      BY <2>1 DEF Records, RecordStates
    <3>2. rec[call[p].artifact] # Null /\ rec[call[p].artifact].state = call[p].copy.state
      BY <2>3 DEF CanReplace
    <3>3. Replace(call[p].artifact, r)
      BY <2>3
    <3> HIDE DEF r
    <3> QED BY <2>1, <3>1, <3>2, <3>3, ReplaceMoves DEF Suits, Onward, RecordStates
  <2> QED BY <1>10, <2>2, <2>3 DEF Withdraw
<1>11. ASSUME NEW p \in Clients, FinalizeContract(p) PROVE \A a \in Artifacts : Moved(a)
  <2>1. call[p].artifact \in Artifacts /\ call[p].copy \in Records /\ UNCHANGED <<files, history>>
    BY <1>3, <1>11 DEF FinalizeContract, On, CallOK
  <2>2. CASE UNCHANGED tables
    BY <1>1, <2>2 DEF tables
  <2>3. CASE /\ CanFinalize(call[p].artifact, call[p].copy.derivative)
             /\ Publish(call[p].artifact, [derivative |-> Null, text |-> call[p].copy.derivative])
    <3>1. [derivative |-> Null, text |-> call[p].copy.derivative] \in Directories
      <4>1. call[p].copy.derivative \in Contents /\ Null \in Contents
        BY <2>1 DEF Records, Contents
      <4> QED BY <4>1 DEF Directories
    <3> QED BY <2>1, <2>3, <3>1, PublishMoves DEF CanFinalize
  <2> QED BY <1>11, <2>2, <2>3 DEF FinalizeContract
<1>12. ASSUME NEW p \in Clients, CompleteCaseDeletion(p) PROVE \A a \in Artifacts : Moved(a)
  BY <1>12 DEF CompleteCaseDeletion, tables, Moved
<1> QED BY <1>1, <1>5, <1>6, <1>7, <1>8, <1>9, <1>10, <1>11, <1>12, RecordSteps DEF RecordStep

\* The workers.

\* A step of w goes on at r, on the job and the artifact it had.
Arrives(w, r) ==
  /\ To(w, r) /\ RunOK(r, leases')
  /\ Resting(r) \/ (~Resting(run[w]) /\ r.job = run[w].job /\ r.artifact = run[w].artifact)
  /\ Preparing(r) => Suits(r.copy, r.artifact)
  /\ r.pc = "wipe" /\ rec'[r.artifact] # Null => rec'[r.artifact].state \in {"failed", "cancelled"}
  /\ r.pc = "complete" /\ rec'[r.artifact] # Null => rec'[r.artifact].state \notin {"queued", "failed"}

LEMMA OffArrives ==
  ASSUME NEW w \in Workers, To(w, Off), leases' = leases
  PROVE  Arrives(w, Off)
<1>1. RunOK(Off, leases) /\ Resting(Off)
  BY OffOK
<1>2. Off.pc \in {"off", "claim"}
  BY <1>1 DEF Resting
<1> QED BY <1>1, <1>2 DEF Arrives, Preparing

LEMMA WorkArrives ==
  ASSUME TypeInv, LifeInv, NEW w \in Workers, Work(w)
  PROVE  Claim(w) \/ \E r : Arrives(w, r)
<1>1. /\ WorkerOK(run[w]) /\ RunOK(run[w], leases)
      /\ rec \in [Artifacts -> Records \cup {Null}] /\ Null \notin Records
  BY NullAssumption DEF LifeInv, TypeInv, TableTypes
<1>2. CASE ClaimNothing(w)
  BY <1>2, OffArrives DEF ClaimNothing, queue
<1>3. CASE Gate(w)
  <2>1. ~Resting(run[w]) /\ leases' = leases
    BY <1>3 DEF Gate, At, Resting, queue
  <2>2. PICK r : /\ To(w, r) /\ RunOK(r, leases) /\ Same(r, run[w])
                 /\ r.pc \in {"find", "read", "write", "commit", "fail", "mark"}
                 /\ r.pc = "mark" => Preparing(run[w])
                 /\ r.pc \in {"read", "write", "commit"} => Preparing(run[w])
    BY <1>3, GateMove
  <2>3. Preparing(r) => Preparing(run[w])
    BY <2>2 DEF Preparing
  <2> QED BY <1>1, <2>1, <2>2, <2>3 DEF Arrives, WorkerOK, Same
<1>4. CASE Renew(w)
  <2>1. ~Resting(run[w]) /\ leases' = leases /\ Preparing(run[w])
    BY <1>4 DEF Renew, At, Resting, queue, Preparing
  <2>2. PICK r : /\ To(w, r) /\ RunOK(r, leases) /\ Same(r, run[w])
                 /\ r.pc \in {"gate", "fail", "mark"}
    BY <1>4, RenewMove
  <2> QED BY <1>1, <2>1, <2>2 DEF Arrives, WorkerOK, Same
<1>5. CASE FindWork(w)
  <2>1. ~Resting(run[w]) /\ leases' = leases /\ rec' = rec
    BY <1>5 DEF FindWork, At, Resting, queue, tables
  <2>2. PICK r : /\ To(w, r) /\ RunOK(r, leases)
                 /\ r.job = run[w].job /\ r.lease = run[w].lease /\ r.artifact = run[w].artifact
                 /\ r.pc \in {"fail", "complete", "renew"}
                 /\ r.pc = "complete" => rec[run[w].artifact].state \in {"available", "requires_confirmation"}
                 /\ r.pc = "renew" => r.copy = rec[run[w].artifact]
    BY <1>5, FindWorkMove
  <2>3. Preparing(r) => Suits(r.copy, r.artifact)
    BY <2>2 DEF Preparing, Suits
  <2> QED BY <1>1, <2>1, <2>2, <2>3 DEF Arrives
<1>6. CASE ReadOriginal(w) \/ WriteDerivative(w)
  <2>1. ~Resting(run[w]) /\ leases' = leases /\ Preparing(run[w])
    BY <1>6 DEF ReadOriginal, WriteDerivative, At, Resting, queue, Preparing
  <2>2. PICK r : /\ To(w, r) /\ RunOK(r, leases) /\ Same(r, run[w]) /\ r.pc \in {"renew", "mark"}
    BY <1>6, ReadMove, WriteMove
  <2> QED BY <1>1, <2>1, <2>2 DEF Arrives, WorkerOK, Same
<1>7. CASE CommitCandidate(w)
  <2>1. ~Resting(run[w]) /\ leases' = leases /\ Preparing(run[w]) /\ run[w].artifact \in Artifacts
        /\ run[w].copy \in Records
    BY <1>1, <1>7 DEF CommitCandidate, At, Resting, queue, Preparing, RunOK
  <2>2. PICK r : /\ To(w, r) /\ RunOK(r, leases) /\ Same(r, run[w])
                 /\ \/ r.pc = "mark"
                    \/ /\ r.pc = "complete"
                       /\ \E c \in Records :
                            /\ c = [run[w].copy EXCEPT !.state = "requires_confirmation",
                                                       !.derivative = Prepared(w)]
                            /\ Replace(run[w].artifact, c)
    BY <1>7, CandidateMove, Zenon
  <2>3. r.pc = "complete" => rec'[run[w].artifact].state = "requires_confirmation"
    <3>1. ASSUME NEW c \in Records,
                 c = [run[w].copy EXCEPT !.state = "requires_confirmation", !.derivative = Prepared(w)],
                 Replace(run[w].artifact, c)
          PROVE  rec'[run[w].artifact].state = "requires_confirmation"
      <4>1. c.state = "requires_confirmation"
        BY <2>1, <3>1 DEF Records
      <4>2. rec'[run[w].artifact] = c
        BY <1>1, <2>1, <3>1 DEF Replace
      <4> QED BY <4>1, <4>2
    <3> QED BY <2>2, <3>1
  <2> QED BY <1>1, <2>1, <2>2, <2>3 DEF Arrives, WorkerOK, Same
<1>8. CASE CommitVideo(w)
  <2>1. ~Resting(run[w]) /\ leases' = leases /\ Preparing(run[w]) /\ run[w].artifact \in Artifacts
    BY <1>1, <1>8 DEF CommitVideo, At, Resting, queue, Preparing, RunOK
  <2>2. PICK r : /\ To(w, r) /\ RunOK(r, leases) /\ Same(r, run[w])
                 /\ \/ r.pc = "mark"
                    \/ /\ r.pc = "complete" /\ CanFinalize(run[w].artifact, Null)
                       /\ Publish(run[w].artifact, [derivative |-> Frames, text |-> Null])
    BY <1>8, VideoMove
  <2>3. r.pc = "complete" => rec'[run[w].artifact].state = "available"
    BY <1>1, <2>1, <2>2 DEF Publish, CanFinalize, Records
  <2> QED BY <1>1, <2>1, <2>2, <2>3 DEF Arrives, WorkerOK, Same
<1>9. CASE MarkFailed(w)
  <2>1. ~Resting(run[w]) /\ leases' = leases /\ Preparing(run[w]) /\ run[w].artifact \in Artifacts
        /\ run[w].copy \in Records
    BY <1>1, <1>9 DEF MarkFailed, At, Resting, queue, Preparing, RunOK
  <2>2. PICK r : /\ To(w, r) /\ RunOK(r, leases) /\ Same(r, run[w])
                 /\ \/ r.pc = "fail"
                    \/ /\ r.pc = "wipe"
                       /\ \E c \in Records : /\ c = [run[w].copy EXCEPT !.state = "failed"]
                                             /\ Replace(run[w].artifact, c)
    BY <1>9, MarkMove
  <2>3. r.pc = "wipe" => rec'[run[w].artifact].state = "failed"
    <3>1. ASSUME NEW c \in Records, c = [run[w].copy EXCEPT !.state = "failed"],
                 Replace(run[w].artifact, c)
          PROVE  rec'[run[w].artifact].state = "failed"
      <4>1. c.state = "failed"
        BY <2>1, <3>1 DEF Records
      <4>2. rec'[run[w].artifact] = c
        BY <1>1, <2>1, <3>1 DEF Replace
      <4> QED BY <4>1, <4>2
    <3> QED BY <2>2, <3>1
  <2> QED BY <1>1, <2>1, <2>2, <2>3 DEF Arrives, WorkerOK, Same
<1>10. CASE WipeFailed(w)
  <2>1. ~Resting(run[w]) /\ leases' = leases
    BY <1>10 DEF WipeFailed, At, Resting, queue
  <2>2. PICK r : /\ To(w, r) /\ RunOK(r, leases) /\ Same(r, run[w]) /\ r.pc = "fail"
    BY <1>10, WipeMove
  <2> QED BY <2>1, <2>2 DEF Arrives, Same, Preparing
<1>11. CASE Complete(w)
  <2>1. ~Resting(run[w]) /\ leases' = leases
    BY <1>11 DEF Complete, At, Resting
  <2>2. CASE To(w, Off)
    BY <2>1, <2>2, OffArrives
  <2>3. CASE \E r : /\ To(w, r) /\ RunOK(r, leases) /\ Same(r, run[w]) /\ r.pc = "fail"
    BY <2>1, <2>3 DEF Arrives, Same, Preparing
  <2> QED BY <1>11, <2>2, <2>3, CompleteMove
<1>12. CASE Fail(w)
  BY <1>12, OffArrives DEF Fail
<1> QED BY <1>2, <1>3, <1>4, <1>5, <1>6, <1>7, <1>8, <1>9, <1>10, <1>11, <1>12 DEF Work

\* A worker at r still suits the records after a step that creates or changes
\* them, r being a worker's state before the step or after.
LEMMA WorkerKept ==
  ASSUME TypeInv, LifeInv, \A a \in Artifacts : Moved(a), \A j \in Jobs : JobMoved(j),
         drawn \subseteq drawn', NEW w \in Workers, NEW r, RunOK(r, leases'),
         Resting(r) \/ (~Resting(run[w]) /\ r.job = run[w].job /\ r.artifact = run[w].artifact),
         Preparing(r) => Suits(r.copy, r.artifact),
         r.pc = "wipe" /\ rec'[r.artifact] # Null => rec'[r.artifact].state \in {"failed", "cancelled"},
         r.pc = "complete" /\ rec'[r.artifact] # Null
           => rec'[r.artifact].state \notin {"queued", "failed"},
         run'[w] = r
  PROVE  WorkerOK(run[w])'
<1>1. WorkerOK(run[w]) /\ RunOK(run[w], leases) /\ \A p \in Clients : FreshOK(p)
  BY DEF LifeInv, TypeInv
<1>2. CASE Resting(r)
  <2>1. r.artifact = Null /\ r.pc \in {"off", "claim"}
    BY <1>2 DEF RunOK, Resting
  <2> QED BY <1>2, <2>1 DEF WorkerOK, Preparing
<1>3. CASE ~Resting(r)
  <2>1. /\ ~Resting(run[w]) /\ r.job = run[w].job /\ r.artifact = run[w].artifact
        /\ r.job \in Jobs /\ r.artifact \in Artifacts
    BY <1>3 DEF RunOK
  <2>2. r.artifact \in drawn'
    BY <1>1, <2>1, ProcessingAssumption DEF WorkerOK
  <2>3. job'[r.job].state = "gone" \/ job'[r.job].artifact = r.artifact
    <3>1. job[r.job].state = "gone" \/ job[r.job].artifact = r.artifact
      BY <1>1, <2>1 DEF WorkerOK
    <3>2. job[r.job].state = "new" => job[r.job].artifact = Null
      BY <2>1 DEF TypeInv, QueueTypes, JobOK
    <3> QED BY <2>1, <3>1, <3>2, ProcessingAssumption DEF JobMoved
  <2>4. Preparing(r) => Suits(r.copy, r.artifact)'
    <3>1. ~\E p \in Clients : call[p].pc = "create" /\ call[p].artifact = r.artifact
      BY <1>1, <2>1 DEF FreshOK
    <3>2. Moved(r.artifact)
      BY <2>1
    <3>3. rec'[r.artifact] = rec[r.artifact] \/ rec'[r.artifact] = Null
          \/ (/\ rec[r.artifact] # Null /\ rec'[r.artifact].upload = rec[r.artifact].upload
              /\ rec'[r.artifact].expectedRevision = rec[r.artifact].expectedRevision)
      BY <3>1, <3>2 DEF Moved
    <3> QED BY <3>3 DEF Suits
  <2> QED BY <2>1, <2>2, <2>3, <2>4 DEF WorkerOK, Suits
<1> QED BY <1>2, <1>3

LEMMA DrawnGrows ==
  ASSUME [Next]_vars
  PROVE  drawn \subseteq drawn'
<1>1. ASSUME NEW w \in Workers, Work(w) \/ WorkerThrows(w) PROVE drawn' = drawn
  BY <1>1, ZenonT(60) DEF Work, WorkerThrows, Claim, ClaimNothing, Gate, FindWork, Renew, ReadOriginal,
              WriteDerivative, CommitCandidate, CommitVideo, MarkFailed, WipeFailed, Complete, Fail,
              history
<1>2. ASSUME NEW p \in Clients, Request(p) PROVE drawn \subseteq drawn'
  BY <1>2, Zenon DEF Request, Enqueue, Confirm, Cancel, FindByKey, Save, Create, Discard, Submit, Link,
              ConfirmAuthorize, ReadCandidate, WriteText, FinalizeContract, CancelJob, Withdraw,
              DeleteCase, PurgeJobs, DeleteFiles, CompleteCaseDeletion, RequestThrows, history
<1>3. CASE World
  BY <1>3 DEF World, ReserveImage, FinalizeImage, AbandonImage, RevokeSession, Crash,
              DeadLeaseRunsOut, Stall, LeaseRunsOut, ForgetJob, history
<1>4. CASE Pump \/ UNCHANGED vars
  BY <1>4 DEF Pump, history, vars
<1> QED BY <1>1, <1>2, <1>3, <1>4 DEF Next

\* A worker that does not move.
LEMMA WorkerStays ==
  ASSUME TypeInv, LifeInv, \A a \in Artifacts : Moved(a), \A j \in Jobs : JobMoved(j),
         drawn \subseteq drawn', leases' \in Nat, leases <= leases',
         NEW w \in Workers, run'[w] = run[w]
  PROVE  WorkerOK(run[w])'
<1>1. WorkerOK(run[w]) /\ RunOK(run[w], leases) /\ \A p \in Clients : FreshOK(p)
  BY DEF LifeInv, TypeInv
<1>2. RunOK(run[w], leases')
  BY <1>1 DEF RunOK, TypeInv, QueueTypes
<1>3. ASSUME ~Resting(run[w])
      PROVE  LET a == run[w].artifact
             IN  \/ rec'[a] = rec[a] \/ rec'[a] = Null
                 \/ /\ rec[a] # Null
                    /\ rec'[a].state = rec[a].state \/ <<rec[a].state, rec'[a].state>> \in Onward
  <2>1. ~\E p \in Clients : call[p].pc = "create" /\ call[p].artifact = run[w].artifact
    BY <1>1 DEF FreshOK
  <2>2. Moved(run[w].artifact)
    BY <1>1, <1>3 DEF RunOK
  <2> QED BY <2>1, <2>2 DEF Moved
<1>4. run[w].pc = "wipe" /\ rec'[run[w].artifact] # Null
        => rec'[run[w].artifact].state \in {"failed", "cancelled"}
  BY <1>1, <1>3 DEF WorkerOK, Resting, Onward
<1>5. run[w].pc = "complete" /\ rec'[run[w].artifact] # Null
        => rec'[run[w].artifact].state \notin {"queued", "failed"}
  BY <1>1, <1>3 DEF WorkerOK, Resting, Onward
<1>6. Preparing(run[w]) => Suits(run[w].copy, run[w].artifact)
  BY <1>1 DEF WorkerOK
<1> DEFINE r == run[w]
<1>7. /\ RunOK(r, leases') /\ (Preparing(r) => Suits(r.copy, r.artifact)) /\ run'[w] = r
      /\ Resting(r) \/ (~Resting(run[w]) /\ r.job = run[w].job /\ r.artifact = run[w].artifact)
      /\ r.pc = "wipe" /\ rec'[r.artifact] # Null => rec'[r.artifact].state \in {"failed", "cancelled"}
      /\ r.pc = "complete" /\ rec'[r.artifact] # Null
           => rec'[r.artifact].state \notin {"queued", "failed"}
  BY <1>2, <1>4, <1>5, <1>6
<1> QED BY <1>7, WorkerKept

LEMMA CaughtKept ==
  ASSUME TypeInv, LifeInv, \A a \in Artifacts : Moved(a), \A j \in Jobs : JobMoved(j),
         drawn \subseteq drawn', leases' \in Nat, leases <= leases',
         NEW w \in Workers, run'[w] = Caught(run[w]), run[w].pc # "off"
  PROVE  WorkerOK(run[w])' /\ RunMoved(w)
<1> DEFINE c == Caught(run[w])
<1>1. WorkerOK(run[w]) /\ RunOK(run[w], leases) /\ leases \in Nat
  BY DEF LifeInv, TypeInv, QueueTypes
<1>2. /\ RunOK(c, leases)
      /\ Resting(c) \/ (/\ ~Resting(run[w]) /\ c.pc \in {"fail", "mark"}
                        /\ c.pc = "mark" => Preparing(run[w])
                        /\ c.job = run[w].job /\ c.artifact = run[w].artifact /\ c.copy = run[w].copy)
  BY <1>1, CaughtOK
<1>3. run'[w] = c
  OBVIOUS
<1> HIDE DEF c
<1>4. RunOK(c, leases')
  BY <1>1, <1>2 DEF RunOK
<1>5. Preparing(c) => Suits(c.copy, c.artifact)
  BY <1>1, <1>2 DEF WorkerOK, Preparing, Resting
<1>6. c.pc \notin {"wipe", "complete"}
  BY <1>2 DEF Resting
<1>7. WorkerOK(run[w])'
  BY <1>2, <1>3, <1>4, <1>5, <1>6, WorkerKept
<1>8. c.artifact \in {run[w].artifact, Null}
  BY <1>2 DEF RunOK
<1> QED BY <1>3, <1>7, <1>8 DEF RunMoved

\* Workers know their records, and take over artifacts from jobs only.
LEMMA WorkersKept ==
  ASSUME TypeInv, LifeInv, [Next]_vars
  PROVE  \A w \in Workers : WorkerOK(run[w])' /\ RunMoved(w)
<1>1. (\A a \in Artifacts : Moved(a)) /\ (\A j \in Jobs : JobMoved(j))
  BY RecordsMove, JobsMove
<1>2. drawn \subseteq drawn' /\ leases' \in Nat /\ leases <= leases' /\ leases \in Nat /\ TypeInv'
  <2>1. leases' = leases \/ leases' = leases + 1
    BY JobSteps, Zenon DEF JobStep, queue, Claim, Complete, Fail, Submit, CancelJob, PurgeJobs,
                    LeaseRunsOut, ForgetJob
  <2>2. leases \in Nat
    BY DEF TypeInv, QueueTypes
  <2> QED BY <2>1, <2>2, DrawnGrows, NextTypes
<1>3. ASSUME NEW v \in Workers, run'[v] = run[v] PROVE WorkerOK(run[v])' /\ RunMoved(v)
  BY <1>1, <1>2, <1>3, WorkerStays DEF RunMoved
<1>4. ASSUME NEW v \in Workers, run'[v] \in RunState, Resting(run'[v]) PROVE WorkerOK(run[v])' /\ RunMoved(v)
  <2>1. RunOK(run'[v], leases')
    BY <1>2 DEF TypeInv
  <2>2. run'[v].artifact = Null /\ run'[v].pc \in {"off", "claim"}
    BY <1>4, <2>1 DEF RunOK, Resting
  <2> QED BY <2>2 DEF WorkerOK, RunMoved, Resting, Preparing
<1>5. ASSUME NEW w \in Workers, Work(w) \/ WorkerThrows(w)
      PROVE  \A v \in Workers : WorkerOK(run[v])' /\ RunMoved(v)
  <2>1. run[w].pc # "off"
    BY <1>5, Zenon DEF Work, WorkerThrows, At, Claim, ClaimNothing, Gate, FindWork, Renew, ReadOriginal,
              WriteDerivative, CommitCandidate, CommitVideo, MarkFailed, WipeFailed, Complete, Fail
  <2>2. run \in [Workers -> RunState]
    BY DEF TypeInv
  <2>3. CASE WorkerThrows(w)
    <3>1. run'[w] = Caught(run[w]) /\ \A v \in Workers : v # w => run'[v] = run[v]
      BY <2>2, <2>3 DEF WorkerThrows
    <3> QED BY <1>1, <1>2, <1>3, <2>1, <3>1, CaughtKept
  <2>4. ASSUME NEW r, Arrives(w, r) PROVE \A v \in Workers : WorkerOK(run[v])' /\ RunMoved(v)
    <3>1. /\ run'[w] = r \/ run'[w] = Caught(run[w])
          /\ \A v \in Workers : v # w => run'[v] = run[v]
      BY <1>2, <2>1, <2>4, WorkerMoves DEF Arrives
    <3>2. CASE run'[w] = r
      <4>1. WorkerOK(run[w])'
        BY <1>1, <1>2, <2>4, <3>2, WorkerKept DEF Arrives
      <4>2. r.artifact \in {run[w].artifact, Null}
        BY <2>4 DEF Arrives, RunOK
      <4> QED BY <1>3, <3>1, <3>2, <4>1, <4>2 DEF RunMoved
    <3>3. CASE run'[w] = Caught(run[w])
      BY <1>1, <1>2, <1>3, <2>1, <3>1, <3>3, CaughtKept
    <3> QED BY <3>1, <3>2, <3>3
  <2>5. CASE Claim(w)
    <3>1. PICK j, r : /\ j \in Jobs /\ job[j].artifact \in Artifacts
                      /\ job'[j].artifact = job[j].artifact
                      /\ leases' = leases + 1
                      /\ To(w, r) /\ RunOK(r, leases + 1)
                      /\ r.pc = "gate" /\ r.stage = 0 /\ r.job = j /\ r.artifact = job[j].artifact
      BY <2>5, ClaimMove
    <3>2. /\ run'[w] = r \/ run'[w] = Caught(run[w])
          /\ \A v \in Workers : v # w => run'[v] = run[v]
      BY <1>2, <2>1, <3>1, WorkerMoves
    <3>3. CASE run'[w] = r
      <4>1. job[j].artifact \in drawn
        BY <3>1, ProcessingAssumption DEF TypeInv, QueueTypes, JobOK
      <4>2. WorkerOK(run[w])'
        BY <1>2, <3>1, <3>3, <4>1 DEF WorkerOK, Preparing
      <4> QED BY <1>3, <3>1, <3>2, <3>3, <4>2 DEF RunMoved
    <3>4. CASE run'[w] = Caught(run[w])
      BY <1>1, <1>2, <1>3, <2>1, <3>2, <3>4, CaughtKept
    <3> QED BY <3>2, <3>3, <3>4
  <2> QED BY <1>5, <2>3, <2>4, <2>5, WorkArrives
<1>6. CASE Pump \/ Crash
  <2>1. \A v \in Workers : run'[v].pc \in {"off", "claim"}
    BY <1>6 DEF Pump, Crash, Off
  <2>2. \A v \in Workers : run'[v] \in RunState
    BY <1>2 DEF TypeInv
  <2> QED BY <1>4, <2>1, <2>2 DEF Resting
<1>7. CASE run' = run
  BY <1>3, <1>7
<1>8. (\E w \in Workers : Work(w) \/ WorkerThrows(w)) \/ Pump \/ Crash \/ run' = run
  <2>1. ASSUME NEW p \in Clients, Request(p) PROVE run' = run
    BY <2>1, Zenon DEF Request, Enqueue, Confirm, Cancel, FindByKey, Save, Create, Discard, Submit, Link,
              ConfirmAuthorize, ReadCandidate, WriteText, FinalizeContract, CancelJob, Withdraw,
              DeleteCase, PurgeJobs, DeleteFiles, CompleteCaseDeletion, RequestThrows
  <2>2. CASE World
    BY <2>2 DEF World, ReserveImage, FinalizeImage, AbandonImage, RevokeSession,
              DeadLeaseRunsOut, Stall, LeaseRunsOut, ForgetJob
  <2> QED BY <2>1, <2>2 DEF Next, vars
<1> QED BY <1>5, <1>6, <1>7, <1>8

\* The case.

LEMMA StatusMoves ==
  ASSUME TypeInv, [Next]_vars
  PROVE  \/ rentalCase'.status = rentalCase.status
         \/ /\ rentalCase.status = "open" /\ rentalCase'.status = "deleting"
            /\ \E p \in Clients : DeleteCase(p)
         \/ /\ rentalCase.status = "deleting" /\ rentalCase'.status = "gone"
            /\ \E p \in Clients : CompleteCaseDeletion(p)
<1>1. rentalCase \in [status : {"open", "deleting", "gone"}, revision : Nat]
  BY DEF TypeInv, TableTypes
<1>2. ASSUME NEW a, NEW d, Publish(a, d) PROVE rentalCase'.status = rentalCase.status
  BY <1>1, <1>2 DEF Publish
<1>3. ASSUME NEW a, NEW d, Replace(a, d) PROVE rentalCase'.status = rentalCase.status
  BY <1>3 DEF Replace
<1>4. ASSUME NEW w \in Workers, Work(w) \/ WorkerThrows(w) PROVE rentalCase'.status = rentalCase.status
  <2>1. CASE CommitCandidate(w) \/ CommitVideo(w) \/ MarkFailed(w)
    BY <1>2, <1>3, <2>1, Zenon DEF CommitCandidate, CommitVideo, MarkFailed, tables
  <2> QED BY <1>4, <2>1, Zenon DEF Work, WorkerThrows, Claim, ClaimNothing, Gate, FindWork, Renew,
              ReadOriginal, WriteDerivative, WipeFailed, Complete, Fail, tables
<1>5. ASSUME NEW p \in Clients, Request(p)
      PROVE  DeleteCase(p) \/ CompleteCaseDeletion(p) \/ rentalCase'.status = rentalCase.status
  <2>1. CASE Create(p) \/ Link(p) \/ FinalizeContract(p) \/ Withdraw(p)
    BY <1>2, <1>3, <2>1 DEF Create, Link, FinalizeContract, Withdraw, tables
  <2> QED BY <1>5, <2>1, Zenon DEF Request, Enqueue, Confirm, Cancel, FindByKey, Save, Discard, Submit,
              ConfirmAuthorize, ReadCandidate, WriteText, CancelJob,
              PurgeJobs, DeleteFiles, RequestThrows, tables
<1>6. ASSUME NEW p \in Clients, DeleteCase(p)
      PROVE  rentalCase'.status = rentalCase.status
             \/ (rentalCase.status = "open" /\ rentalCase'.status = "deleting")
  BY <1>1, <1>6 DEF DeleteCase, Open
<1>7. ASSUME NEW p \in Clients, CompleteCaseDeletion(p)
      PROVE  rentalCase'.status = rentalCase.status
             \/ (rentalCase.status = "deleting" /\ rentalCase'.status = "gone")
  BY <1>1, <1>7 DEF CompleteCaseDeletion, tables
<1>8. CASE World
  BY <1>1, <1>8 DEF World, ReserveImage, FinalizeImage, AbandonImage, RevokeSession, Crash,
              DeadLeaseRunsOut, Stall, LeaseRunsOut, ForgetJob, tables
<1>9. CASE Pump \/ UNCHANGED vars
  BY <1>9 DEF Pump, tables, vars
<1> QED BY <1>4, <1>5, <1>6, <1>7, <1>8, <1>9 DEF Next

\* The requests.

\* A step of p goes on at c.
Proceeds(p, c) ==
  /\ Goes(p, c) /\ CallOK(c, drawn')
  /\ \/ c.artifact \in {call[p].artifact, Null}
     \/ c.artifact \in Artifacts /\ rec[c.artifact] # Null
     \/ c.artifact \notin drawn
  /\ c.pc = "save" => c.artifact \in Artifacts \ drawn /\ UNCHANGED <<rec, job, run>>
  /\ c.pc = "create" => call[p].pc = "save" /\ c.artifact = call[p].artifact
  /\ RequestOK(c)'

LEMMA EndsProceeds ==
  ASSUME NEW p \in Clients, Ends(p)
  PROVE  Proceeds(p, NoCall)
<1>1. CallOK(NoCall, drawn)
  BY NoCallOK
<1>2. CallOK(NoCall, drawn')
  BY DEF CallOK, NoCall, CallState, ClientPcs
<1>3. RequestOK(NoCall)'
  BY DEF RequestOK, NoCall
<1> QED BY <1>2, <1>3 DEF Proceeds, Ends, NoCall

LEMMA RequestProceeds ==
  ASSUME TypeInv, LifeInv, NEW p \in Clients, Request(p), ~RequestThrows(p)
  PROVE  \E c : Proceeds(p, c)
<1>1. /\ CallOK(call[p], drawn) /\ RequestOK(call[p]) /\ rec \in [Artifacts -> Records \cup {Null}]
      /\ Null \notin Records /\ drawn \subseteq Artifacts
  BY NullAssumption DEF TypeInv, LifeInv, TableTypes
<1>2. ASSUME Ends(p) PROVE \E c : Proceeds(p, c)
  BY <1>2, EndsProceeds
<1>3. ASSUME NEW u \in Uploads, Enqueue(p, u) PROVE \E c : Proceeds(p, c)
  <2>1. PICK c : /\ Goes(p, c) /\ CallOK(c, drawn) /\ c.pc = "findByKey" /\ c.artifact = Null
                 /\ UNCHANGED history
    BY <1>3, EnqueueMove
  <2>2. RequestOK(c)'
    BY <2>1 DEF RequestOK
  <2> QED BY <2>1, <2>2 DEF Proceeds, history
<1>4. CASE FindByKey(p)
  <2>1. PICK c : /\ Goes(p, c) /\ CallOK(c, drawn')
                 /\ UNCHANGED <<tables, queue, run>>
                 /\ \/ c = NoCall
                    \/ /\ c.pc = "submit" /\ c.artifact \in Artifacts
                       /\ rec[c.artifact] # Null /\ c.copy = rec[c.artifact]
                    \/ c.pc = "save" /\ c.artifact \in Artifacts \ drawn
    BY <1>4, FindByKeyMove
  <2>2. UNCHANGED <<rec, job, run>>
    BY <2>1 DEF tables, queue
  <2>3. CASE c = NoCall
    BY <1>2, <2>1, <2>3 DEF Ends
  <2>4. CASE /\ c.pc = "submit" /\ c.artifact \in Artifacts
             /\ rec[c.artifact] # Null /\ c.copy = rec[c.artifact]
    <3>1. RequestOK(c)'
      BY <2>2, <2>4 DEF RequestOK, Suits
    <3> QED BY <2>1, <2>4, <3>1 DEF Proceeds
  <2>5. CASE c.pc = "save" /\ c.artifact \in Artifacts \ drawn
    <3>1. RequestOK(c)'
      BY <2>5 DEF RequestOK
    <3> QED BY <2>1, <2>2, <2>5, <3>1 DEF Proceeds
  <2> QED BY <2>1, <2>3, <2>4, <2>5
<1>5. CASE Save(p)
  <2>0. PICK c : c = [call[p] EXCEPT !.pc = "create"]
    OBVIOUS
  <2>1. /\ call[p].pc = "save" /\ call[p].artifact \in Artifacts /\ call[p].artifact \in drawn
        /\ call[p].copy \in Records /\ call[p].copy.state = "queued" /\ drawn' = drawn
    BY <1>1, <1>5 DEF Save, On, CallOK, history
  <2>2. CallOK(c, drawn) /\ c.pc = "create" /\ c.artifact = call[p].artifact
    BY <1>1, <2>0, <2>1, NextCallOK, ZenonT(60)
  <2>3. Goes(p, c)
    BY <1>5, <2>0 DEF Save
  <2>4. RequestOK(c)'
    BY <2>2 DEF RequestOK
  <2> QED BY <2>1, <2>2, <2>3, <2>4 DEF Proceeds
<1>6. CASE Create(p)
  <2>1. /\ call[p].artifact \in Artifacts /\ call[p].copy \in Records /\ drawn' = drawn
    BY <1>1, <1>6 DEF Create, On, CallOK
  <2>2. PICK c : /\ Goes(p, c) /\ CallOK(c, drawn) /\ c.artifact = call[p].artifact
                 /\ c.copy = call[p].copy
                 /\ \/ c.pc = "submit" /\ Replace(call[p].artifact, call[p].copy)
                    \/ c.pc = "discard"
    BY <1>6, CreateMove
  <2>3. RequestOK(c)'
    <3>1. CASE c.pc = "submit" /\ Replace(call[p].artifact, call[p].copy)
      <4>1. rec'[c.artifact] = c.copy
        BY <1>1, <2>1, <2>2, <3>1 DEF Replace
      <4> QED BY <3>1, <4>1 DEF RequestOK, Suits
    <3>2. CASE c.pc = "discard"
      BY <3>2 DEF RequestOK
    <3> QED BY <2>2, <3>1, <3>2
  <2> QED BY <2>1, <2>2, <2>3 DEF Proceeds
<1>7. CASE Discard(p) \/ Link(p) \/ FinalizeContract(p) \/ CompleteCaseDeletion(p)
  BY <1>2, <1>7 DEF Discard, Link, FinalizeContract, CompleteCaseDeletion
<1>8. CASE Submit(p)
  <2>1. PICK c, j : /\ Goes(p, c) /\ CallOK(c, drawn) /\ c.pc = "link" /\ c.artifact = call[p].artifact
                    /\ c.copy.upload = call[p].copy.upload
                    /\ c.copy.expectedRevision = call[p].copy.expectedRevision
                    /\ call[p].pc = "submit" /\ UNCHANGED <<tables, history>>
    BY <1>8, SubmitMove
  <2>2. RequestOK(c)'
    BY <1>1, <2>1 DEF RequestOK, Suits, tables
  <2> QED BY <2>1, <2>2 DEF Proceeds, history
<1>9. ASSUME NEW a \in Artifacts, Confirm(p, a) PROVE \E c : Proceeds(p, c)
  <2>0. PICK c : c = [pc |-> "authorize", artifact |-> a, copy |-> rec[a]]
    OBVIOUS
  <2>1. CallOK(c, drawn) /\ Goes(p, c) /\ UNCHANGED <<tables, history>> /\ rec[a] # Null
        /\ rec[a].state = "requires_confirmation"
    BY <1>9, <2>0, CopyOK DEF Confirm
  <2>2. c.pc = "authorize" /\ c.artifact = a /\ c.copy = rec[a]
    BY <2>0
  <2>3. RequestOK(c)'
    BY <2>1, <2>2 DEF RequestOK, Suits, tables
  <2> QED BY <2>1, <2>2, <2>3 DEF Proceeds, history
<1>10. ASSUME NEW a \in Artifacts, Cancel(p, a) PROVE \E c : Proceeds(p, c)
  <2>1. PICK pc \in {"withdraw", "dequeue"} :
          /\ Goes(p, [pc |-> pc, artifact |-> a, copy |-> rec[a]])
          /\ pc = "withdraw" <=> rec[a].jobId = Null
    BY <1>10 DEF Cancel
  <2>0. PICK c : c = [pc |-> pc, artifact |-> a, copy |-> rec[a]]
    OBVIOUS
  <2>2. CallOK(c, drawn) /\ Goes(p, c) /\ UNCHANGED <<tables, history>> /\ rec[a] # Null
    BY <1>10, <2>0, <2>1, CopyOK DEF Cancel
  <2>3. c.pc = pc /\ c.artifact = a /\ c.copy = rec[a]
    BY <2>0
  <2>4. RequestOK(c)'
    BY <2>2, <2>3 DEF RequestOK, Suits, tables
  <2> QED BY <2>1, <2>2, <2>3, <2>4 DEF Proceeds, history
<1>11. ASSUME NEW pc \in {"candidate", "text", "finalize", "withdraw"},
              Goes(p, [call[p] EXCEPT !.pc = pc]), UNCHANGED <<tables, history>>,
              IF pc = "withdraw" THEN call[p].pc = "dequeue"
                ELSE call[p].pc \in {"authorize", "candidate", "text"}
       PROVE  \E c : Proceeds(p, c)
  <2>0. PICK c : c = [call[p] EXCEPT !.pc = pc]
    OBVIOUS
  <2>1. /\ call[p].artifact \in Artifacts /\ call[p].artifact \in drawn /\ call[p].copy \in Records
        /\ drawn' = drawn /\ call[p].pc \in {"authorize", "candidate", "text", "dequeue"}
        /\ pc = "withdraw" => call[p].copy.state # "available"
        /\ pc \in {"candidate", "text", "finalize"} => call[p].copy.state = "requires_confirmation"
    BY <1>1, <1>11 DEF CallOK, history
  <2>2. CallOK(c, drawn) /\ c.pc = pc /\ c.artifact = call[p].artifact /\ c.copy = call[p].copy
    <3>1. c \in CallState /\ c.pc = pc /\ c.artifact = call[p].artifact /\ c.copy = call[p].copy
      <4>1. call[p] \in CallState /\ pc \in ClientPcs
        BY <1>1 DEF CallOK, ClientPcs
      <4> QED BY <2>0, <4>1 DEF CallState
    <3> QED BY <2>1, <3>1 DEF CallOK
  <2>3. Goes(p, c)
    BY <1>11, <2>0
  <2>4. RequestOK(c)'
    BY <1>1, <1>11, <2>1, <2>2 DEF RequestOK, Suits, tables
  <2> QED BY <2>1, <2>2, <2>3, <2>4 DEF Proceeds
<1>12. CASE ConfirmAuthorize(p)
  BY <1>2, <1>11, <1>12 DEF ConfirmAuthorize, On
<1>13. CASE ReadCandidate(p)
  BY <1>2, <1>11, <1>13 DEF ReadCandidate, On
<1>14. CASE WriteText(p)
  BY <1>2, <1>11, <1>14 DEF WriteText, On
<1>15. CASE CancelJob(p)
  BY <1>11, <1>15 DEF CancelJob, On
<1>16. CASE Withdraw(p)
  <2>0. PICK c : c = [call[p] EXCEPT !.pc = "discard"]
    OBVIOUS
  <2>1. /\ call[p].artifact \in Artifacts /\ call[p].artifact \in drawn /\ call[p].copy \in Records
        /\ drawn' = drawn
    BY <1>1, <1>16 DEF Withdraw, On, CallOK, history
  <2>2. CallOK(c, drawn) /\ c.pc = "discard" /\ c.artifact = call[p].artifact
    BY <1>1, <2>0, <2>1, NextCallOK, ZenonT(60)
  <2>3. Goes(p, c) \/ Ends(p)
    BY <1>16, <2>0 DEF Withdraw
  <2>4. RequestOK(c)'
    BY <2>2 DEF RequestOK
  <2> QED BY <1>2, <2>1, <2>2, <2>3, <2>4 DEF Proceeds
<1>17. ASSUME NEW pc \in {"purge", "deleteFiles", "completeDeletion"}, NEW o \in {NoCall, call[p]},
              o.artifact = Null, Goes(p, [o EXCEPT !.pc = pc]), ~Open', drawn' = drawn
       PROVE  \E c : Proceeds(p, c)
  <2>0. PICK c : c = [o EXCEPT !.pc = pc]
    OBVIOUS
  <2>1. o \in CallState
    BY <1>1, NoCallOK DEF CallOK
  <2>2. c \in CallState /\ c.pc = pc /\ c.artifact = Null
    BY <1>17, <2>0, <2>1 DEF CallState, ClientPcs
  <2>3. Goes(p, c)
    BY <1>17, <2>0
  <2>4. CallOK(c, drawn)
    BY <2>2 DEF CallOK
  <2>5. RequestOK(c)'
    BY <1>17, <2>2 DEF RequestOK
  <2> QED BY <1>17, <2>2, <2>3, <2>4, <2>5 DEF Proceeds
<1>18. CASE DeleteCase(p)
  <2>1. ~Open'
    BY <1>18 DEF DeleteCase, Open
  <2> QED BY <1>17, <1>18, <2>1, NoCallOK DEF DeleteCase, history
<1>19. CASE PurgeJobs(p) \/ DeleteFiles(p)
  <2>1. ~Open' /\ call[p].artifact = Null
    BY <1>1, <1>19 DEF PurgeJobs, DeleteFiles, On, RequestOK, CallOK, Open, tables
  <2> QED BY <1>17, <1>19, <2>1 DEF PurgeJobs, DeleteFiles, history
<1> QED BY <1>3, <1>4, <1>5, <1>6, <1>7, <1>8, <1>9, <1>10, <1>12, <1>13, <1>14, <1>15, <1>16,
           <1>18, <1>19 DEF Request

\* A request that does not move.
LEMMA RequestStays ==
  ASSUME TypeInv, LifeInv, \A a \in Artifacts : Moved(a), ~Open => ~Open',
         NEW q \in Clients, call'[q] = call[q]
  PROVE  RequestOK(call[q])'
<1>1. RequestOK(call[q]) /\ CallOK(call[q], drawn) /\ \A p \in Clients : FreshOK(p)
  BY DEF LifeInv, TypeInv
<1> DEFINE a == call[q].artifact
           about == {"submit", "link", "authorize", "candidate", "text", "finalize", "dequeue",
                     "withdraw"}
<1>2. ASSUME call[q].pc \in about
      PROVE  \/ rec'[a] = rec[a] \/ rec'[a] = Null
             \/ /\ rec[a] # Null /\ rec'[a].upload = rec[a].upload
                /\ rec'[a].expectedRevision = rec[a].expectedRevision
                /\ rec'[a].state = rec[a].state \/ <<rec[a].state, rec'[a].state>> \in Onward
                /\ rec[a].state # "queued" /\ rec'[a].state # "cancelled"
                     => rec'[a].derivative = rec[a].derivative
  <2>1. a \in Artifacts /\ ProcessingAssumption
    BY <1>1, <1>2, ProcessingAssumption DEF CallOK
  <2>2. ~\E p \in Clients : call[p].pc = "create" /\ call[p].artifact = a
    BY <1>1, <1>2 DEF FreshOK
  <2>3. Moved(a)
    BY <2>1
  <2> QED BY <2>2, <2>3 DEF Moved
<1>3. call[q].pc \in about => Suits(call[q].copy, a)'
  BY <1>1, <1>2 DEF RequestOK, Suits
<1>4. call[q].pc \in {"authorize", "candidate", "text", "finalize"} /\ rec'[a] # Null
        => /\ rec'[a].state # "queued"
           /\ rec'[a].state \in {"requires_confirmation", "available"}
                => rec'[a].derivative = call[q].copy.derivative
  <2>1. SUFFICES ASSUME call[q].pc \in {"authorize", "candidate", "text", "finalize"}, rec'[a] # Null
        PROVE  /\ rec'[a].state # "queued"
               /\ rec'[a].state \in {"requires_confirmation", "available"}
                    => rec'[a].derivative = call[q].copy.derivative
    OBVIOUS
  <2>2. CASE rec'[a] = rec[a]
    BY <1>1, <2>1, <2>2 DEF RequestOK
  <2>3. CASE rec'[a] # rec[a]
    <3>1. rec[a].state # "queued"
          /\ (rec[a].state \in {"requires_confirmation", "available"}
                => rec[a].derivative = call[q].copy.derivative)
      BY <1>1, <1>2, <2>1, <2>3 DEF RequestOK
    <3>2. /\ rec'[a].state = rec[a].state \/ <<rec[a].state, rec'[a].state>> \in Onward
          /\ rec'[a].state # "cancelled" => rec'[a].derivative = rec[a].derivative
      BY <1>2, <2>1, <2>3, <3>1
    <3> QED BY <3>1, <3>2 DEF Onward
  <2> QED BY <2>2, <2>3
<1>5. call[q].pc \in {"purge", "deleteFiles", "completeDeletion"} => ~Open'
  BY <1>1 DEF RequestOK
<1> QED BY <1>3, <1>4, <1>5 DEF RequestOK, Suits

\* Requests know their records, and new artifacts are drawn.
LEMMA RequestsKept ==
  ASSUME TypeInv, LifeInv, [Next]_vars
  PROVE  \A p \in Clients : RequestOK(call[p])' /\ CallMoved(p)
<1>1. (\A a \in Artifacts : Moved(a)) /\ (~Open => ~Open') /\ drawn \subseteq drawn' /\ TypeInv'
  BY RecordsMove, StatusMoves, DrawnGrows, NextTypes DEF Open
<1>2. ASSUME NEW q \in Clients, call'[q] = call[q] PROVE RequestOK(call[q])' /\ CallMoved(q)
  <2>1. RequestOK(call[q])'
    BY <1>1, <1>2, RequestStays
  <2> QED BY <1>2, <2>1 DEF CallMoved
<1>3. ASSUME NEW q \in Clients, call'[q] = NoCall PROVE RequestOK(call[q])' /\ CallMoved(q)
  BY <1>3, NoCallOK DEF RequestOK, CallMoved
<1>4. ASSUME NEW p \in Clients, call'[p] = Unwound(call[p]) PROVE RequestOK(call[p])' /\ CallMoved(p)
  <2>1. \/ Unwound(call[p]) = NoCall
        \/ /\ Unwound(call[p]).pc = "discard"
           /\ Unwound(call[p]).artifact = call[p].artifact
    BY UnwoundOK DEF TypeInv
  <2>2. CASE Unwound(call[p]) = NoCall
    BY <1>3, <1>4, <2>2
  <2>3. CASE call'[p].pc = "discard" /\ call'[p].artifact = call[p].artifact
    BY <2>3 DEF RequestOK, CallMoved
  <2> QED BY <1>4, <2>1, <2>2, <2>3
<1>5. ASSUME NEW p \in Clients, Request(p)
      PROVE  \A q \in Clients : RequestOK(call[q])' /\ CallMoved(q)
  <2>1. CASE RequestThrows(p)
    <3>1. call'[p] = Unwound(call[p]) /\ \A q \in Clients : q # p => call'[q] = call[q]
      BY <2>1 DEF RequestThrows, TypeInv
    <3> QED BY <1>2, <1>4, <3>1
  <2>2. ASSUME NEW c, Proceeds(p, c) PROVE \A q \in Clients : RequestOK(call[q])' /\ CallMoved(q)
    <3>1. /\ call'[p] = c \/ call'[p] = Unwound(call[p])
          /\ \A q \in Clients : q # p => call'[q] = call[q]
      BY <1>1, <2>2, CallMoves DEF Proceeds
    <3>2. CASE call'[p] = c
      <4>1. RequestOK(call[p])'
        BY <2>2, <3>2 DEF Proceeds, RequestOK, Suits
      <4>2. CallMoved(p)
        BY <2>2, <3>1, <3>2 DEF Proceeds, CallMoved
      <4> QED BY <1>2, <3>1, <4>1, <4>2
    <3>3. CASE call'[p] = Unwound(call[p])
      BY <1>2, <1>4, <3>1, <3>3
    <3> QED BY <3>1, <3>2, <3>3
  <2> QED BY <1>5, <2>1, <2>2, RequestProceeds
<1>6. CASE Crash
  <2>1. \A q \in Clients : call'[q] = NoCall
    BY <1>6 DEF Crash
  <2> QED BY <1>3, <2>1
<1>7. CASE call' = call
  BY <1>2, <1>7
<1>8. (\E p \in Clients : Request(p)) \/ Crash \/ call' = call
  <2>1. ASSUME NEW w \in Workers, Work(w) \/ WorkerThrows(w) PROVE call' = call
    BY <2>1, Zenon DEF Work, WorkerThrows, Claim, ClaimNothing, Gate, FindWork, Renew, ReadOriginal,
              WriteDerivative, CommitCandidate, CommitVideo, MarkFailed, WipeFailed, Complete, Fail
  <2>2. CASE World
    BY <2>2 DEF World, ReserveImage, FinalizeImage, AbandonImage, RevokeSession,
              DeadLeaseRunsOut, Stall, LeaseRunsOut, ForgetJob
  <2> QED BY <2>1, <2>2 DEF Next, Pump, vars
<1> QED BY <1>5, <1>6, <1>7, <1>8

\* An artifact that is being created stays with its request.
LEMMA FreshKept ==
  ASSUME TypeInv, LifeInv, [Next]_vars, NEW p \in Clients
  PROVE  FreshOK(p)'
<1>1. (\A a \in Artifacts : Moved(a)) /\ (\A j \in Jobs : JobMoved(j))
  BY RecordsMove, JobsMove
<1>2. (\A w \in Workers : RunMoved(w)) /\ (\A q \in Clients : CallMoved(q)) /\ TypeInv'
  BY WorkersKept, RequestsKept, NextTypes
<1>3. SUFFICES ASSUME call'[p].pc \in {"save", "create"} PROVE FreshOK(p)'
  BY DEF FreshOK
<1> DEFINE a == call'[p].artifact
<1>4. a \in Artifacts
  BY <1>2, <1>3 DEF TypeInv, CallOK
<1>5. CASE /\ a = call[p].artifact /\ call[p].pc \in {"save", "create"}
           /\ call'[p].pc = call[p].pc \/ call[p].pc = "save"
  <2>1. FreshOK(p) /\ CallOK(call[p], drawn)
    BY DEF LifeInv, TypeInv
  <2>2. rec[a] = Null /\ (\A j \in Jobs : job[j].artifact # a)
        /\ (\A w \in Workers : run[w].artifact # a)
        /\ (\A q \in Clients : q # p => call[q].artifact # a) /\ a \in drawn
    BY <1>5, <2>1 DEF FreshOK, CallOK
  <2>3. rec'[a] = Null
    BY <1>1, <1>4, <1>5, <2>2 DEF Moved
  <2>4. \A j \in Jobs : job'[j].artifact # a
    BY <1>1, <1>4, <1>5, <2>2, ProcessingAssumption DEF JobMoved
  <2>5. \A w \in Workers : run'[w].artifact # a
    BY <1>2, <1>4, <2>2, ProcessingAssumption DEF RunMoved
  <2>6. \A q \in Clients : q # p => call'[q].artifact # a
    BY <1>2, <1>4, <2>2, ProcessingAssumption DEF CallMoved
  <2> QED BY <2>3, <2>4, <2>5, <2>6 DEF FreshOK
<1>6. CASE /\ a \in Artifacts \ drawn /\ (\A q \in Clients : q # p => call'[q] = call[q])
           /\ UNCHANGED <<rec, job, run>>
  <2>1. rec[a] = Null
    BY <1>6 DEF TypeInv, TableTypes
  <2>2. \A j \in Jobs : job[j].artifact # a
    BY <1>6, ProcessingAssumption DEF TypeInv, QueueTypes, JobOK
  <2>3. \A w \in Workers : run[w].artifact # a
    BY <1>6, ProcessingAssumption DEF LifeInv, WorkerOK
  <2>4. \A q \in Clients : call[q].artifact # a
    <3>1. ASSUME NEW q \in Clients PROVE call[q].artifact # a
      <4>1. CallOK(call[q], drawn)
        BY DEF TypeInv
      <4> QED BY <1>6, <4>1, ProcessingAssumption DEF CallOK, CallState, ClientPcs
    <3> QED BY <3>1
  <2> QED BY <1>6, <2>1, <2>2, <2>3, <2>4 DEF FreshOK
<1> QED BY <1>2, <1>3, <1>5, <1>6 DEF CallMoved

\* A row that stays suits its record.
LEMMA RowStays ==
  ASSUME TypeInv, NEW a \in Artifacts, RowOK(a), Moved(a), row'[a] \in {row[a], Null}
  PROVE  RowOK(a)'
<1>1. SUFFICES ASSUME row'[a] # Null PROVE RowOK(a)'
  BY DEF RowOK
<1>2. row'[a] = row[a] /\ row[a] # Null /\ rec[a] # Null /\ rec[a].state = "available"
  BY <1>1 DEF RowOK
<1>3. \/ rec'[a] = rec[a]
      \/ /\ rec'[a] # Null /\ rec'[a].upload = rec[a].upload /\ rec'[a].state = "available"
         /\ rec'[a].derivative = rec[a].derivative
  BY <1>1, <1>2 DEF Moved, Onward
<1> QED BY <1>2, <1>3 DEF RowOK, IsVideo

LEMMA RowsKept ==
  ASSUME TypeInv, LifeInv, [Next]_vars
  PROVE  \A a \in Artifacts : RowOK(a)'
<1>1. \A a \in Artifacts : RowOK(a) /\ Moved(a)
  BY RecordsMove DEF LifeInv
<1>2. ASSUME \A a \in Artifacts : row'[a] \in {row[a], Null} PROVE \A a \in Artifacts : RowOK(a)'
  BY <1>1, <1>2, RowStays
<1>3. ASSUME NEW w \in Workers, CommitVideo(w) PROVE \A a \in Artifacts : RowOK(a)'
  <2>0. /\ run[w].artifact \in Artifacts /\ UNCHANGED <<files, history>> /\ IsVideo(run[w].copy)
        /\ Suits(run[w].copy, run[w].artifact)
    BY <1>3 DEF CommitVideo, At, TypeInv, LifeInv, RunOK, Resting, Preparing, WorkerOK
  <2>1. PICK a \in Artifacts : a = run[w].artifact
    BY <2>0
  <2> DEFINE d == [derivative |-> Frames, text |-> Null]
  <2>2. CASE UNCHANGED tables
    BY <1>2, <2>2 DEF tables
  <2>3. CASE CanFinalize(a, Null) /\ Publish(a, d)
    <3>1. d \in Directories /\ d.derivative = Frames /\ d.text = Null
      BY LeasesAreContents DEF Directories, Contents, Frames, TypeInv, QueueTypes
    <3>2. rec[a] # Null
      BY <2>3 DEF CanFinalize
    <3>3. Publish(a, d)
      BY <2>3
    <3> HIDE DEF d
    <3>4. /\ row'[a] = d /\ \A b \in Artifacts : b # a => row'[b] = row[b]
          /\ rec'[a] \in Records /\ rec'[a].state = "available" /\ rec'[a].upload = rec[a].upload
      BY <2>0, <2>1, <3>1, <3>2, <3>3, PublishOK
    <3>5. RowOK(a)'
      BY <2>0, <2>1, <3>1, <3>2, <3>4, NullAssumption DEF RowOK, Suits, IsVideo
    <3>6. \A b \in Artifacts : b # a => RowOK(b)'
      BY <1>1, <3>4, RowStays
    <3> QED BY <3>5, <3>6
  <2> QED BY <1>3, <2>1, <2>2, <2>3, VideoMove
<1>4. ASSUME NEW p \in Clients, FinalizeContract(p) PROVE \A a \in Artifacts : RowOK(a)'
  <2>0. /\ call[p].pc = "finalize" /\ call[p].artifact \in Artifacts
        /\ call[p].copy \in Records /\ RequestOK(call[p]) /\ UNCHANGED <<files, history>>
    BY <1>4 DEF FinalizeContract, On, TypeInv, LifeInv, CallOK
  <2>1. PICK a \in Artifacts : a = call[p].artifact
    BY <2>0
  <2> DEFINE d == [derivative |-> Null, text |-> call[p].copy.derivative]
  <2>2. CASE UNCHANGED tables
    BY <1>2, <2>2 DEF tables
  <2>3. CASE CanFinalize(a, call[p].copy.derivative) /\ Publish(a, d)
    <3>1. d \in Directories /\ d.derivative = Null /\ d.text = call[p].copy.derivative
      <4>1. call[p].copy.derivative \in Contents /\ Null \in Contents
        BY <2>0 DEF Records, Contents
      <4> QED BY <4>1 DEF Directories
    <3>2. rec[a] # Null /\ rec[a].derivative = call[p].copy.derivative
      BY <2>0, <2>1, <2>3 DEF CanFinalize, RequestOK
    <3>3. Publish(a, d)
      BY <2>3
    <3> HIDE DEF d
    <3>4. /\ row'[a] = d /\ \A b \in Artifacts : b # a => row'[b] = row[b]
          /\ rec'[a] \in Records /\ rec'[a].state = "available"
          /\ rec'[a].derivative = rec[a].derivative
      BY <2>0, <2>1, <3>1, <3>2, <3>3, PublishOK
    <3>5. RowOK(a)'
      BY <2>0, <2>1, <3>1, <3>2, <3>4, NullAssumption DEF RowOK
    <3>6. \A b \in Artifacts : b # a => RowOK(b)'
      BY <1>1, <3>4, RowStays
    <3> QED BY <3>5, <3>6
  <2> QED BY <1>4, <2>1, <2>2, <2>3 DEF FinalizeContract
<1>5. CASE \/ \E w \in Workers : CommitCandidate(w) \/ MarkFailed(w)
           \/ \E p \in Clients : Create(p) \/ Link(p) \/ Withdraw(p)
  <2>1. row' = row
    BY <1>5, Zenon DEF CommitCandidate, MarkFailed, Create, Link, Withdraw, Replace, tables
  <2> QED BY <1>2, <2>1
<1>6. CASE \E p \in Clients : CompleteCaseDeletion(p)
  <2>1. \A a \in Artifacts : row'[a] \in {row[a], Null}
    BY <1>6 DEF CompleteCaseDeletion, tables
  <2> QED BY <1>2, <2>1
<1>7. CASE UNCHANGED <<rec, row>>
  BY <1>2, <1>7
<1> QED BY <1>3, <1>4, <1>5, <1>6, <1>7, RecordSteps DEF RecordStep

LEMMA OneJobKept ==
  ASSUME TypeInv, LifeInv, [Next]_vars
  PROVE  OneJob'
<1>1. OneJob /\ job \in [Jobs -> JobRecords] /\ \A j \in Jobs : JobMoved(j)
  BY JobsMove DEF LifeInv, TypeInv, QueueTypes
<1>2. CASE \A j \in Jobs : job'[j].artifact \in {job[j].artifact, Null}
  BY <1>1, <1>2 DEF OneJob
<1>3. ASSUME NEW p \in Clients, Submit(p) PROVE OneJob'
  <2>1. PICK j : /\ j \in Jobs
                 /\ \/ job' = job
                    \/ /\ JobOf(call[p].artifact) = {} /\ job[j].state = "new"
                       /\ job' = [job EXCEPT ![j].artifact = call[p].artifact, ![j].state = "queued"]
    BY <1>3, SubmitMove, ZenonT(60)
  <2>2. CASE job' = job
    BY <1>1, <2>2 DEF OneJob
  <2>3. CASE /\ JobOf(call[p].artifact) = {} /\ job[j].state = "new"
             /\ job' = [job EXCEPT ![j].artifact = call[p].artifact, ![j].state = "queued"]
    <3>1. /\ \A i \in Jobs : i # j => job'[i] = job[i]
          /\ job'[j].artifact = call[p].artifact
      BY <1>1, <2>1, <2>3 DEF JobRecords
    <3>2. \A i \in Jobs : job[i].artifact = call[p].artifact => job[i].artifact = Null
      BY <2>3 DEF JobOf, TypeInv, QueueTypes, JobOK
    <3> QED BY <1>1, <2>1, <3>1, <3>2 DEF OneJob
  <2> QED BY <2>1, <2>2, <2>3
<1>4. (\E p \in Clients : Submit(p)) \/ \A j \in Jobs : job'[j].artifact \in {job[j].artifact, Null}
  <2>1. CASE UNCHANGED queue
    BY <2>1 DEF queue
  <2>2. ASSUME NEW w \in Workers, Claim(w) PROVE \A j \in Jobs : job'[j].artifact \in {job[j].artifact, Null}
    <3>1. PICK j \in Jobs : /\ job'[j].artifact = job[j].artifact
                            /\ \A i \in Jobs : i # j => job'[i] = job[i]
      BY <2>2, ClaimMove
    <3> QED BY <3>1
  <2>3. ASSUME NEW j \in Jobs, NEW s, Settle(j, s)
        PROVE  \A i \in Jobs : job'[i].artifact \in {job[i].artifact, Null}
    BY <1>1, <2>3 DEF Settle, JobRecords
  <2>4. ASSUME NEW gone, Drop(gone) PROVE \A i \in Jobs : job'[i].artifact \in {job[i].artifact, Null}
    BY <2>4 DEF Drop, NewJob
  <2>5. ASSUME NEW w \in Workers, Complete(w) \/ Fail(w)
        PROVE \A j \in Jobs : job'[j].artifact \in {job[j].artifact, Null}
    <3>1. run[w].job \in Jobs
      BY <2>5 DEF TypeInv, RunOK, Resting, Complete, Fail, At
    <3> QED BY <2>3, <2>5, <3>1 DEF Complete, Fail
  <2>6. ASSUME NEW p \in Clients, CancelJob(p)
        PROVE \A j \in Jobs : job'[j].artifact \in {job[j].artifact, Null}
    <3>1. call[p].copy.jobId \in Jobs
      BY <2>6 DEF TypeInv, CallOK, CancelJob, On
    <3> QED BY <2>3, <2>6, <3>1 DEF CancelJob
  <2>7. ASSUME NEW p \in Clients, PurgeJobs(p)
        PROVE \A j \in Jobs : job'[j].artifact \in {job[j].artifact, Null}
    BY <2>4, <2>7 DEF PurgeJobs
  <2>8. ASSUME NEW j \in Jobs, LeaseRunsOut(j) \/ ForgetJob(j)
        PROVE \A i \in Jobs : job'[i].artifact \in {job[i].artifact, Null}
    BY <2>3, <2>4, <2>8 DEF LeaseRunsOut, ForgetJob
  <2> QED BY <2>1, <2>2, <2>5, <2>6, <2>7, <2>8, JobSteps DEF JobStep
<1> QED BY <1>2, <1>3, <1>4

LEMMA SettledKept ==
  ASSUME TypeInv, LifeInv, [Next]_vars
  PROVE  SucceededMeansSettled'
<1> DEFINE Done(a) == rec[a] = Null \/ rec[a].state \notin {"queued", "failed"}
<1>1. SUFFICES ASSUME NEW j \in Jobs, job'[j].state = "succeeded" PROVE Done(job[j].artifact)'
  BY DEF SucceededMeansSettled
<1>2. /\ JobMoved(j) /\ JobOK(j) /\ (\A p \in Clients : FreshOK(p)) /\ SucceededMeansSettled
      /\ job \in [Jobs -> JobRecords]
  BY JobsMove DEF TypeInv, LifeInv, QueueTypes
<1>3. /\ job[j].state \in {"succeeded", "running"} /\ job[j].artifact \in Artifacts
      /\ rec[job[j].artifact] # Null => rec[job[j].artifact].state \notin {"queued", "failed"}
  <2>1. job[j].state \in {"succeeded", "running"} => job[j].artifact \in Artifacts
    BY <1>2 DEF JobOK, JobRecords
  <2>2. CASE job[j].state = "succeeded"
    BY <1>2, <2>1, <2>2 DEF SucceededMeansSettled
  <2>3. ASSUME NEW w \in Workers, run[w].pc = "complete", run[w].job = j, Holds(w)
        PROVE  /\ job[j].state = "running"
               /\ rec[job[j].artifact] # Null => rec[job[j].artifact].state \notin {"queued", "failed"}
    <3>1. WorkerOK(run[w]) /\ ~Resting(run[w]) /\ job[j].state = "running"
      BY <2>3 DEF LifeInv, Resting, Holds
    <3>2. run[w].artifact = job[j].artifact
      BY <2>3, <3>1 DEF WorkerOK
    <3> QED BY <2>3, <3>1, <3>2 DEF WorkerOK
  <2> QED BY <1>1, <1>2, <2>1, <2>2, <2>3 DEF JobMoved
<1>4. job'[j].artifact = job[j].artifact
  BY <1>1, <1>2, <1>3 DEF JobMoved
<1>5. Moved(job[j].artifact) /\ ~\E p \in Clients : call[p].pc = "create" /\ call[p].artifact = job[j].artifact
  BY <1>2, <1>3, RecordsMove DEF FreshOK
<1>6. rec'[job[j].artifact] = Null \/ rec'[job[j].artifact].state \notin {"queued", "failed"}
  BY <1>3, <1>5 DEF Moved, Onward
<1> QED BY <1>4, <1>6

-----------------------------------------------------------------------------
(* The theorems about records and jobs. *)

LEMMA LifeKept ==
  ASSUME TypeInv, LifeInv, [Next]_vars
  PROVE  LifeInv'
BY WorkersKept, RequestsKept, FreshKept, RowsKept, OneJobKept, SettledKept DEF LifeInv

LEMMA LifeAtStart ==
  ASSUME Init
  PROVE  LifeInv
<1>1. \A w \in Workers : WorkerOK(run[w])
  BY DEF Init, Off, WorkerOK, Resting, Preparing
<1>2. \A p \in Clients : RequestOK(call[p]) /\ FreshOK(p)
  BY DEF Init, NoCall, RequestOK, FreshOK
<1>3. \A a \in Artifacts : RowOK(a)
  BY DEF Init, RowOK
<1>4. OneJob /\ SucceededMeansSettled
  BY DEF Init, NewJob, OneJob, SucceededMeansSettled
<1> QED BY <1>1, <1>2, <1>3, <1>4 DEF LifeInv

\* Workers and requests hold true copies of the records they act on, a new
\* artifact is nobody else's, an artifact has one job, and what is published
\* is what its record says.
THEOREM LifeInvariant == Spec => []LifeInv
<1>1. TypeInv /\ LifeInv /\ [Next]_vars => LifeInv'
  BY LifeKept
<1> QED BY <1>1, LifeAtStart, ProcessingInvariant, PTL DEF Spec

\* A job is only recorded as succeeded when the owner has something to see.
THEOREM SucceededJobsAreSettled == Spec => []SucceededMeansSettled
<1>1. LifeInv => SucceededMeansSettled
  BY DEF LifeInv
<1> QED BY <1>1, LifeInvariant, PTL

\* No worker and no request revives a record that was cancelled, failed or
\* published, however old the copy of it that they act on.
THEOREM RecordsMoveOn == Spec => RecordsOnlyMoveOn
<1> DEFINE Step == \A a \in Artifacts : rec[a] # Null /\ rec'[a] # Null =>
                     \/ rec'[a].state = rec[a].state
                     \/ <<rec[a].state, rec'[a].state>> \in Onward
<1>1. TypeInv /\ LifeInv /\ [Next]_vars => Step
  <2>1. TypeInv /\ LifeInv /\ [Next]_vars => \A a \in Artifacts : Moved(a)
    BY RecordsMove
  <2> QED BY <2>1 DEF Moved
<1>2. TypeInv /\ LifeInv /\ [Next]_vars => [Step]_vars
  BY <1>1
<1> HIDE DEF Step
<1>3. Spec => [][Step]_vars
  BY <1>2, LifeInvariant, ProcessingInvariant, PTL DEF Spec
<1> QED BY <1>3 DEF RecordsOnlyMoveOn, Step

-----------------------------------------------------------------------------
(* Files that nobody needs any more. *)

\* A step of a worker or a request that does not throw goes on somewhere.
LEMMA WorkLeads ==
  ASSUME NEW w, Work(w)
  PROVE  \E r : To(w, r)
BY ZenonT(60) DEF Work, Claim, ClaimNothing, Gate, FindWork, Renew, ReadOriginal, WriteDerivative,
       CommitCandidate, CommitVideo, MarkFailed, WipeFailed, Complete, Fail

LEMMA RequestLeads ==
  ASSUME NEW p, Request(p), ~RequestThrows(p)
  PROVE  \E c : Goes(p, c)
BY Zenon DEF Request, Enqueue, Confirm, Cancel, FindByKey, Save, Create, Discard, Submit,
       Link, ConfirmAuthorize, ReadCandidate, WriteText, FinalizeContract, CancelJob, Withdraw,
       DeleteCase, PurgeJobs, DeleteFiles, CompleteCaseDeletion, Ends

\* One worker or one request moves at a time.
LEMMA OneMoves ==
  ASSUME TypeInv, [Next]_vars
  PROVE  \/ \E w \in Workers : /\ Work(w) \/ WorkerThrows(w)
                               /\ call' = call /\ \A v \in Workers : v # w => run'[v] = run[v]
         \/ \E p \in Clients : /\ Request(p)
                               /\ run' = run /\ \A q \in Clients : q # p => call'[q] = call[q]
         \/ Crash
         \/ Pump /\ call' = call
         \/ run' = run /\ call' = call
<1>1. run \in [Workers -> RunState] /\ call \in [Clients -> CallState]
  BY DEF TypeInv
<1>2. ASSUME NEW w \in Workers, NEW r, To(w, r) PROVE \A v \in Workers : v # w => run'[v] = run[v]
  BY <1>1, <1>2 DEF To
<1>3. ASSUME NEW p \in Clients, NEW c, Goes(p, c) PROVE \A q \in Clients : q # p => call'[q] = call[q]
  BY <1>1, <1>3 DEF Goes
<1>4. ASSUME NEW w \in Workers, Work(w) \/ WorkerThrows(w)
      PROVE  call' = call /\ \A v \in Workers : v # w => run'[v] = run[v]
  <2>1. CASE WorkerThrows(w)
    BY <1>1, <2>1 DEF WorkerThrows
  <2>2. CASE Work(w)
    <3>1. call' = call
      BY <2>2, Zenon DEF Work, Claim, ClaimNothing, Gate, FindWork, Renew, ReadOriginal, WriteDerivative,
                  CommitCandidate, CommitVideo, MarkFailed, WipeFailed, Complete, Fail
    <3>2. \E r : To(w, r)
      BY <2>2, WorkLeads
    <3> QED BY <1>2, <3>1, <3>2
  <2> QED BY <1>4, <2>1, <2>2
<1>5. ASSUME NEW p \in Clients, Request(p)
      PROVE  run' = run /\ \A q \in Clients : q # p => call'[q] = call[q]
  <2>1. CASE RequestThrows(p)
    BY <1>1, <2>1 DEF RequestThrows
  <2>2. CASE ~RequestThrows(p)
    <3>1. run' = run
      BY <1>5, <2>2, Zenon DEF Request, Enqueue, Confirm, Cancel, FindByKey, Save, Create, Discard, Submit,
              Link, ConfirmAuthorize, ReadCandidate, WriteText, FinalizeContract, CancelJob, Withdraw,
              DeleteCase, PurgeJobs, DeleteFiles, CompleteCaseDeletion, queue
    <3>2. \E c : Goes(p, c)
      BY <1>5, <2>2, RequestLeads
    <3> QED BY <1>3, <3>1, <3>2
  <2> QED BY <2>1, <2>2
<1>6. CASE World
  BY <1>6 DEF World, ReserveImage, FinalizeImage, AbandonImage, RevokeSession,
              DeadLeaseRunsOut, Stall, LeaseRunsOut, ForgetJob
<1>7. CASE Pump \/ UNCHANGED vars
  BY <1>7 DEF Pump, vars
<1> QED BY <1>4, <1>5, <1>6, <1>7 DEF Next

\* Nothing has crashed or failed.
Calm == crashes = 0 /\ faults = 0

LEMMA StaysCalm ==
  ASSUME TypeInv, [Next]_vars, Calm'
  PROVE  /\ Calm /\ ~Crash
         /\ \A w \in Workers : ~WorkerThrows(w)
         /\ \A p \in Clients : ~RequestThrows(p)
<1>1. crashes \in Nat /\ faults \in Nat
  BY DEF TypeInv, MishapTypes
<1>2. ~Crash /\ (\A w \in Workers : ~WorkerThrows(w)) /\ (\A p \in Clients : ~RequestThrows(p))
  BY <1>1 DEF Calm, Crash, WorkerThrows, RequestThrows
<1>3. crashes' = crashes /\ faults' \in {faults, faults + 1}
  <2>1. ASSUME NEW w \in Workers, NEW r, To(w, r) PROVE crashes' = crashes /\ faults' \in {faults, faults + 1}
    BY <2>1 DEF To, mishaps
  <2>2. ASSUME NEW p \in Clients, NEW c, Goes(p, c) PROVE crashes' = crashes /\ faults' \in {faults, faults + 1}
    BY <2>2 DEF Goes, mishaps
  <2>3. ASSUME NEW w \in Workers, Work(w) PROVE crashes' = crashes /\ faults' \in {faults, faults + 1}
    <3>1. \E r : To(w, r)
      BY <2>3, WorkLeads
    <3> QED BY <2>1, <3>1
  <2>4. ASSUME NEW p \in Clients, Request(p) PROVE crashes' = crashes /\ faults' \in {faults, faults + 1}
    <3>1. \E c : Goes(p, c)
      BY <1>2, <2>4, RequestLeads
    <3> QED BY <2>2, <3>1
  <2>5. CASE World
    BY <1>2, <2>5 DEF World, ReserveImage, FinalizeImage, AbandonImage, RevokeSession,
              DeadLeaseRunsOut, Stall, LeaseRunsOut, ForgetJob, mishaps
  <2>6. CASE Pump \/ UNCHANGED vars
    BY <2>6 DEF Pump, vars, mishaps
  <2> QED BY <1>2, <2>3, <2>4, <2>5, <2>6 DEF Next
<1> QED BY <1>1, <1>2, <1>3 DEF Calm

LEMMA CalmSteps ==
  ASSUME TypeInv, Calm'
  PROVE  /\ \A w \in Workers : \A r : To(w, r) => run'[w] = r
         /\ \A p \in Clients : \A c : Goes(p, c) => call'[p] = c
<1>1. /\ faults \in Nat /\ run \in [Workers -> RunState] /\ call \in [Clients -> CallState]
      /\ faults' = 0
  BY DEF TypeInv, MishapTypes, Calm
<1>2. ASSUME NEW w \in Workers, NEW r, To(w, r) PROVE run'[w] = r
  BY <1>1, <1>2 DEF To
<1>3. ASSUME NEW p \in Clients, NEW c, Goes(p, c) PROVE call'[p] = c
  BY <1>1, <1>3 DEF Goes
<1> QED BY <1>2, <1>3

\* The files.

FileStep ==
  \/ \E w \in Workers : WriteDerivative(w) \/ WipeFailed(w)
  \/ \E p \in Clients : Save(p) \/ Discard(p) \/ WriteText(p) \/ DeleteFiles(p)

LEMMA FileSteps ==
  ASSUME [Next]_vars
  PROVE  FileStep \/ UNCHANGED files
<1>1. ASSUME NEW w \in Workers, Work(w) \/ WorkerThrows(w) PROVE FileStep \/ UNCHANGED files
  BY <1>1, ZenonT(60) DEF Work, WorkerThrows, FileStep, Claim, ClaimNothing, Gate, FindWork, Renew,
              ReadOriginal, CommitCandidate, CommitVideo, MarkFailed, Complete, Fail
<1>2. ASSUME NEW p \in Clients, Request(p) PROVE FileStep \/ UNCHANGED files
  BY <1>2, Zenon DEF Request, FileStep, Enqueue, Confirm, Cancel, FindByKey, Create, Submit, Link,
              ConfirmAuthorize, ReadCandidate, FinalizeContract, CancelJob, Withdraw, DeleteCase,
              PurgeJobs, CompleteCaseDeletion, RequestThrows
<1>3. CASE World
  BY <1>3 DEF World, ReserveImage, FinalizeImage, AbandonImage, RevokeSession, Crash,
              DeadLeaseRunsOut, Stall, LeaseRunsOut, ForgetJob
<1>4. CASE Pump
  BY <1>4 DEF Pump
<1>5. CASE UNCHANGED vars
  BY <1>5 DEF vars
<1> QED BY <1>1, <1>2, <1>3, <1>4, <1>5 DEF Next

\* Only a request that saves an upload makes a directory.
LEMMA DirectoriesAreSaved ==
  ASSUME TypeInv, [Next]_vars, NEW a \in Artifacts, files'[a] # Null
  PROVE  files[a] # Null \/ \E p \in Clients : Save(p) /\ call[p].artifact = a
<1>1. files \in [Artifacts -> Directories \cup {Null}]
  BY DEF TypeInv, TableTypes
<1>2. ASSUME NEW w \in Workers, WriteDerivative(w) PROVE files[a] # Null
  BY <1>1, <1>2 DEF WriteDerivative
<1>3. ASSUME NEW w \in Workers, WipeFailed(w) PROVE files[a] # Null
  BY <1>1, <1>3 DEF WipeFailed, RemoveFiles
<1>4. ASSUME NEW p \in Clients, Discard(p) \/ WriteText(p) \/ DeleteFiles(p) PROVE files[a] # Null
  BY <1>1, <1>4 DEF Discard, WriteText, DeleteFiles, RemoveFiles
<1>5. ASSUME NEW p \in Clients, Save(p)
      PROVE  files[a] # Null \/ call[p].artifact = a
  BY <1>1, <1>5 DEF Save
<1> QED BY <1>2, <1>3, <1>4, <1>5, FileSteps DEF FileStep

\* Who is to remove the files of an artifact does so, or creates its record.
LEMMA WipesNext ==
  ASSUME TypeInv, [Next]_vars, Calm', NEW w \in Workers, run[w].pc = "wipe"
  PROVE  run'[w] = run[w] \/ WipeFailed(w)
<1>1. ~Crash /\ \A v \in Workers : ~WorkerThrows(v)
  BY StaysCalm
<1>2. ASSUME Work(w) PROVE WipeFailed(w)
  BY <1>2 DEF Work, Claim, ClaimNothing, Gate, FindWork, Renew, ReadOriginal, WriteDerivative,
              CommitCandidate, CommitVideo, MarkFailed, Complete, Fail, At
<1>3. ~Pump
  BY DEF Pump, At
<1> QED BY <1>1, <1>2, <1>3, OneMoves

LEMMA DiscardsNext ==
  ASSUME TypeInv, [Next]_vars, Calm', NEW p \in Clients, call[p].pc \in {"create", "discard"}
  PROVE  call'[p] = call[p] \/ Create(p) \/ Discard(p)
<1>1. ~Crash /\ \A q \in Clients : ~RequestThrows(q)
  BY StaysCalm
<1>2. ASSUME Request(p) PROVE Create(p) \/ Discard(p)
  BY <1>1, <1>2, Zenon DEF Request, Enqueue, Confirm, Cancel, FindByKey, Save, Submit, Link,
              ConfirmAuthorize, ReadCandidate, WriteText, FinalizeContract, CancelJob, Withdraw,
              DeleteCase, PurgeJobs, DeleteFiles, CompleteCaseDeletion, On
<1> QED BY <1>1, <1>2, OneMoves

\* Once the case is being deleted, who holds files of an upload discards them.
LEMMA DiscardingKept ==
  ASSUME TypeInv, [Next]_vars, Calm', ~Open, NEW a \in Artifacts, Discarding(a), files'[a] # Null
  PROVE  Discarding(a)'
<1>1. PICK p \in Clients : call[p].artifact = a /\ call[p].pc \in {"create", "discard"}
  BY DEF Discarding
<1>2. CASE call'[p] = call[p]
  BY <1>1, <1>2 DEF Discarding
<1>3. CASE Create(p)
  <2>1. PICK c : Goes(p, c) /\ c.artifact = call[p].artifact /\ (c.pc = "discard" \/ CanCreate(call[p].copy))
    BY <1>3, CreateMove
  <2>2. call'[p] = c /\ c.pc = "discard"
    BY <2>1, CalmSteps DEF CanCreate, Authorized
  <2> QED BY <1>1, <2>1, <2>2 DEF Discarding
<1>4. CASE Discard(p)
  <2>1. files'[a] = Null
    BY <1>1, <1>4 DEF Discard, RemoveFiles, TypeInv, TableTypes
  <2> QED BY <2>1
<1> QED BY <1>1, <1>2, <1>3, <1>4, DiscardsNext

\* A record that still needs its files.
Needs(a) == rec[a] # Null /\ rec[a].state \in {"queued", "requires_confirmation", "available"}

\* A record stops needing them when a worker or a request that removes them
\* says so, or with the case.
LEMMA NeedEnds ==
  ASSUME TypeInv, LifeInv, [Next]_vars, NEW a \in Artifacts, Needs(a)
  PROVE  \/ Needs(a)'
         \/ \E w \in Workers : \E r :
              /\ run[w].artifact = a /\ MarkFailed(w)
              /\ To(w, r) /\ r.pc = "wipe" /\ r.artifact = a
         \/ \E p \in Clients : \E c :
              /\ call[p].artifact = a /\ Withdraw(p)
              /\ Goes(p, c) /\ c.pc = "discard" /\ c.artifact = a
         \/ \E p \in Clients : CompleteCaseDeletion(p) /\ rentalCase.status = "deleting"
<1> DEFINE Goal ==
             \/ Needs(a)'
             \/ \E w \in Workers : \E r :
                  /\ run[w].artifact = a /\ MarkFailed(w)
                  /\ To(w, r) /\ r.pc = "wipe" /\ r.artifact = a
             \/ \E p \in Clients : \E c :
                  /\ call[p].artifact = a /\ Withdraw(p)
                  /\ Goes(p, c) /\ c.pc = "discard" /\ c.artifact = a
             \/ \E p \in Clients : CompleteCaseDeletion(p) /\ rentalCase.status = "deleting"
<1>0. /\ rec \in [Artifacts -> Records \cup {Null}] /\ Null \notin Records
      /\ \A p \in Clients : CallOK(call[p], drawn) /\ FreshOK(p)
  BY NullAssumption DEF TypeInv, TableTypes, LifeInv
<1>1. ASSUME rec'[a] = rec[a] PROVE Goal
  BY <1>1 DEF Needs
<1>2. ASSUME NEW w \in Workers, CommitCandidate(w) PROVE Goal
  <2>1. run[w].copy \in Records /\ run[w].artifact \in Artifacts
    BY <1>2 DEF CommitCandidate, At, TypeInv, RunOK, Resting, Preparing
  <2>2. CASE UNCHANGED tables
    BY <1>1, <2>2 DEF tables
  <2>3. ASSUME NEW c \in Records,
               c = [run[w].copy EXCEPT !.state = "requires_confirmation", !.derivative = Prepared(w)],
               Replace(run[w].artifact, c)
        PROVE  Goal
    <3>1. c.state = "requires_confirmation"
      BY <2>1, <2>3 DEF Records
    <3>2. rec'[a] \in {rec[a], c}
      BY <1>0, <2>1, <2>3 DEF Replace
    <3> QED BY <1>0, <3>1, <3>2 DEF Needs
  <2> QED BY <1>2, <2>2, <2>3, CandidateMove, Zenon
<1>3. ASSUME NEW b \in Artifacts, NEW d \in Directories, Publish(b, d), rec[b] # Null,
             UNCHANGED <<files, history>>
      PROVE  Goal
  BY <1>0, <1>3, PublishOK DEF Needs
<1>4. ASSUME NEW w \in Workers, CommitVideo(w) PROVE Goal
  <2>1. [derivative |-> Frames, text |-> Null] \in Directories
    BY LeasesAreContents DEF Directories, Contents, Frames, TypeInv, QueueTypes
  <2>2. run[w].artifact \in Artifacts /\ UNCHANGED <<files, history>>
    BY <1>4 DEF CommitVideo, At, TypeInv, RunOK, Resting
  <2> QED BY <1>1, <1>3, <1>4, <2>1, <2>2, VideoMove DEF CanFinalize, tables
<1>5. ASSUME NEW w \in Workers, MarkFailed(w) PROVE Goal
  <2>1. run[w].artifact \in Artifacts
    BY <1>5 DEF MarkFailed, At, TypeInv, RunOK, Resting
  <2>2. PICK r : /\ To(w, r) /\ Same(r, run[w])
                 /\ \/ UNCHANGED tables
                    \/ r.pc = "wipe" /\ \E c \in Records : Replace(run[w].artifact, c)
    BY <1>5, MarkMove
  <2>3. CASE rec'[a] = rec[a]
    BY <1>1, <2>3
  <2>4. CASE rec'[a] # rec[a]
    <3>1. run[w].artifact = a /\ r.pc = "wipe"
      BY <1>0, <2>1, <2>2, <2>4 DEF Replace, tables
    <3> QED BY <1>5, <2>2, <3>1 DEF Same
  <2> QED BY <2>3, <2>4
<1>6. ASSUME NEW p \in Clients, Withdraw(p) PROVE Goal
  <2>0. PICK c : c = [call[p] EXCEPT !.pc = "discard"]
    OBVIOUS
  <2>1. call[p].artifact \in Artifacts /\ c.pc = "discard" /\ c.artifact = call[p].artifact
    BY <1>0, <1>6, <2>0, NextCallOK DEF Withdraw, On, CallOK
  <2>2. UNCHANGED tables
        \/ (Goes(p, c) /\ Replace(call[p].artifact, [call[p].copy EXCEPT !.state = "cancelled"]))
    BY <1>6, <2>0 DEF Withdraw
  <2>3. CASE rec'[a] = rec[a]
    BY <1>1, <2>3
  <2>4. CASE rec'[a] # rec[a]
    <3>1. call[p].artifact = a /\ Goes(p, c)
      BY <1>0, <2>1, <2>2, <2>4 DEF Replace, tables
    <3> QED BY <1>6, <2>1, <3>1
  <2> QED BY <2>3, <2>4
<1>7. ASSUME NEW p \in Clients, Create(p) \/ Link(p) PROVE Goal
  <2>1. /\ call[p].artifact \in Artifacts /\ call[p].copy \in Records
        /\ call[p].copy.state = "queued"
    BY <1>0, <1>7 DEF Create, Link, On, CallOK
  <2>2. UNCHANGED tables \/ Replace(call[p].artifact, call[p].copy)
    BY <1>7 DEF Create, Link, tables
  <2>3. rec'[a] \in {rec[a], call[p].copy}
    BY <1>0, <2>1, <2>2 DEF Replace, tables
  <2> QED BY <1>0, <2>1, <2>3 DEF Needs
<1>8. ASSUME NEW p \in Clients, FinalizeContract(p) PROVE Goal
  <2>1. call[p].artifact \in Artifacts /\ call[p].copy \in Records /\ UNCHANGED <<files, history>>
    BY <1>0, <1>8 DEF FinalizeContract, On, CallOK
  <2>2. [derivative |-> Null, text |-> call[p].copy.derivative] \in Directories
    <3>1. call[p].copy.derivative \in Contents /\ Null \in Contents
      BY <2>1 DEF Records, Contents
    <3> QED BY <3>1 DEF Directories
  <2> QED BY <1>1, <1>3, <1>8, <2>1, <2>2 DEF FinalizeContract, CanFinalize, tables
<1>9. ASSUME NEW p \in Clients, CompleteCaseDeletion(p) PROVE Goal
  BY <1>1, <1>9 DEF CompleteCaseDeletion, tables
<1>10. CASE UNCHANGED <<rec, row>>
  BY <1>1, <1>10
<1> QED BY <1>2, <1>4, <1>5, <1>6, <1>7, <1>8, <1>9, <1>10, RecordSteps DEF RecordStep

\* A request completes the deletion right after it has removed the files.
LEMMA CompletionFollowsFiles ==
  ASSUME TypeInv, NEW p \in Clients, Request(p), ~RequestThrows(p), Calm',
         call'[p].pc = "completeDeletion"
  PROVE  DeleteFiles(p)
<1>1. \A c : Goes(p, c) => c.pc = "completeDeletion"
  BY CalmSteps
<1>2. CallOK(call[p], drawn) /\ call[p] \in CallState /\ NoCall \in CallState /\ NoCall.pc = "idle"
  BY NoCallOK DEF TypeInv, CallOK
<1>3. \A c \in CallState, pc \in ClientPcs : [c EXCEPT !.pc = pc].pc = pc
  BY DEF CallState
<1>4. ~Ends(p)
  BY <1>1, <1>2 DEF Ends
<1>5. \A u \in Uploads : ~Enqueue(p, u)
  BY <1>1, EnqueueMove
<1>6. ~FindByKey(p) /\ ~Create(p) /\ ~Submit(p)
  BY <1>1, <1>2, FindByKeyMove, CreateMove, SubmitMove
<1>7. \A a \in Artifacts : ~Confirm(p, a) /\ ~Cancel(p, a)
  BY <1>1 DEF Confirm, Cancel
<1>8. ~Save(p) /\ ~ConfirmAuthorize(p) /\ ~ReadCandidate(p) /\ ~WriteText(p) /\ ~CancelJob(p)
  BY <1>1, <1>2, <1>3, <1>4, ZenonT(60)
  DEF Save, ConfirmAuthorize, ReadCandidate, WriteText, CancelJob, ClientPcs
<1>9. ~Withdraw(p) /\ ~DeleteCase(p) /\ ~PurgeJobs(p)
  BY <1>1, <1>2, <1>3, <1>4, ZenonT(60) DEF Withdraw, DeleteCase, PurgeJobs, ClientPcs
<1>10. ~Discard(p) /\ ~Link(p) /\ ~FinalizeContract(p) /\ ~CompleteCaseDeletion(p)
  BY <1>4 DEF Discard, Link, FinalizeContract, CompleteCaseDeletion
<1> QED BY <1>5, <1>6, <1>7, <1>8, <1>9, <1>10 DEF Request

LEMMA StrayKept ==
  ASSUME TypeInv, LifeInv, StrayInv, [Next]_vars
  PROVE  StrayInv'
<1> SUFFICES ASSUME Calm' PROVE StrayInv'
  BY DEF StrayInv, Calm
<1>1. /\ Calm /\ (\A p \in Clients : RequestOK(call[p])) /\ ~Crash
      /\ \A p \in Clients : ~RequestThrows(p)
  BY StaysCalm DEF LifeInv
<1> DEFINE Late == rentalCase.status = "gone" \/ \E p \in Clients : call[p].pc = "completeDeletion"
<1>2. /\ \A a \in Artifacts : files[a] # Null => Responsible(a) \/ Needs(a)
      /\ Late => \A a \in Artifacts : files[a] # Null => Discarding(a)
  BY <1>1 DEF StrayInv, NoStrayFiles, Calm, Needs
<1>3. Late => ~Open
  BY <1>1 DEF RequestOK, Open
<1>4. \A a \in Artifacts : Discarding(a)' => Responsible(a)'
  BY DEF Discarding, Responsible
<1>5. ASSUME NEW a \in Artifacts, NEW p \in Clients, Save(p), call[p].artifact = a PROVE Discarding(a)'
  <2>1. PICK c : c = [call[p] EXCEPT !.pc = "create"]
    OBVIOUS
  <2>2. c.pc = "create" /\ c.artifact = a
    BY <1>5, <2>1 DEF TypeInv, CallState
  <2>3. call'[p] = c
    BY <1>5, <2>1, CalmSteps DEF Save
  <2> QED BY <2>2, <2>3 DEF Discarding
<1>6. ASSUME NEW a \in Artifacts, files'[a] # Null, Late PROVE Discarding(a)'
  BY <1>2, <1>3, <1>5, <1>6, DiscardingKept, DirectoriesAreSaved
<1>7. ASSUME Late', NEW a \in Artifacts, files'[a] # Null PROVE Discarding(a)'
  <2>1. CASE Late
    BY <1>6, <1>7, <2>1
  <2>2. CASE ~Late
    <3>1. ASSUME rentalCase'.status = "gone" PROVE FALSE
      <4>1. PICK p \in Clients : CompleteCaseDeletion(p)
        BY <2>2, <3>1, StatusMoves
      <4> QED BY <2>2, <4>1 DEF CompleteCaseDeletion, On
    <3>2. ASSUME NEW p \in Clients, call'[p].pc = "completeDeletion" PROVE FALSE
      <4>1. call'[p] # call[p]
        BY <2>2, <3>2
      <4>2. Request(p)
        BY <1>1, <4>1, OneMoves
      <4>3. DeleteFiles(p)
        BY <1>1, <3>2, <4>2, CompletionFollowsFiles
      <4> QED BY <1>7, <4>3 DEF DeleteFiles
    <3> QED BY <1>7, <3>1, <3>2
  <2> QED BY <2>1, <2>2
<1>8. ASSUME NEW a \in Artifacts, files'[a] # Null PROVE Responsible(a)' \/ Needs(a)'
  <2>1. CASE \E p \in Clients : Save(p) /\ call[p].artifact = a
    BY <1>4, <1>5, <2>1
  <2>2. ASSUME NEW w \in Workers, run[w].artifact = a, At(w, "wipe") PROVE Responsible(a)'
    <3>1. CASE WipeFailed(w)
      BY <1>8, <2>2, <3>1 DEF WipeFailed, RemoveFiles, TypeInv, TableTypes
    <3>2. CASE run'[w] = run[w]
      BY <2>2, <3>2 DEF Responsible, At
    <3> QED BY <2>2, <3>1, <3>2, WipesNext DEF At
  <2>3. ASSUME NEW p \in Clients, call[p].artifact = a, call[p].pc \in {"create", "discard"}
        PROVE  Responsible(a)' \/ Needs(a)'
    <3>1. CASE call'[p] = call[p]
      BY <2>3, <3>1 DEF Responsible
    <3>2. CASE Create(p)
      <4>1. /\ call[p].copy \in Records /\ call[p].copy.state = "queued" /\ Null \notin Records
            /\ rec \in [Artifacts -> Records \cup {Null}]
        BY <3>2, NullAssumption DEF Create, On, TypeInv, CallOK, TableTypes
      <4>2. PICK c : /\ Goes(p, c) /\ c.artifact = a
                     /\ c.pc = "discard" \/ Replace(a, call[p].copy)
        BY <2>3, <3>2, CreateMove
      <4>3. CASE c.pc = "discard"
        BY <4>2, <4>3, CalmSteps DEF Responsible
      <4>4. CASE Replace(a, call[p].copy)
        <5>1. rec'[a] = call[p].copy
          BY <4>1, <4>4 DEF Replace
        <5> QED BY <4>1, <5>1 DEF Needs
      <4> QED BY <4>2, <4>3, <4>4
    <3>3. CASE Discard(p)
      BY <1>8, <2>3, <3>3 DEF Discard, RemoveFiles, TypeInv, TableTypes
    <3> QED BY <2>3, <3>1, <3>2, <3>3, DiscardsNext
  <2>4. CASE rentalCase.status = "deleting"
    <3>1. CASE rentalCase'.status = "deleting"
      BY <3>1 DEF Responsible
    <3>2. ASSUME NEW p \in Clients, CompleteCaseDeletion(p) PROVE Responsible(a)'
      <4>1. Late
        BY <3>2 DEF CompleteCaseDeletion, On
      <4> QED BY <1>4, <1>6, <1>8, <4>1
    <3> QED BY <2>4, <3>1, <3>2, StatusMoves
  <2>5. CASE Needs(a)
    <3>1. ASSUME NEW w \in Workers, NEW r, To(w, r), r.pc = "wipe", r.artifact = a PROVE Responsible(a)'
      <4>1. run'[w] = r
        BY <3>1, CalmSteps
      <4> QED BY <3>1, <4>1 DEF Responsible, At
    <3>2. ASSUME NEW p \in Clients, NEW c, Goes(p, c), c.pc = "discard", c.artifact = a
          PROVE  Responsible(a)'
      <4>1. call'[p] = c
        BY <3>2, CalmSteps
      <4> QED BY <3>2, <4>1 DEF Responsible
    <3>3. CASE rentalCase.status = "deleting"
      BY <2>4, <3>3
    <3> QED BY <2>5, <3>1, <3>2, <3>3, NeedEnds
  <2> QED BY <1>2, <1>8, <2>1, <2>2, <2>3, <2>4, <2>5, DirectoriesAreSaved DEF Responsible
<1>9. NoStrayFiles'
  BY <1>8 DEF NoStrayFiles, Needs
<1> QED BY <1>7, <1>9 DEF StrayInv

\* Unless the process crashes or a step throws, no private bytes are left
\* behind: whoever makes a record need its files no more removes them.
THEOREM FilesAreNotLeftBehind == Spec => []NoStrayFiles
<1>1. Init => StrayInv
  BY DEF Init, StrayInv, NoStrayFiles
<1>2. TypeInv /\ LifeInv /\ StrayInv /\ [Next]_vars => StrayInv'
  BY StrayKept
<1>3. StrayInv => NoStrayFiles
  BY DEF StrayInv, NoStrayFiles
<1> QED BY <1>1, <1>2, <1>3, LifeInvariant, ProcessingInvariant, PTL DEF Spec

-----------------------------------------------------------------------------
(* As long as no worker stalls, it is alone with its job. *)

\* Worker w is at r after its step, on the job, the lease and the copy it had;
\* it starts to prepare a record that is queued, and to publish what it has
\* written.
GoesOn(w, r) ==
  \/ Resting(r)
  \/ /\ ~Resting(run[w])
     /\ r.job = run[w].job /\ r.lease = run[w].lease /\ r.artifact = run[w].artifact
     /\ Preparing(run[w]) => r.copy = run[w].copy
     /\ Active(r) => Active(run[w]) \/ (FindWork(w) /\ rec[r.artifact].state = "queued")
     /\ Wrote(r) => \/ Wrote(run[w])
                    \/ /\ run[w].pc = "write" /\ files[run[w].artifact] # Null
                       /\ files' = [files EXCEPT ![run[w].artifact].derivative = Prepared(w)]

LEMMA WorkGoesOn ==
  ASSUME TypeInv, NEW w \in Workers, Work(w)
  PROVE  \/ Claim(w)
         \/ \E r : To(w, r) /\ RunOK(r, leases) /\ GoesOn(w, r)
<1>1. RunOK(run[w], leases)
  BY DEF TypeInv
<1>2. ASSUME NEW r, Same(r, run[w]), ~Resting(run[w]), r.pc \in {"mark", "fail", "complete"}
      PROVE  GoesOn(w, r)
  BY <1>2 DEF GoesOn, Same, Active, Wrote
<1>3. CASE ClaimNothing(w) \/ Fail(w)
  BY <1>3, OffOK DEF ClaimNothing, Fail, GoesOn
<1>4. CASE Gate(w)
  <2>1. ~Resting(run[w]) /\ run[w].pc = "gate"
    BY <1>4 DEF Gate, At, Resting
  <2>2. PICK r : /\ To(w, r) /\ RunOK(r, leases) /\ Same(r, run[w])
                 /\ r.pc \in {"find", "read", "write", "commit", "fail", "mark"}
                 /\ r.pc \in {"read", "write", "commit"} =>
                      r.stage = run[w].stage /\ Preparing(run[w])
    BY <1>4, GateMove
  <2>3. (Active(r) => Active(run[w])) /\ (Wrote(r) => Wrote(run[w]))
    BY <2>1, <2>2 DEF Active, Wrote, Preparing
  <2> QED BY <2>1, <2>2, <2>3 DEF GoesOn, Same
<1>5. CASE Renew(w)
  <2>1. ~Resting(run[w]) /\ run[w].pc = "renew"
    BY <1>5 DEF Renew, At, Resting
  <2>2. PICK r : /\ To(w, r) /\ RunOK(r, leases) /\ Same(r, run[w])
                 /\ r.pc \in {"gate", "fail", "mark"}
                 /\ r.pc = "gate" => r.stage = run[w].stage
    BY <1>5, RenewMove
  <2> QED BY <2>1, <2>2 DEF GoesOn, Same, Active, Wrote
<1>6. CASE FindWork(w)
  <2>1. ~Resting(run[w]) /\ ~Preparing(run[w])
    BY <1>6 DEF FindWork, At, Resting, Preparing
  <2>2. PICK r : /\ To(w, r) /\ RunOK(r, leases)
                 /\ r.job = run[w].job /\ r.lease = run[w].lease /\ r.artifact = run[w].artifact
                 /\ r.pc \in {"fail", "complete", "renew"}
                 /\ r.pc = "renew" => r.stage = 1 /\ r.copy = rec[run[w].artifact] /\ r.copy.state = "queued"
    BY <1>6, FindWorkMove
  <2> QED BY <1>6, <2>1, <2>2 DEF GoesOn, Active, Wrote
<1>7. CASE ReadOriginal(w)
  <2>1. ~Resting(run[w]) /\ run[w].pc = "read"
    BY <1>7 DEF ReadOriginal, At, Resting
  <2>2. PICK r : /\ To(w, r) /\ RunOK(r, leases) /\ Same(r, run[w])
                 /\ r.pc = "mark" \/ (r.pc = "renew" /\ r.stage = 2)
    BY <1>7, ReadMove
  <2> QED BY <2>1, <2>2 DEF GoesOn, Same, Active, Wrote
<1>8. CASE WriteDerivative(w)
  <2>1. ~Resting(run[w]) /\ run[w].pc = "write"
    BY <1>8 DEF WriteDerivative, At, Resting
  <2>2. PICK r : /\ To(w, r) /\ RunOK(r, leases) /\ Same(r, run[w])
                 /\ \/ r.pc = "mark"
                    \/ /\ r.pc = "renew" /\ r.stage = 3 /\ files[run[w].artifact] # Null
                       /\ files' = [files EXCEPT ![run[w].artifact].derivative = Prepared(w)]
    BY <1>8, WriteMove
  <2> QED BY <2>1, <2>2 DEF GoesOn, Same, Active, Wrote
<1>9. CASE CommitCandidate(w)
  <2>1. ~Resting(run[w])
    BY <1>9 DEF CommitCandidate, At, Resting
  <2>2. PICK r : /\ To(w, r) /\ RunOK(r, leases) /\ Same(r, run[w])
                 /\ \/ r.pc = "mark"
                    \/ /\ r.pc = "complete"
                       /\ \E c \in Records :
                            /\ c = [run[w].copy EXCEPT !.state = "requires_confirmation",
                                                       !.derivative = Prepared(w)]
                            /\ Replace(run[w].artifact, c)
    BY <1>9, CandidateMove, ZenonT(30)
  <2> QED BY <1>2, <2>1, <2>2
<1>10. CASE CommitVideo(w)
  <2>1. ~Resting(run[w])
    BY <1>10 DEF CommitVideo, At, Resting
  <2>2. PICK r : /\ To(w, r) /\ RunOK(r, leases) /\ Same(r, run[w]) /\ r.pc \in {"mark", "complete"}
    BY <1>10, VideoMove
  <2> QED BY <1>2, <2>1, <2>2
<1>11. CASE MarkFailed(w)
  <2>1. ~Resting(run[w])
    BY <1>11 DEF MarkFailed, At, Resting
  <2>2. PICK r : /\ To(w, r) /\ RunOK(r, leases) /\ Same(r, run[w]) /\ r.pc \in {"fail", "wipe"}
    BY <1>11, MarkMove
  <2> QED BY <2>1, <2>2 DEF GoesOn, Same, Active, Wrote
<1>12. CASE WipeFailed(w)
  <2>1. ~Resting(run[w])
    BY <1>12 DEF WipeFailed, At, Resting
  <2>2. PICK r : /\ To(w, r) /\ RunOK(r, leases) /\ Same(r, run[w]) /\ r.pc = "fail"
    BY <1>12, WipeMove
  <2> QED BY <1>2, <2>1, <2>2
<1>13. CASE Complete(w)
  <2>1. ~Resting(run[w])
    BY <1>13 DEF Complete, At, Resting
  <2>2. To(w, Off) \/ \E r : To(w, r) /\ RunOK(r, leases) /\ Same(r, run[w]) /\ r.pc = "fail"
    BY <1>13, CompleteMove
  <2> QED BY <1>2, <2>1, <2>2, OffOK DEF GoesOn
<1> QED BY <1>3, <1>4, <1>5, <1>6, <1>7, <1>8, <1>9, <1>10, <1>11, <1>12, <1>13 DEF Work

LEMMA WorkersGoOn ==
  ASSUME TypeInv, [Next]_vars, NEW w \in Workers
  PROVE  GoesOn(w, run'[w]) \/ (Claim(w) /\ ~Active(run'[w]) /\ ~Wrote(run'[w]))
<1>1. /\ RunOK(run[w], leases) /\ run \in [Workers -> RunState] /\ leases \in Nat
  BY DEF TypeInv, QueueTypes
<1>2. CASE run'[w] = run[w]
  BY <1>2 DEF GoesOn
<1>3. CASE run'[w] = Caught(run[w]) /\ run[w].pc # "off"
  <2>1. \/ Resting(run'[w])
        \/ /\ ~Resting(run[w]) /\ run'[w].pc \in {"fail", "mark"}
           /\ run'[w].job = run[w].job /\ run'[w].lease = run[w].lease
           /\ run'[w].artifact = run[w].artifact /\ run'[w].copy = run[w].copy
    BY <1>1, <1>3, CaughtOK
  <2> QED BY <2>1 DEF GoesOn, Active, Wrote
<1>4. ASSUME NEW r, NEW n \in Nat, To(w, r), RunOK(r, n), leases' = n, leases <= n, run[w].pc # "off"
      PROVE  run'[w] = r \/ run'[w] = Caught(run[w])
  BY <1>4, WorkerMoves
<1>5. CASE Claim(w)
  <2>1. PICK r : /\ To(w, r) /\ RunOK(r, leases + 1) /\ leases' = leases + 1
                 /\ r.pc = "gate" /\ r.stage = 0
    BY <1>5, ClaimMove
  <2>0. run[w].pc # "off"
    BY <1>5 DEF Claim, At
  <2>2. run'[w] = r \/ run'[w] = Caught(run[w])
    BY <1>1, <1>4, <2>0, <2>1
  <2>3. CASE run'[w] = r
    BY <1>5, <2>1, <2>3 DEF Active, Wrote
  <2>4. CASE run'[w] = Caught(run[w])
    BY <1>3, <2>0, <2>4
  <2> QED BY <2>2, <2>3, <2>4
<1>6. CASE Work(w) /\ ~Claim(w)
  <2>1. PICK r : To(w, r) /\ RunOK(r, leases) /\ GoesOn(w, r)
    BY <1>6, WorkGoesOn
  <2>2. leases' = leases /\ run[w].pc # "off"
    BY <1>6 DEF Work, ClaimNothing, Gate, FindWork, Renew, ReadOriginal, WriteDerivative,
                CommitCandidate, CommitVideo, MarkFailed, WipeFailed, Complete, Fail, At, queue
  <2>3. run'[w] = r \/ run'[w] = Caught(run[w])
    BY <1>1, <1>4, <2>1, <2>2
  <2> QED BY <1>3, <2>1, <2>2, <2>3
<1>7. CASE WorkerThrows(w)
  BY <1>1, <1>3, <1>7 DEF WorkerThrows, At
<1>8. CASE Crash \/ Pump
  <2>1. Resting(run'[w])
    BY <1>8 DEF Crash, Pump, Off, Resting
  <2> QED BY <2>1 DEF GoesOn
<1> QED BY <1>2, <1>5, <1>6, <1>7, <1>8, OneMoves

LEMMA StallsGrow ==
  ASSUME TypeInv, [Next]_vars, stalls' = 0
  PROVE  stalls = 0
<1>1. stalls \in Nat
  BY DEF TypeInv, MishapTypes
<1>2. ASSUME NEW w \in Workers, Work(w) \/ WorkerThrows(w) PROVE stalls' = stalls
  <2>1. CASE Work(w)
    <3>1. \E r : To(w, r)
      BY <2>1, WorkLeads
    <3> QED BY <3>1 DEF To, mishaps
  <2> QED BY <1>2, <2>1 DEF WorkerThrows
<1>3. ASSUME NEW p \in Clients, Request(p) PROVE stalls' = stalls
  <2>1. CASE RequestThrows(p)
    BY <2>1 DEF RequestThrows
  <2>2. CASE ~RequestThrows(p)
    <3>1. \E c : Goes(p, c)
      BY <1>3, <2>2, RequestLeads
    <3> QED BY <3>1 DEF Goes, mishaps
  <2> QED BY <2>1, <2>2
<1>4. CASE World
  <2>1. ASSUME NEW j \in Jobs, ForgetJob(j) PROVE stalls' = stalls \/ stalls' = stalls + 1
    BY <2>1 DEF ForgetJob, mishaps
  <2>2. ASSUME NEW j \in Jobs, DeadLeaseRunsOut(j) \/ Stall(j) PROVE stalls' = stalls \/ stalls' = stalls + 1
    BY <2>2 DEF DeadLeaseRunsOut, Stall, mishaps
  <2>3. stalls' = stalls \/ stalls' = stalls + 1
    BY <1>4, <2>1, <2>2 DEF World, ReserveImage, FinalizeImage, AbandonImage, RevokeSession, Crash, mishaps
  <2> QED BY <1>1, <2>3
<1>5. CASE Pump \/ UNCHANGED vars
  BY <1>5 DEF Pump, vars, mishaps
<1> QED BY <1>1, <1>2, <1>3, <1>4, <1>5 DEF Next

\* A claim makes its worker the holder of a job that was waiting.
LEMMA Claims ==
  ASSUME TypeInv, NEW w \in Workers, Claim(w), ~Resting(run'[w])
  PROVE  /\ run'[w].job \in Jobs /\ job[run'[w].job].state = "queued"
         /\ job'[run'[w].job].state = "running" /\ job'[run'[w].job].lease = run'[w].lease
<1>1. PICK j, r : /\ j \in Jobs /\ job[j].state = "queued" /\ leases' = leases + 1
                  /\ job'[j].state = "running" /\ job'[j].lease = leases + 1
                  /\ To(w, r) /\ RunOK(r, leases + 1) /\ r.job = j /\ r.lease = leases + 1
  BY ClaimMove
<1>2. run[w].pc = "claim" /\ leases \in Nat
  BY DEF Claim, At, TypeInv, QueueTypes
<1>3. run'[w] = r \/ run'[w] = Caught(run[w])
  BY <1>1, <1>2, WorkerMoves
<1>4. Resting(Caught(run[w]))
  BY <1>2, OffOK DEF Caught
<1> QED BY <1>1, <1>3, <1>4

\* What may happen to a job that was submitted, while no worker stalls.
LEMMA JobTurns ==
  ASSUME TypeInv, LifeInv, [Next]_vars, stalls' = 0,
         NEW j \in Jobs, job'[j] # job[j], job[j].state # "new"
  PROVE  \/ job[j].state = "queued"
         \/ \E w \in Workers : run[w].job = j /\ (Resting(run'[w]) \/ job'[j].state = "succeeded")
         \/ job'[j].state = "cancelled"
         \/ job'[j].state = "gone" /\ ~Open'
         \/ job'[j].state = "gone" /\ \A w \in Workers : run[w].job # j
         \/ job[j].state = "running" /\ \A w \in Workers : run[w].job = j => ~Holds(w)
<1> DEFINE Goal ==
             \/ job[j].state = "queued"
             \/ \E w \in Workers : run[w].job = j /\ (Resting(run'[w]) \/ job'[j].state = "succeeded")
             \/ job'[j].state = "cancelled"
             \/ job'[j].state = "gone" /\ ~Open'
             \/ job'[j].state = "gone" /\ \A w \in Workers : run[w].job # j
             \/ job[j].state = "running" /\ \A w \in Workers : run[w].job = j => ~Holds(w)
<1>1. /\ job \in [Jobs -> JobRecords] /\ stalls \in Nat /\ stalls = 0
      /\ \A w \in Workers : RunOK(run[w], leases)
  BY StallsGrow DEF TypeInv, QueueTypes, MishapTypes
<1>2. ASSUME NEW i \in Jobs, NEW s, Settle(i, s) PROVE i = j /\ job'[j].state = s
  BY <1>1, <1>2 DEF Settle, JobRecords
<1>3. ASSUME NEW w \in Workers, Claim(w) PROVE Goal
  BY <1>3, ClaimMove
<1>4. ASSUME NEW w \in Workers, Complete(w) \/ Fail(w) PROVE Goal
  <2>1. run[w].job \in Jobs /\ run[w].pc \in {"complete", "fail"} /\ leases' = leases /\ leases \in Nat
    BY <1>4 DEF Complete, Fail, At, TypeInv, QueueTypes, RunOK, Resting
  <2>2. CASE Complete(w)
    BY <1>2, <2>1, <2>2 DEF Complete
  <2>3. CASE Fail(w)
    <3>1. run[w].job = j
      BY <1>2, <2>1, <2>3 DEF Fail
    <3>2. To(w, Off) /\ run[w].pc = "fail"
      BY <2>3 DEF Fail, At
    <3>3. run'[w] = Off \/ run'[w] = Caught(run[w])
      BY <2>1, <3>2, OffOK, WorkerMoves
    <3>4. Resting(run'[w])
      BY <3>2, <3>3, OffOK DEF Caught
    <3> QED BY <3>1, <3>4
  <2> QED BY <1>4, <2>2, <2>3
<1>5. ASSUME NEW p \in Clients, Submit(p) PROVE Goal
  <2>1. PICK i \in Jobs : \/ job' = job
                          \/ /\ job[i].state = "new"
                             /\ job' = [job EXCEPT ![i].artifact = call[p].artifact, ![i].state = "queued"]
    BY <1>5, SubmitMove
  <2> QED BY <1>1, <2>1
<1>6. ASSUME NEW p \in Clients, CancelJob(p) PROVE Goal
  <2>1. call[p].copy.jobId \in Jobs
    BY <1>6 DEF CancelJob, On, TypeInv, CallOK
  <2> QED BY <1>2, <1>6, <2>1 DEF CancelJob
<1>7. ASSUME NEW p \in Clients, PurgeJobs(p) PROVE Goal
  <2>1. ~Open'
    BY <1>7 DEF PurgeJobs, On, LifeInv, RequestOK, Open, tables
  <2>2. job'[j].state = "gone"
    BY <1>7 DEF PurgeJobs, Drop, NewJob
  <2> QED BY <2>1, <2>2
<1>8. ASSUME NEW i \in Jobs, ForgetJob(i) PROVE Goal
  <2>1. i = j /\ job'[j].state = "gone"
    BY <1>8 DEF ForgetJob, Drop, NewJob
  <2> QED BY <1>1, <1>8, <2>1 DEF ForgetJob
<1>9. ASSUME NEW i \in Jobs, DeadLeaseRunsOut(i) PROVE Goal
  <2>1. i = j /\ job[j].state = "running"
    BY <1>2, <1>9 DEF DeadLeaseRunsOut, LeaseRunsOut
  <2> QED BY <1>9, <2>1 DEF DeadLeaseRunsOut, HasLiveHolder, Holds
<1>10. \A i \in Jobs : ~Stall(i)
  BY <1>1 DEF Stall
<1>11. CASE World
  <2>1. (\E k \in Jobs : DeadLeaseRunsOut(k)) \/ UNCHANGED job \/ \E k \in Jobs : ForgetJob(k)
    BY <1>10, <1>11 DEF World, ReserveImage, FinalizeImage, AbandonImage, RevokeSession, Crash, queue
  <2> QED BY <1>8, <1>9, <2>1
<1>12. ASSUME NEW w \in Workers, Work(w) \/ WorkerThrows(w) PROVE Goal
  <2>1. Claim(w) \/ Complete(w) \/ Fail(w)
    BY <1>12, Zenon DEF Work, WorkerThrows, ClaimNothing, Gate, FindWork, Renew, ReadOriginal,
              WriteDerivative, CommitCandidate, CommitVideo, MarkFailed, WipeFailed, queue
  <2> QED BY <1>3, <1>4, <2>1
<1>13. ASSUME NEW p \in Clients, Request(p) PROVE Goal
  <2>1. Submit(p) \/ CancelJob(p) \/ PurgeJobs(p)
    BY <1>13, Zenon DEF Request, Enqueue, Confirm, Cancel, FindByKey, Save, Create, Discard,
              Link, ConfirmAuthorize, ReadCandidate, WriteText, FinalizeContract, Withdraw, DeleteCase,
              DeleteFiles, CompleteCaseDeletion, RequestThrows, queue
  <2> QED BY <1>5, <1>6, <1>7, <2>1
<1>14. ~Pump /\ ~UNCHANGED vars
  BY DEF Pump, vars, queue
<1> QED BY <1>11, <1>12, <1>13, <1>14 DEF Next

\* A record that comes to await confirmation holds what its worker wrote.
LEMMA BecomesCandidate ==
  ASSUME TypeInv, LifeInv, [Next]_vars, NEW a \in Artifacts,
         rec'[a] # Null, rec'[a].state = "requires_confirmation"
  PROVE  \/ /\ rec[a] # Null /\ rec[a].state = "requires_confirmation"
            /\ rec'[a].derivative = rec[a].derivative
         \/ \E w \in Workers : /\ CommitCandidate(w) /\ run[w].artifact = a /\ Authorized
                               /\ rec[a] # Null /\ rec[a].state = "queued"
                               /\ rec'[a].derivative = Prepared(w)
<1> DEFINE Goal ==
             \/ /\ rec[a] # Null /\ rec[a].state = "requires_confirmation"
                /\ rec'[a].derivative = rec[a].derivative
             \/ \E w \in Workers : /\ CommitCandidate(w) /\ run[w].artifact = a /\ Authorized
                                   /\ rec[a] # Null /\ rec[a].state = "queued"
                                   /\ rec'[a].derivative = Prepared(w)
<1>0. /\ rec \in [Artifacts -> Records \cup {Null}] /\ Null \notin Records
      /\ \A p \in Clients : CallOK(call[p], drawn)
  BY NullAssumption DEF TypeInv, TableTypes
<1>1. ASSUME rec'[a] = rec[a] PROVE Goal
  BY <1>1
<1>2. ASSUME NEW w \in Workers, CommitCandidate(w) PROVE Goal
  <2>1. /\ run[w].copy \in Records /\ run[w].artifact \in Artifacts /\ Prepared(w) \in Contents
    BY <1>2, CandidateType, Zenon DEF CommitCandidate, At, TypeInv, RunOK, Resting, Preparing
  <2>2. CASE UNCHANGED tables
    BY <1>1, <2>2 DEF tables
  <2>3. ASSUME rec[run[w].artifact] # Null, rec[run[w].artifact].state = "queued", Authorized,
               NEW c \in Records,
               c = [run[w].copy EXCEPT !.state = "requires_confirmation", !.derivative = Prepared(w)],
               Replace(run[w].artifact, c)
        PROVE  Goal
    <3>1. c.derivative = Prepared(w)
      BY <2>1, <2>3 DEF Records
    <3>2. rec'[run[w].artifact] = c /\ \A b \in Artifacts : b # run[w].artifact => rec'[b] = rec[b]
      BY <1>0, <2>1, <2>3 DEF Replace
    <3>3. CASE run[w].artifact = a
      BY <1>2, <2>3, <3>1, <3>2, <3>3, Zenon
    <3>4. CASE run[w].artifact # a
      BY <1>1, <3>2, <3>4
    <3> QED BY <3>3, <3>4
  <2>4. \/ UNCHANGED tables
        \/ /\ rec[run[w].artifact] # Null /\ rec[run[w].artifact].state = "queued" /\ Authorized
           /\ \E c \in Records :
                /\ c = [run[w].copy EXCEPT !.state = "requires_confirmation", !.derivative = Prepared(w)]
                /\ Replace(run[w].artifact, c)
    BY <1>2, CandidateMove, Zenon
  <2> QED BY <2>2, <2>3, <2>4
<1>3. ASSUME NEW b \in Artifacts, NEW d \in Directories, Publish(b, d), rec[b] # Null,
             UNCHANGED <<files, history>>
      PROVE  Goal
  <2>1. rec'[b].state = "available" /\ \A x \in Artifacts : x # b => rec'[x] = rec[x]
    BY <1>3, PublishOK
  <2> QED BY <1>1, <2>1
<1>4. ASSUME NEW w \in Workers, CommitVideo(w) PROVE Goal
  <2>1. [derivative |-> Frames, text |-> Null] \in Directories
    BY LeasesAreContents DEF Directories, Contents, Frames, TypeInv, QueueTypes
  <2>2. run[w].artifact \in Artifacts /\ UNCHANGED <<files, history>>
    BY <1>4 DEF CommitVideo, At, TypeInv, RunOK, Resting
  <2>3. \/ UNCHANGED tables
        \/ /\ rec[run[w].artifact] # Null
           /\ Publish(run[w].artifact, [derivative |-> Frames, text |-> Null])
    BY <1>4, VideoMove DEF CanFinalize
  <2> QED BY <1>1, <1>3, <2>1, <2>2, <2>3 DEF tables
<1>5. ASSUME NEW b \in Artifacts, NEW c \in Records, Replace(b, c), c.state # "requires_confirmation"
      PROVE  Goal
  <2>1. rec'[b] = c /\ \A x \in Artifacts : x # b => rec'[x] = rec[x]
    BY <1>0, <1>5 DEF Replace
  <2> QED BY <1>1, <1>5, <2>1
<1>6. ASSUME NEW w \in Workers, MarkFailed(w) PROVE Goal
  <2>1. /\ run[w].artifact \in Artifacts /\ run[w].copy \in Records
    BY <1>6 DEF MarkFailed, At, TypeInv, RunOK, Resting, Preparing
  <2>2. \/ UNCHANGED tables
        \/ \E c \in Records : /\ c = [run[w].copy EXCEPT !.state = "failed"]
                              /\ Replace(run[w].artifact, c)
    BY <1>6, MarkMove
  <2>3. \A c \in Records : [c EXCEPT !.state = "failed"].state = "failed"
    BY DEF Records
  <2> QED BY <1>1, <1>5, <2>1, <2>2, <2>3 DEF tables
<1>7. ASSUME NEW p \in Clients, Withdraw(p) PROVE Goal
  <2>0. PICK c : c = [call[p].copy EXCEPT !.state = "cancelled"]
    OBVIOUS
  <2>1. call[p].artifact \in Artifacts /\ c \in Records /\ c.state = "cancelled"
    BY <1>0, <1>7, <2>0 DEF Withdraw, On, CallOK, Records, RecordStates
  <2>2. UNCHANGED tables \/ Replace(call[p].artifact, c)
    BY <1>7, <2>0 DEF Withdraw
  <2> QED BY <1>1, <1>5, <2>1, <2>2 DEF tables
<1>8. ASSUME NEW p \in Clients, Create(p) \/ Link(p) PROVE Goal
  <2>1. call[p].artifact \in Artifacts /\ call[p].copy \in Records /\ call[p].copy.state = "queued"
    BY <1>0, <1>8 DEF Create, Link, On, CallOK
  <2>2. UNCHANGED tables \/ Replace(call[p].artifact, call[p].copy)
    BY <1>8 DEF Create, Link, tables
  <2> QED BY <1>1, <1>5, <2>1, <2>2 DEF tables
<1>9. ASSUME NEW p \in Clients, FinalizeContract(p) PROVE Goal
  <2>1. call[p].artifact \in Artifacts /\ call[p].copy \in Records /\ UNCHANGED <<files, history>>
    BY <1>0, <1>9 DEF FinalizeContract, On, CallOK
  <2>2. [derivative |-> Null, text |-> call[p].copy.derivative] \in Directories
    <3>1. call[p].copy.derivative \in Contents /\ Null \in Contents
      BY <2>1 DEF Records, Contents
    <3> QED BY <3>1 DEF Directories
  <2> QED BY <1>1, <1>3, <1>9, <2>1, <2>2 DEF FinalizeContract, CanFinalize, tables
<1>10. ASSUME NEW p \in Clients, CompleteCaseDeletion(p) PROVE Goal
  BY <1>1, <1>10 DEF CompleteCaseDeletion, tables
<1>11. CASE UNCHANGED <<rec, row>>
  BY <1>1, <1>11
<1> QED BY <1>2, <1>4, <1>6, <1>7, <1>8, <1>9, <1>10, <1>11, RecordSteps DEF RecordStep

LEMMA AloneKept ==
  ASSUME TypeInv, LifeInv, AloneInv, [Next]_vars
  PROVE  AloneInv'
<1> SUFFICES ASSUME stalls' = 0 PROVE AloneInv'
  BY DEF AloneInv
<1>1. /\ \A w \in Workers : ~Resting(run[w]) =>
           Holds(w) \/ IsTerminal(run[w].job) \/ (job[run[w].job].state = "gone" /\ ~Open)
      /\ \A v, w \in Workers : ~Resting(run[w]) /\ run[v].job = run[w].job => v = w
      /\ \A w \in Workers : Active(run[w]) /\ rec[run[w].artifact] # Null
                              => rec[run[w].artifact].state # "requires_confirmation"
  BY StallsGrow DEF AloneInv
<1>2. /\ \A w \in Workers : RunOK(run[w], leases) /\ RunOK(run'[w], leases') /\ WorkerOK(run[w])
      /\ Null \notin Jobs /\ (~Open => ~Open')
  BY NextTypes, StatusMoves, ProcessingAssumption DEF TypeInv, LifeInv, Open
<1>3. ASSUME NEW w \in Workers, ~Resting(run'[w])
      PROVE  \/ /\ ~Resting(run[w]) /\ run[w].job \in Jobs /\ run[w].artifact \in Artifacts
                /\ run'[w].job = run[w].job /\ run'[w].lease = run[w].lease
                /\ run'[w].artifact = run[w].artifact
                /\ Active(run'[w]) => Active(run[w]) \/ (FindWork(w) /\ rec[run[w].artifact].state = "queued")
             \/ /\ Claim(w) /\ run'[w].job \in Jobs /\ job[run'[w].job].state = "queued"
                /\ job'[run'[w].job].state = "running" /\ job'[run'[w].job].lease = run'[w].lease
                /\ ~Active(run'[w])
  <2>1. CASE Claim(w) /\ ~Active(run'[w])
    BY <1>3, <2>1, Claims
  <2>2. CASE GoesOn(w, run'[w])
    BY <1>2, <1>3, <2>2 DEF GoesOn, RunOK
  <2> QED BY <2>1, <2>2, WorkersGoOn
<1>4. ASSUME NEW w \in Workers, ~Resting(run'[w])
      PROVE  (Holds(w) \/ IsTerminal(run[w].job) \/ (job[run[w].job].state = "gone" /\ ~Open))'
  <2>1. CASE Claim(w) /\ job'[run'[w].job].state = "running" /\ job'[run'[w].job].lease = run'[w].lease
    BY <2>1 DEF Holds
  <2>2. CASE /\ ~Resting(run[w]) /\ run[w].job \in Jobs
             /\ run'[w].job = run[w].job /\ run'[w].lease = run[w].lease
    <3>1. PICK j \in Jobs : j = run[w].job
      BY <2>2
    <3>2. Holds(w) \/ IsTerminal(j) \/ (job[j].state = "gone" /\ ~Open)
      BY <1>1, <2>2, <3>1
    <3>3. CASE job'[j] = job[j]
      BY <1>2, <2>2, <3>1, <3>2, <3>3 DEF Holds, IsTerminal
    <3>4. CASE job'[j] # job[j]
      <4>1. /\ job[j].state \notin {"new", "queued"}
            /\ job[j].state = "running" => Holds(w)
        BY <3>1, <3>2 DEF Holds, IsTerminal
      <4>2. \A v \in Workers : run[v].job = j => v = w
        BY <1>1, <2>2, <3>1
      <4>3. \/ job'[j].state = "succeeded"
            \/ job'[j].state = "cancelled"
            \/ job'[j].state = "gone" /\ ~Open'
        BY <1>4, <3>1, <3>4, <4>1, <4>2, JobTurns
      <4> QED BY <2>2, <3>1, <4>3 DEF IsTerminal
    <3> QED BY <3>3, <3>4
  <2> QED BY <1>3, <1>4, <2>1, <2>2
<1>5. ASSUME NEW v \in Workers, NEW w \in Workers, ~Resting(run'[w]), run'[v].job = run'[w].job
      PROVE  v = w
  <2>1. ~Resting(run'[v])
    BY <1>2, <1>5 DEF RunOK
  <2>2. \A u \in Workers : ~Resting(run[u]) => job[run[u].job].state # "queued"
    BY <1>1 DEF Holds, IsTerminal
  <2>0. \A u \in Workers : Claim(u) => Resting(run[u])
    BY DEF Claim, At, Resting
  <2>3. ASSUME NEW x \in Workers, NEW y \in Workers, Claim(x), ~Claim(y),
               ~Resting(run'[x]), ~Resting(run'[y]), run'[x].job = run'[y].job
        PROVE  FALSE
    <3>1. job[run'[x].job].state = "queued"
      BY <1>3, <2>0, <2>3
    <3>2. ~Resting(run[y]) /\ run'[y].job = run[y].job
      BY <1>3, <2>3
    <3> QED BY <2>2, <2>3, <3>1, <3>2
  <2>4. Claim(v) <=> Claim(w)
    BY <1>5, <2>1, <2>3
  <2>5. CASE Claim(v) /\ Claim(w)
    <3>1. Resting(run[v]) /\ Resting(run[w])
      BY <2>5 DEF Claim, At, Resting
    <3>2. run'[v] # run[v] /\ run'[w] # run[w]
      BY <1>5, <2>1, <3>1
    <3>3. ~Crash /\ ~Pump
      BY <1>5, OffOK DEF Crash, Pump, Off, Resting
    <3> QED BY <3>2, <3>3, OneMoves
  <2>6. CASE ~Claim(v) /\ ~Claim(w)
    BY <1>1, <1>3, <1>5, <2>1, <2>6
  <2> QED BY <2>4, <2>5, <2>6
<1>6. ASSUME NEW w \in Workers, Active(run'[w]), rec'[run'[w].artifact] # Null,
             rec'[run'[w].artifact].state = "requires_confirmation"
      PROVE  FALSE
  <2>1. ~Resting(run'[w])
    BY <1>6 DEF Active, Resting
  <2>2. PICK a \in Artifacts : a = run[w].artifact
    BY <1>3, <1>6, <2>1
  <2>3. /\ ~Resting(run[w]) /\ run'[w].artifact = a /\ run[w].artifact = a /\ run[w].job \in Jobs
        /\ Active(run[w]) \/ (FindWork(w) /\ rec[a].state = "queued")
    BY <1>3, <1>6, <2>1, <2>2
  <2>4. ~(rec[a] # Null /\ rec[a].state = "requires_confirmation")
    BY <1>1, <2>3
  <2>5. PICK v \in Workers : CommitCandidate(v) /\ run[v].artifact = a /\ Authorized
    BY <1>6, <2>3, <2>4, BecomesCandidate
  <2>6. ~Resting(run[v]) /\ run[v].job \in Jobs
    BY <1>2, <2>5 DEF CommitCandidate, At, Resting, RunOK
  <2>7. job[run[v].job].artifact = a /\ job[run[w].job].artifact = a
    BY <1>1, <1>2, <2>3, <2>5, <2>6 DEF Authorized, Holds, IsTerminal, WorkerOK
  <2>8. run[v].job = run[w].job
    BY <2>3, <2>6, <2>7, ProcessingAssumption DEF LifeInv, OneJob
  <2>9. v = w
    BY <1>1, <2>3, <2>8
  <2>10. run'[w].pc \in {"mark", "complete"}
    <3>1. /\ run[w].pc = "commit" /\ leases' = leases /\ leases \in Nat
      BY <2>5, <2>9 DEF CommitCandidate, At, queue, TypeInv, QueueTypes
    <3>2. PICK r : /\ To(w, r) /\ RunOK(r, leases) /\ Same(r, run[w])
                   /\ \/ r.pc = "mark"
                      \/ /\ r.pc = "complete"
                         /\ \E c \in Records :
                              /\ c = [run[w].copy EXCEPT !.state = "requires_confirmation",
                                                         !.derivative = Prepared(w)]
                              /\ Replace(run[w].artifact, c)
      BY <2>5, <2>9, CandidateMove, ZenonT(30)
    <3>3. run'[w] = r \/ run'[w] = Caught(run[w])
      BY <3>1, <3>2, WorkerMoves
    <3>4. Caught(run[w]) = [run[w] EXCEPT !.pc = "mark"]
      BY <3>1 DEF Caught
    <3>5. [run[w] EXCEPT !.pc = "mark"].pc = "mark"
      BY <1>2 DEF RunOK, RunState
    <3> QED BY <3>2, <3>3, <3>4, <3>5
  <2> QED BY <1>6, <2>10 DEF Active
<1> QED BY <1>4, <1>5, <1>6 DEF AloneInv

\* While the case stands, an artifact is worked on by one worker at a time.
LEMMA AloneWithArtifact ==
  ASSUME TypeInv, LifeInv, AloneInv, stalls = 0, Open, NEW v \in Workers, NEW w \in Workers,
         ~Resting(run[v]), ~Resting(run[w]), run[v].artifact = run[w].artifact
  PROVE  v = w
<1>1. /\ run[v].job \in Jobs /\ run[w].job \in Jobs /\ run[w].artifact \in Artifacts
      /\ WorkerOK(run[v]) /\ WorkerOK(run[w]) /\ Null \notin Artifacts
  BY ProcessingAssumption DEF TypeInv, RunOK, LifeInv
<1>2. job[run[v].job].artifact = run[w].artifact /\ job[run[w].job].artifact = run[w].artifact
  BY <1>1 DEF AloneInv, Holds, IsTerminal, WorkerOK
<1>3. run[v].job = run[w].job
  BY <1>1, <1>2 DEF LifeInv, OneJob
<1> QED BY <1>3 DEF AloneInv

-----------------------------------------------------------------------------
(* What is published, and what is to be confirmed, is on disk. *)

\* While the case stands, only what failed, was cancelled or was not created
\* loses its files, and only those who act on a record change them.
LEMMA FilesMove ==
  ASSUME TypeInv, LifeInv, [Next]_vars, Open, \A p \in Clients : DiscardOK(call[p]),
         NEW a \in Artifacts, rec[a] # Null, rec[a].state \notin {"failed", "cancelled"},
         files[a] # Null
  PROVE  /\ files'[a] # Null
         /\ \/ files'[a].derivative = files[a].derivative
            \/ \E w \in Workers : /\ WriteDerivative(w) /\ run[w].artifact = a
                                  /\ files'[a].derivative = Prepared(w)
         /\ \/ files'[a].text = files[a].text
            \/ \E p \in Clients : /\ WriteText(p) /\ call[p].artifact = a
                                  /\ files'[a].text = call[p].copy.derivative
<1> DEFINE Goal ==
             /\ files'[a] # Null
             /\ \/ files'[a].derivative = files[a].derivative
                \/ \E w \in Workers : /\ WriteDerivative(w) /\ run[w].artifact = a
                                      /\ files'[a].derivative = Prepared(w)
             /\ \/ files'[a].text = files[a].text
                \/ \E p \in Clients : /\ WriteText(p) /\ call[p].artifact = a
                                      /\ files'[a].text = call[p].copy.derivative
<1>0. files \in [Artifacts -> Directories \cup {Null}] /\ files[a] \in Directories /\ Null \notin Directories
  BY NullAssumption DEF TypeInv, TableTypes
<1>1. ASSUME files'[a] = files[a] PROVE Goal
  BY <1>1
<1>2. ASSUME NEW w \in Workers, WriteDerivative(w) PROVE Goal
  <2>1. Preparing(run[w])
    BY <1>2 DEF WriteDerivative, At, Preparing
  <2>2. PICK d : d = [files[a] EXCEPT !.derivative = Prepared(w)]
    OBVIOUS
  <2>3. d \in Directories /\ d.derivative = Prepared(w) /\ d.text = files[a].text
    BY <1>0, <2>1, <2>2, CandidateType, Zenon DEF Directories
  <2>4. \/ files'[a] = files[a]
        \/ run[w].artifact = a /\ files'[a] = d
    BY <1>0, <1>2, <2>2 DEF WriteDerivative
  <2> QED BY <1>0, <1>1, <1>2, <2>3, <2>4
<1>3. ASSUME NEW p \in Clients, WriteText(p) PROVE Goal
  <2>1. call[p].copy.derivative \in Contents
    BY <1>3 DEF WriteText, On, TypeInv, CallOK, Records
  <2>2. PICK d : d = [files[a] EXCEPT !.text = call[p].copy.derivative]
    OBVIOUS
  <2>3. d \in Directories /\ d.text = call[p].copy.derivative /\ d.derivative = files[a].derivative
    BY <1>0, <2>1, <2>2 DEF Directories
  <2>4. \/ files'[a] = files[a]
        \/ call[p].artifact = a /\ files'[a] = d
    BY <1>0, <1>3, <2>2 DEF WriteText
  <2> QED BY <1>0, <1>1, <1>3, <2>3, <2>4
<1>4. ASSUME NEW w \in Workers, WipeFailed(w) PROVE Goal
  <2>1. run[w].artifact # a
    BY <1>4 DEF WipeFailed, At, LifeInv, WorkerOK
  <2> QED BY <1>0, <1>1, <1>4, <2>1 DEF WipeFailed, RemoveFiles
<1>5. ASSUME NEW p \in Clients, Save(p) PROVE Goal
  <2>1. call[p].artifact # a
    BY <1>5 DEF Save, On, LifeInv, FreshOK
  <2> QED BY <1>0, <1>1, <1>5, <2>1 DEF Save
<1>6. ASSUME NEW p \in Clients, Discard(p) PROVE Goal
  <2>1. call[p].artifact # a
    BY <1>6 DEF Discard, On, DiscardOK
  <2> QED BY <1>0, <1>1, <1>6, <2>1 DEF Discard, RemoveFiles
<1>7. \A p \in Clients : ~DeleteFiles(p)
  BY DEF DeleteFiles, On, LifeInv, RequestOK
<1> QED BY <1>1, <1>2, <1>3, <1>4, <1>5, <1>6, <1>7, FileSteps DEF FileStep

\* Requests that come to discard files, or to publish a text.
LEMMA CallTurns ==
  ASSUME TypeInv, LifeInv, [Next]_vars, NEW p \in Clients, call'[p].pc \in {"discard", "finalize"}
  PROVE  \/ call'[p] = call[p]
         \/ /\ call'[p].pc = "discard" /\ call'[p].artifact = call[p].artifact
            /\ call[p].artifact \in Artifacts
            /\ \/ call[p].pc \in {"save", "create"} /\ (lostCreate' \/ UNCHANGED tables)
               \/ rec'[call[p].artifact].state = "cancelled"
         \/ /\ call'[p].pc = "finalize" /\ WriteText(p) /\ files[call[p].artifact] # Null
            /\ call'[p].artifact = call[p].artifact /\ call'[p].copy = call[p].copy
<1> DEFINE Goal ==
         \/ call'[p] = call[p]
         \/ /\ call'[p].pc = "discard" /\ call'[p].artifact = call[p].artifact
            /\ call[p].artifact \in Artifacts
            /\ \/ call[p].pc \in {"save", "create"} /\ (lostCreate' \/ UNCHANGED tables)
               \/ rec'[call[p].artifact].state = "cancelled"
         \/ /\ call'[p].pc = "finalize" /\ WriteText(p) /\ files[call[p].artifact] # Null
            /\ call'[p].artifact = call[p].artifact /\ call'[p].copy = call[p].copy
<1>0. /\ CallOK(call[p], drawn) /\ call \in [Clients -> CallState] /\ call[p] \in CallState
      /\ rec \in [Artifacts -> Records \cup {Null}]
  BY DEF TypeInv, TableTypes
<1>1. \/ Unwound(call[p]) = NoCall /\ call[p].pc \notin {"save", "create"}
      \/ /\ call[p].pc \in {"save", "create"} /\ Unwound(call[p]).pc = "discard"
         /\ Unwound(call[p]).artifact = call[p].artifact
  BY <1>0, UnwoundOK
<1>2. ASSUME NEW c, Goes(p, c) PROVE call'[p] \in {c, Unwound(call[p])}
  BY <1>0, <1>2 DEF Goes
<1>3. ASSUME NEW c, Goes(p, c), call[p].pc \notin {"save", "create"} PROVE call'[p] = c
  BY <1>1, <1>2, <1>3, NoCallOK
<1>4. \A pc \in ClientPcs : /\ [call[p] EXCEPT !.pc = pc].pc = pc
                            /\ [call[p] EXCEPT !.pc = pc].artifact = call[p].artifact
                            /\ [call[p] EXCEPT !.pc = pc].copy = call[p].copy
  BY <1>0 DEF CallState
<1>5. ASSUME Request(p) PROVE Goal
  <2>1. CASE RequestThrows(p)
    <3>1. call'[p] = Unwound(call[p]) /\ UNCHANGED tables
      BY <1>0, <2>1 DEF RequestThrows
    <3> QED BY <1>0, <1>1, <3>1, NoCallOK DEF CallOK
  <2>2. CASE Save(p)
    <3>1. call[p].pc = "save" /\ Goes(p, [call[p] EXCEPT !.pc = "create"]) /\ UNCHANGED tables
      BY <2>2 DEF Save, On
    <3>2. [call[p] EXCEPT !.pc = "create"].pc = "create"
      BY <1>4 DEF ClientPcs
    <3>3. call'[p] = Unwound(call[p])
      BY <1>2, <3>1, <3>2
    <3> QED BY <1>0, <1>1, <3>1, <3>3 DEF CallOK
  <2>3. CASE Create(p)
    <3>1. PICK c : /\ Goes(p, c) /\ c.artifact = call[p].artifact
                   /\ \/ lostCreate' = (lostCreate \/ call'[p].pc = "discard") /\ c.pc = "submit"
                      \/ UNCHANGED tables
      BY <2>3, CreateMove
    <3>2. call[p].pc = "create"
      BY <2>3 DEF Create, On
    <3>3. call'[p].artifact = call[p].artifact
      BY <1>1, <1>2, <3>1, <3>2
    <3>4. call'[p].pc = "discard"
      BY <1>1, <1>2, <2>3, <3>1, <3>2, CreateMove
    <3> QED BY <1>0, <3>1, <3>2, <3>3, <3>4 DEF CallOK
  <2>4. CASE Withdraw(p)
    <3>0. PICK c : c = [call[p].copy EXCEPT !.state = "cancelled"]
      OBVIOUS
    <3>1. call[p].pc = "withdraw" /\ c.state = "cancelled" /\ call[p].artifact \in Artifacts
      BY <1>0, <2>4, <3>0 DEF Withdraw, On, CallOK, Records
    <3>2. ~Ends(p)
      BY <1>3, <3>1, NoCallOK DEF Ends
    <3>3. Replace(call[p].artifact, c) /\ Goes(p, [call[p] EXCEPT !.pc = "discard"])
      BY <2>4, <3>0, <3>2 DEF Withdraw
    <3>4. rec'[call[p].artifact] = c
      BY <1>0, <3>1, <3>3 DEF Replace
    <3>5. /\ [call[p] EXCEPT !.pc = "discard"].pc = "discard"
          /\ [call[p] EXCEPT !.pc = "discard"].artifact = call[p].artifact
      BY <1>4 DEF ClientPcs
    <3>6. call'[p].pc = "discard" /\ call'[p].artifact = call[p].artifact
      BY <1>3, <3>1, <3>3, <3>5
    <3> QED BY <3>1, <3>4, <3>6
  <2>5. CASE WriteText(p)
    <3>1. call[p].pc = "text"
      BY <2>5 DEF WriteText, On
    <3>2. ~Ends(p)
      BY <1>3, <3>1, NoCallOK DEF Ends
    <3>3. files[call[p].artifact] # Null /\ Goes(p, [call[p] EXCEPT !.pc = "finalize"])
      BY <2>5, <3>2 DEF WriteText
    <3>4. /\ call'[p].pc = "finalize" /\ call'[p].artifact = call[p].artifact
          /\ call'[p].copy = call[p].copy
      BY <1>3, <1>4, <3>1, <3>3, ZenonT(60) DEF ClientPcs
    <3> QED BY <2>5, <3>3, <3>4
  <2>6. CASE ~RequestThrows(p) /\ ~Save(p) /\ ~Create(p) /\ ~Withdraw(p) /\ ~WriteText(p)
    <3>1. call[p].pc \notin {"save", "create"}
      BY <1>5, <2>6, Zenon DEF Request, Enqueue, Confirm, Cancel, FindByKey, Discard, Submit, Link,
              ConfirmAuthorize, ReadCandidate, FinalizeContract, CancelJob, DeleteCase, PurgeJobs,
              DeleteFiles, CompleteCaseDeletion, On
    <3>2. \A c : Goes(p, c) => c.pc \in {"discard", "finalize"}
      BY <1>3, <3>1
    <3>3. ~Ends(p)
      BY <3>2, NoCallOK DEF Ends
    <3>4. \A u \in Uploads : ~Enqueue(p, u)
      BY <3>2, EnqueueMove
    <3>5. ~FindByKey(p) /\ ~Submit(p)
      BY <3>2, NoCallOK, FindByKeyMove, SubmitMove
    <3>6. \A a \in Artifacts : ~Confirm(p, a) /\ ~Cancel(p, a)
      BY <3>2 DEF Confirm, Cancel
    <3>7. ~ConfirmAuthorize(p) /\ ~ReadCandidate(p) /\ ~CancelJob(p)
      BY <1>4, <3>2, <3>3 DEF ConfirmAuthorize, ReadCandidate, CancelJob, ClientPcs
    <3>8. ~DeleteCase(p) /\ ~PurgeJobs(p) /\ ~DeleteFiles(p)
      <4>1. NoCall \in CallState
        BY NoCallOK DEF CallOK
      <4>2. [NoCall EXCEPT !.pc = "purge"].pc = "purge"
        BY <4>1 DEF CallState
      <4> QED BY <1>4, <3>2, <4>2 DEF DeleteCase, PurgeJobs, DeleteFiles, ClientPcs
    <3>9. ~Discard(p) /\ ~Link(p) /\ ~FinalizeContract(p) /\ ~CompleteCaseDeletion(p)
      BY <3>3 DEF Discard, Link, FinalizeContract, CompleteCaseDeletion
    <3> QED BY <1>5, <2>6, <3>4, <3>5, <3>6, <3>7, <3>8, <3>9 DEF Request
  <2> QED BY <2>1, <2>2, <2>3, <2>4, <2>5, <2>6
<1>6. ASSUME Crash PROVE FALSE
  BY <1>6, NoCallOK DEF Crash
<1> QED BY <1>5, <1>6, OneMoves

\* What is newly published is a video that was prepared or a text that was
\* written.
LEMMA RowsMove ==
  ASSUME TypeInv, LifeInv, [Next]_vars, NEW a \in Artifacts, row'[a] \notin {row[a], Null}
  PROVE  /\ rec[a] # Null /\ files' = files
         /\ \/ \E w \in Workers :
                 /\ CommitVideo(w) /\ run[w].artifact = a /\ rec[a].state = "queued"
                 /\ row'[a].derivative = Frames /\ row'[a].text = Null
            \/ \E p \in Clients :
                 /\ FinalizeContract(p) /\ call[p].artifact = a
                 /\ rec[a].state = "requires_confirmation"
                 /\ row'[a].derivative = Null /\ row'[a].text = call[p].copy.derivative
<1>0. row \in [Artifacts -> Directories \cup {Null}]
  BY DEF TypeInv, TableTypes
<1>1. \/ \E w \in Workers : CommitVideo(w)
      \/ \E p \in Clients : FinalizeContract(p)
  BY RecordSteps, Zenon DEF RecordStep, CommitCandidate, MarkFailed, Create, Link, Withdraw,
     CompleteCaseDeletion, Replace, tables
<1>2. ASSUME NEW w \in Workers, CommitVideo(w)
      PROVE  /\ rec[a] # Null /\ files' = files
             /\ run[w].artifact = a /\ rec[a].state = "queued"
             /\ row'[a].derivative = Frames /\ row'[a].text = Null
  <2>1. /\ run[w].artifact \in Artifacts /\ IsVideo(run[w].copy) /\ files' = files
        /\ Suits(run[w].copy, run[w].artifact)
    BY <1>2 DEF CommitVideo, At, TypeInv, LifeInv, RunOK, Resting, Preparing, WorkerOK
  <2>2. PICK d : d = [derivative |-> Frames, text |-> Null]
    OBVIOUS
  <2>3. d.derivative = Frames /\ d.text = Null
    BY <2>2
  <2>4. /\ CanFinalize(run[w].artifact, Null) /\ Publish(run[w].artifact, d)
    BY <1>2, <2>2, VideoMove DEF tables
  <2>5. run[w].artifact = a /\ row'[a] = d
    BY <1>0, <2>1, <2>4 DEF Publish
  <2>6. rec[a] # Null /\ rec[a].state = "queued"
    BY <2>1, <2>4, <2>5 DEF CanFinalize, Suits, IsVideo
  <2> QED BY <2>1, <2>3, <2>5, <2>6
<1>3. ASSUME NEW p \in Clients, FinalizeContract(p)
      PROVE  /\ rec[a] # Null /\ files' = files
             /\ call[p].artifact = a /\ rec[a].state = "requires_confirmation"
             /\ row'[a].derivative = Null /\ row'[a].text = call[p].copy.derivative
  <2>1. /\ call[p].artifact \in Artifacts /\ RequestOK(call[p]) /\ call[p].pc = "finalize" /\ files' = files
    BY <1>3 DEF FinalizeContract, On, TypeInv, LifeInv, CallOK
  <2>2. PICK d : d = [derivative |-> Null, text |-> call[p].copy.derivative]
    OBVIOUS
  <2>3. d.derivative = Null /\ d.text = call[p].copy.derivative
    BY <2>2
  <2>4. CanFinalize(call[p].artifact, call[p].copy.derivative) /\ Publish(call[p].artifact, d)
    BY <1>3, <2>2 DEF FinalizeContract, tables
  <2>5. call[p].artifact = a /\ row'[a] = d
    BY <1>0, <2>1, <2>4 DEF Publish
  <2>6. rec[a] # Null /\ rec[a].state = "requires_confirmation"
    BY <2>1, <2>4, <2>5 DEF CanFinalize, RequestOK
  <2> QED BY <2>1, <2>3, <2>5, <2>6
<1> QED BY <1>1, <1>2, <1>3

\* A record appears when a request creates it.
LEMMA Creates ==
  ASSUME TypeInv, LifeInv, [Next]_vars, NEW a \in Artifacts, rec[a] = Null, rec'[a] # Null
  PROVE  \E p \in Clients : Create(p) /\ call[p].artifact = a /\ CanCreate(call[p].copy)
                            /\ Replace(a, call[p].copy)
<1>1. Moved(a)
  BY RecordsMove
<1>2. PICK p \in Clients : /\ call[p].pc = "create" /\ call[p].artifact = a
                           /\ call'[p].pc # "create"
  BY <1>1 DEF Moved
<1>3. Request(p) \/ Crash
  BY <1>2, OneMoves
<1>4. ~Crash /\ Create(p)
  BY <1>2, <1>3 DEF Crash, tables, Request, Enqueue, Confirm, Cancel, FindByKey, Save,
            Discard, Submit, Link, ConfirmAuthorize, ReadCandidate, WriteText,
            FinalizeContract, CancelJob, Withdraw, DeleteCase, PurgeJobs, DeleteFiles,
            CompleteCaseDeletion, RequestThrows, On
<1>5. CanCreate(call[p].copy) /\ Replace(a, call[p].copy)
  BY <1>2, <1>4 DEF Create, tables
<1> QED BY <1>2, <1>4, <1>5

\* A record that needs its files was there before, unless it was just created.
LEMMA CameFrom ==
  ASSUME TypeInv, LifeInv, [Next]_vars, NEW a \in Artifacts, rec'[a] # Null,
         rec[a] # Null \/ rec'[a].state # "queued"
  PROVE  /\ rec[a] # Null
         /\ rec'[a].upload = rec[a].upload
         /\ rec'[a].state = rec[a].state \/ <<rec[a].state, rec'[a].state>> \in Onward
         /\ rec[a].state # "queued" /\ rec'[a].state # "cancelled"
              => rec'[a].derivative = rec[a].derivative
<1>1. Moved(a)
  BY RecordsMove
<1>2. ASSUME rec[a] = Null PROVE rec'[a].state = "queued"
  <2>1. PICK p \in Clients : Create(p) /\ Replace(a, call[p].copy)
    BY <1>2, Creates
  <2>2. rec \in [Artifacts -> Records \cup {Null}] /\ call[p].copy.state = "queued"
    BY <2>1 DEF TypeInv, TableTypes, CallOK, Create, On
  <2> QED BY <2>1, <2>2 DEF Replace
<1> QED BY <1>1, <1>2 DEF Moved

LEMMA DiskKept ==
  ASSUME TypeInv, LifeInv, AloneInv, DiskInv, [Next]_vars
  PROVE  DiskInv'
<1> SUFFICES ASSUME Open', ~lostCreate' PROVE DiskInv'
  BY DEF DiskInv
<1>0. /\ Open /\ ~lostCreate
  <2>1. Open
    BY StatusMoves DEF Open
  <2>2. lostCreate \in BOOLEAN
    BY DEF TypeInv, TableTypes
  <2>3. ASSUME NEW p \in Clients, Request(p) PROVE lostCreate => lostCreate'
    <3>1. CASE Create(p)
      BY <2>2, <3>1, Zenon DEF Create
    <3> QED BY <2>3, <3>1, Zenon DEF Request, Enqueue, Confirm, Cancel, FindByKey, Save,
              Discard, Submit, Link, ConfirmAuthorize, ReadCandidate, WriteText,
              FinalizeContract, CancelJob, Withdraw, DeleteCase, PurgeJobs, DeleteFiles,
              CompleteCaseDeletion, RequestThrows, history
  <2>4. ASSUME NEW w \in Workers, Work(w) \/ WorkerThrows(w) PROVE lostCreate => lostCreate'
    BY <2>4, Zenon DEF Work, WorkerThrows, Claim, ClaimNothing, Gate, FindWork, Renew, ReadOriginal,
              WriteDerivative, CommitCandidate, CommitVideo, MarkFailed, WipeFailed, Complete,
              Fail, history
  <2>5. CASE World
    <3>1. UNCHANGED history
      BY <2>5 DEF World, ReserveImage, FinalizeImage, AbandonImage, RevokeSession, Crash,
              DeadLeaseRunsOut, Stall, LeaseRunsOut, ForgetJob
    <3> QED BY <2>1, <3>1 DEF history
  <2>6. CASE Pump \/ UNCHANGED vars
    BY <2>1, <2>6 DEF Pump, vars, history
  <2> QED BY <2>1, <2>3, <2>4, <2>5, <2>6 DEF Next
<1>1. /\ \A p \in Clients : DiscardOK(call[p]) /\ TextOK(call[p])
      /\ \A w \in Workers : PreparedOK(w)
      /\ PublishedIsReadable /\ CandidateIsOnDisk
  BY <1>0 DEF DiskInv
<1>2. /\ \A p \in Clients : RequestOK(call[p]) /\ FreshOK(p) /\ CallOK(call[p], drawn)
                            /\ CallOK(call'[p], drawn')
      /\ \A w \in Workers : WorkerOK(run[w]) /\ RunOK(run[w], leases) /\ RunOK(run'[w], leases')
      /\ \A a \in Artifacts : RowOK(a)
  BY NextTypes DEF TypeInv, LifeInv
<1>3. ASSUME NEW p \in Clients PROVE DiscardOK(call[p])'
  <2>1. SUFFICES ASSUME call'[p].pc = "discard", rec'[call'[p].artifact] # Null
                 PROVE  rec'[call'[p].artifact].state = "cancelled"
    BY DEF DiscardOK
  <2>2. call'[p].artifact \in Artifacts
    BY <1>2, <2>1 DEF CallOK
  <2>3. CASE call'[p] = call[p]
    <3>1. PICK a \in Artifacts : a = call[p].artifact
      BY <2>2, <2>3
    <3>2. CASE rec[a] # Null
      BY <1>1, <2>1, <2>3, <3>1, <3>2, CameFrom DEF DiscardOK, Onward
    <3>3. CASE rec[a] = Null
      <4>1. PICK q \in Clients : /\ call[q].pc = "create" /\ call[q].artifact = a
        BY <2>1, <2>3, <3>1, <3>3, RecordsMove DEF Moved
      <4> QED BY <1>2, <2>1, <2>3, <3>1, <4>1 DEF FreshOK
    <3> QED BY <3>2, <3>3
  <2>4. CASE call[p].pc \in {"save", "create"} /\ UNCHANGED tables /\ call'[p].artifact = call[p].artifact
    BY <1>2, <2>1, <2>4 DEF FreshOK, tables
  <2> QED BY <2>1, <2>3, <2>4, CallTurns
<1>4. ASSUME NEW a \in Artifacts, NEW p \in Clients, WriteText(p), call[p].artifact = a,
             rec[a] # Null, rec[a].state \in {"requires_confirmation", "available"}
      PROVE  call[p].copy.derivative = rec[a].derivative
  BY <1>2, <1>4 DEF WriteText, On, RequestOK
<1>5. ASSUME NEW p \in Clients PROVE TextOK(call[p])'
  <2>1. SUFFICES ASSUME call'[p].pc = "finalize", rec'[call'[p].artifact] # Null,
                        rec'[call'[p].artifact].state \in {"requires_confirmation", "available"}
                 PROVE  /\ files'[call'[p].artifact] # Null
                        /\ files'[call'[p].artifact].text = call'[p].copy.derivative
    BY DEF TextOK, Confirming
  <2>2. PICK a \in Artifacts : a = call'[p].artifact
    BY <1>2, <2>1 DEF CallOK
  <2>3. CASE call'[p] = call[p]
    <3>1. /\ rec[a] # Null /\ rec[a].state \in {"queued", "requires_confirmation", "available"}
      BY <2>1, <2>2, CameFrom DEF Onward
    <3>2. /\ rec[a].state \in {"requires_confirmation", "available"}
          /\ rec[a].derivative = call[p].copy.derivative
      BY <1>2, <2>1, <2>2, <2>3, <3>1 DEF RequestOK
    <3>3. files[a] # Null /\ files[a].text = call[p].copy.derivative
      BY <1>1, <2>1, <2>2, <2>3, <3>1, <3>2 DEF TextOK, Confirming
    <3> QED BY <1>0, <1>1, <1>4, <2>2, <2>3, <3>1, <3>2, <3>3, FilesMove
  <2>4. CASE /\ WriteText(p) /\ files[call[p].artifact] # Null
             /\ call'[p].artifact = call[p].artifact /\ call'[p].copy = call[p].copy
    <3>1. files \in [Artifacts -> Directories \cup {Null}] /\ files[a] \in Directories
          /\ Null \notin Directories /\ call[p].copy.derivative \in Contents
      BY <1>2, <2>2, <2>4, NullAssumption DEF TypeInv, TableTypes, WriteText, On, CallOK, Records
    <3>2. PICK d : d = [files[a] EXCEPT !.text = call[p].copy.derivative]
      OBVIOUS
    <3>3. d \in Directories /\ d.text = call[p].copy.derivative
      BY <3>1, <3>2 DEF Directories
    <3>4. files'[a] = d
      BY <2>2, <2>4, <3>1, <3>2 DEF WriteText
    <3> QED BY <2>2, <2>4, <3>1, <3>3, <3>4
  <2> QED BY <2>1, <2>3, <2>4, CallTurns
<1>6. ASSUME NEW w \in Workers PROVE PreparedOK(w)'
  <2>1. SUFFICES ASSUME Wrote(run'[w]), rec'[run'[w].artifact] # Null,
                        rec'[run'[w].artifact].state = "queued",
                        IsVideo(run'[w].copy) \/ stalls' = 0
                 PROVE  /\ files'[run'[w].artifact] # Null
                        /\ files'[run'[w].artifact].derivative = Prepared(w)'
    BY DEF PreparedOK, Written
  <2>2. GoesOn(w, run'[w]) /\ ~Resting(run'[w])
    BY <2>1, WorkersGoOn DEF Wrote, Resting
  <2>3. /\ ~Resting(run[w]) /\ run'[w].artifact = run[w].artifact /\ run'[w].lease = run[w].lease
        /\ Preparing(run[w]) => run'[w].copy = run[w].copy
        /\ \/ Wrote(run[w])
           \/ /\ run[w].pc = "write" /\ files[run[w].artifact] # Null
              /\ files' = [files EXCEPT ![run[w].artifact].derivative = Prepared(w)]
    BY <2>1, <2>2 DEF GoesOn
  <2>4. Preparing(run[w]) /\ Active(run[w])
    BY <2>3 DEF Wrote, Preparing, Active
  <2>5. Prepared(w)' = Prepared(w)
    BY <2>3, <2>4 DEF Prepared, IsVideo
  <2>6. PICK a \in Artifacts : a = run[w].artifact
    BY <1>2, <2>3 DEF RunOK
  <2>7. CASE /\ run[w].pc = "write" /\ files[a] # Null
             /\ files' = [files EXCEPT ![a].derivative = Prepared(w)]
    <3>1. files \in [Artifacts -> Directories \cup {Null}] /\ files[a] \in Directories
          /\ Null \notin Directories /\ Prepared(w) \in Contents
      BY <2>4, <2>7, CandidateType, NullAssumption, Zenon DEF TypeInv, TableTypes
    <3>2. PICK d : d = [files[a] EXCEPT !.derivative = Prepared(w)]
      OBVIOUS
    <3>3. d \in Directories /\ d.derivative = Prepared(w)
      BY <3>1, <3>2 DEF Directories
    <3>4. files'[a] = d
      BY <2>7, <3>1, <3>2
    <3> QED BY <2>3, <2>5, <2>6, <3>1, <3>3, <3>4
  <2>8. CASE Wrote(run[w])
    <3>1. ASSUME rec[a] = Null PROVE FALSE
      <4>1. PICK p \in Clients : call[p].pc = "create" /\ call[p].artifact = a
        BY <2>1, <2>3, <2>6, <3>1, RecordsMove DEF Moved
      <4> QED BY <1>2, <2>6, <4>1 DEF FreshOK
    <3>2. rec[a].state = "queued"
      BY <2>1, <2>3, <2>6, <3>1, CameFrom DEF Onward
    <3>3. stalls' = 0 => stalls = 0
      BY StallsGrow
    <3>4. files[a] # Null /\ files[a].derivative = Prepared(w)
      BY <1>1, <2>1, <2>3, <2>4, <2>6, <2>8, <3>1, <3>2, <3>3 DEF PreparedOK, Written
    <3>5. ASSUME NEW v \in Workers, WriteDerivative(v), run[v].artifact = a
          PROVE  Prepared(v) = Prepared(w)
      <4>1. ~Resting(run[v]) /\ Preparing(run[v])
        BY <3>5 DEF WriteDerivative, At, Resting, Preparing
      <4>2. CASE stalls = 0
        <5>1. v = w
          BY <1>0, <2>3, <2>6, <3>5, <4>1, <4>2, AloneWithArtifact
        <5> QED BY <5>1
      <4>3. CASE IsVideo(run[w].copy)
        BY <1>2, <2>4, <2>6, <3>1, <3>5, <4>1, <4>3 DEF WorkerOK, Suits, IsVideo, Prepared
      <4> QED BY <2>1, <2>3, <2>4, <3>3, <4>2, <4>3
    <3> QED BY <1>0, <1>1, <2>3, <2>5, <2>6, <3>1, <3>2, <3>4, <3>5, FilesMove
  <2> QED BY <2>3, <2>6, <2>7, <2>8
<1>7. ASSUME NEW a \in Artifacts, row'[a] # Null
      PROVE  /\ files'[a] # Null
             /\ row'[a].derivative \in {Null, files'[a].derivative}
             /\ row'[a].text \in {Null, files'[a].text}
  <2>1. CASE row'[a] = row[a]
    <3>1. /\ rec[a] # Null /\ rec[a].state = "available" /\ row[a].text \in {Null, rec[a].derivative}
          /\ row[a].derivative \in {Null, Frames}
          /\ row[a].derivative # Null => IsVideo(rec[a])
      BY <1>2, <1>7, <2>1 DEF RowOK
    <3>2. /\ files[a] # Null /\ row[a].derivative \in {Null, files[a].derivative}
          /\ row[a].text \in {Null, files[a].text}
      BY <1>0, <1>1, <1>7, <2>1 DEF PublishedIsReadable
    <3>3. ASSUME NEW v \in Workers, WriteDerivative(v), run[v].artifact = a, row[a].derivative # Null
          PROVE  Prepared(v) = row[a].derivative
      <4>1. Preparing(run[v])
        BY <3>3 DEF WriteDerivative, At, Preparing
      <4> QED BY <1>2, <3>1, <3>3, <4>1 DEF WorkerOK, Suits, IsVideo, Prepared
    <3> QED BY <1>0, <1>1, <1>4, <2>1, <3>1, <3>2, <3>3, FilesMove
  <2>2. ASSUME NEW w \in Workers, CommitVideo(w), run[w].artifact = a, rec[a] # Null,
               rec[a].state = "queued"
        PROVE  files[a] # Null /\ files[a].derivative = Frames
    <3>1. Wrote(run[w]) /\ IsVideo(run[w].copy)
      BY <1>2, <2>2 DEF CommitVideo, At, RunOK, Wrote
    <3> QED BY <1>1, <2>2, <3>1 DEF PreparedOK, Written, Prepared
  <2>3. ASSUME NEW p \in Clients, FinalizeContract(p), call[p].artifact = a, rec[a] # Null,
               rec[a].state = "requires_confirmation"
        PROVE  files[a] # Null /\ files[a].text = call[p].copy.derivative
    BY <1>1, <2>3 DEF FinalizeContract, On, TextOK, Confirming
  <2>4. CASE row'[a] # row[a]
    <3>1. /\ rec[a] # Null /\ files' = files
          /\ \/ \E w \in Workers :
                  /\ CommitVideo(w) /\ run[w].artifact = a /\ rec[a].state = "queued"
                  /\ row'[a].derivative = Frames /\ row'[a].text = Null
             \/ \E p \in Clients :
                  /\ FinalizeContract(p) /\ call[p].artifact = a
                  /\ rec[a].state = "requires_confirmation"
                  /\ row'[a].derivative = Null /\ row'[a].text = call[p].copy.derivative
      BY <1>7, <2>4, RowsMove
    <3> QED BY <2>2, <2>3, <3>1
  <2> QED BY <2>1, <2>4
<1>8. ASSUME stalls' = 0, NEW a \in Artifacts, rec'[a] # Null, rec'[a].state = "requires_confirmation"
      PROVE  files'[a] # Null /\ files'[a].derivative = rec'[a].derivative
  <2>0. stalls = 0
    BY <1>8, StallsGrow
  <2>1. CASE /\ rec[a] # Null /\ rec[a].state = "requires_confirmation"
             /\ rec'[a].derivative = rec[a].derivative
    <3>1. files[a] # Null /\ files[a].derivative = rec[a].derivative
      BY <1>0, <1>1, <2>0, <2>1 DEF CandidateIsOnDisk, InUse
    <3>2. \A v \in Workers : run[v].artifact = a => ~WriteDerivative(v)
      BY <2>0, <2>1 DEF AloneInv, WriteDerivative, At, Active
    <3> QED BY <1>0, <1>1, <2>1, <3>1, <3>2, FilesMove
  <2>2. ASSUME NEW w \in Workers, CommitCandidate(w), run[w].artifact = a,
               rec[a] # Null, rec[a].state = "queued", rec'[a].derivative = Prepared(w)
        PROVE  files'[a] # Null /\ files'[a].derivative = rec'[a].derivative
    <3>1. Wrote(run[w]) /\ files' = files
      BY <1>2, <2>2 DEF CommitCandidate, At, RunOK, Wrote
    <3> QED BY <1>1, <2>0, <2>2, <3>1 DEF PreparedOK, Written
  <2> QED BY <1>8, <2>1, <2>2, BecomesCandidate
<1>9. PublishedIsReadable' /\ CandidateIsOnDisk'
  BY <1>7, <1>8 DEF PublishedIsReadable, CandidateIsOnDisk, InUse
<1> QED BY <1>3, <1>5, <1>6, <1>9 DEF DiskInv

LEMMA DiskAtStart ==
  ASSUME Init
  PROVE  AloneInv /\ DiskInv
<1>1. AloneInv
  BY DEF Init, Off, AloneInv, Resting, Active
<1>2. \A p \in Clients : DiscardOK(call[p]) /\ TextOK(call[p])
  BY DEF Init, NoCall, DiscardOK, TextOK, Confirming
<1>3. \A w \in Workers : PreparedOK(w)
  BY DEF Init, Off, PreparedOK, Written, Wrote
<1>4. PublishedIsReadable /\ CandidateIsOnDisk
  BY DEF Init, PublishedIsReadable, CandidateIsOnDisk, InUse
<1> QED BY <1>1, <1>2, <1>3, <1>4 DEF DiskInv

\* Unless a worker stalls, it is alone with its job from the claim to the end,
\* and nobody prepares a contract that awaits confirmation.
THEOREM WorkersAreAlone == Spec => []AloneInv
<1>1. TypeInv /\ LifeInv /\ AloneInv /\ [Next]_vars => AloneInv'
  BY AloneKept
<1> QED BY <1>1, DiskAtStart, ProcessingInvariant, LifeInvariant, PTL DEF Spec

\* While the case stands, what is prepared, written and published stays on
\* disk with the content that its worker, its request and its row know.
THEOREM DiskInvariant == Spec => []DiskInv
<1>1. TypeInv /\ LifeInv /\ AloneInv /\ DiskInv /\ [Next]_vars => DiskInv'
  BY DiskKept
<1> QED BY <1>1, DiskAtStart, ProcessingInvariant, LifeInvariant, WorkersAreAlone, PTL DEF Spec

\* What the case page lists can be opened, whatever workers, cancellations and
\* duplicate uploads are still doing and however often they stall or crash.
THEOREM PublishedStaysReadable == Spec => []PublishedIsReadable
<1>1. DiskInv => PublishedIsReadable
  BY DEF DiskInv, PublishedIsReadable
<1> QED BY <1>1, DiskInvariant, PTL

\* As long as no worker stalls, a text that the owner is asked to confirm is
\* the one on disk.
THEOREM CandidatesAreOnDisk == Spec => []CandidateIsOnDisk
<1>1. DiskInv => CandidateIsOnDisk
  BY DEF DiskInv, CandidateIsOnDisk
<1> QED BY <1>1, DiskInvariant, PTL

-----------------------------------------------------------------------------
(* Sums over finite sets. *)

\* Induction over the subsets of a finite set.
LEMMA SubsetInduction ==
  ASSUME NEW U, IsFiniteSet(U), NEW F,
         ASSUME NEW T \in SUBSET U, \A V \in SUBSET T : V # T => V \in F
         PROVE  T \in F
  PROVE  \A T \in SUBSET U : T \in F
<1> DEFINE bad == (SUBSET U) \ F
           R == StrictSubsetOrdering(U)
<1>1. IsWellFoundedOn(R, SUBSET U)
  BY FS_StrictSubsetOrderingWellFounded, FS_FiniteSubsetsOfFinite, Zenon
<1>2. \A V, T \in SUBSET U : V \subseteq T /\ V # T => <<V, T>> \in R
  BY DEF StrictSubsetOrdering
<1>3. ASSUME bad # {} PROVE FALSE
  <2>1. PICK T \in bad : \A V \in bad : <<V, T>> \notin R
    <3> HIDE DEF bad, R
    <3>1. bad \subseteq SUBSET U
      BY DEF bad
    <3> QED BY <1>1, <1>3, <3>1, WFMin
  <2>2. ASSUME NEW V \in SUBSET T, V # T PROVE V \in F
    <3>1. V \in SUBSET U /\ T \in SUBSET U /\ <<V, T>> \in R
      <4> HIDE DEF R
      <4> QED BY <1>2, <2>1, <2>2
    <3> HIDE DEF R
    <3> QED BY <2>1, <3>1
  <2>3. T \in SUBSET U /\ T \notin F
    BY <2>1
  <2> QED BY <2>2, <2>3
<1> QED BY <1>3

Some(s) == CHOOSE x \in s : TRUE

\* g sums up f over the subsets of U.
IsSum(f, U, g) ==
  g = [s \in SUBSET U |-> IF s = {} THEN 0 ELSE f[Some(s)] + g[s \ {Some(s)}]]

LEMMA SomeIsThere ==
  ASSUME NEW s, s # {}
  PROVE  Some(s) \in s
BY DEF Some

LEMMA SumIsUnique ==
  ASSUME NEW f, NEW U, IsFiniteSet(U), NEW V \in SUBSET U, NEW g, IsSum(f, U, g),
         NEW h, IsSum(f, V, h)
  PROVE  \A s \in SUBSET V : g[s] = h[s]
<1> DEFINE F == {s \in SUBSET V : g[s] = h[s]}
<1>1. IsFiniteSet(V)
  BY FS_Subset
<1>2. ASSUME NEW s \in SUBSET V, \A t \in SUBSET s : t # s => t \in F
      PROVE  s \in F
  <2>1. /\ g[s] = IF s = {} THEN 0 ELSE f[Some(s)] + g[s \ {Some(s)}]
        /\ h[s] = IF s = {} THEN 0 ELSE f[Some(s)] + h[s \ {Some(s)}]
    BY DEF IsSum
  <2>2. CASE s = {}
    BY <2>1, <2>2
  <2>3. CASE s # {}
    <3>1. s \ {Some(s)} \in SUBSET s /\ s \ {Some(s)} # s
      BY <2>3, SomeIsThere
    <3>2. g[s \ {Some(s)}] = h[s \ {Some(s)}]
      BY <1>2, <3>1
    <3> QED BY <2>1, <2>3, <3>2
  <2> QED BY <2>2, <2>3
<1>3. \A s \in SUBSET V : s \in F
  <2> HIDE DEF F
  <2> QED BY <1>1, <1>2, SubsetInduction
<1> QED BY <1>3

LEMMA SumExists ==
  ASSUME NEW f, NEW U, IsFiniteSet(U)
  PROVE  \E g : IsSum(f, U, g)
<1> DEFINE F == {T \in SUBSET U : \E g : IsSum(f, T, g)}
<1>1. ASSUME NEW T \in SUBSET U, \A V \in SUBSET T : V # T => V \in F
      PROVE  \E g : IsSum(f, T, g)
  <2> DEFINE Of(s) == CHOOSE g : IsSum(f, s, g)
             g == [s \in SUBSET T |->
                    IF s = {} THEN 0
                    ELSE IF s = T THEN f[Some(T)] + Of(T \ {Some(T)})[T \ {Some(T)}]
                    ELSE Of(s)[s]]
  <2>1. \A s \in SUBSET T : s # T => IsSum(f, s, Of(s))
    BY <1>1
  <2>2. ASSUME NEW s \in SUBSET T, s # {}, s # T
        PROVE  Of(s)[s] = f[Some(s)] + g[s \ {Some(s)}]
    <3> DEFINE r == s \ {Some(s)}
    <3>1. r \in SUBSET s /\ r # T /\ IsFiniteSet(s) /\ r \in SUBSET T
      BY <2>2, FS_Subset
    <3>2. IsSum(f, s, Of(s)) /\ IsSum(f, r, Of(r))
      BY <2>1, <2>2, <3>1
    <3> HIDE DEF Of
    <3>3. Of(s)[s] = f[Some(s)] + Of(s)[r]
      BY <2>2, <3>2 DEF IsSum
    <3>4. Of(s)[r] = Of(r)[r]
      <4> HIDE DEF r
      <4> QED BY <3>1, <3>2, SumIsUnique
    <3>5. r = {} => Of(r)[r] = 0
      BY <3>2 DEF IsSum
    <3>6. g[r] = Of(r)[r]
      <4> HIDE DEF r
      <4> QED BY <3>1, <3>5
    <3> QED BY <3>3, <3>4, <3>6
  <2>3. ASSUME T # {}
        PROVE  f[Some(T)] + Of(T \ {Some(T)})[T \ {Some(T)}] = f[Some(T)] + g[T \ {Some(T)}]
    <3> DEFINE r == T \ {Some(T)}
    <3>1. r \in SUBSET T /\ r # T
      BY <2>3, SomeIsThere
    <3>2. IsSum(f, r, Of(r))
      BY <2>1, <3>1
    <3> HIDE DEF Of
    <3>3. r = {} => Of(r)[r] = 0
      BY <3>2 DEF IsSum
    <3>4. g[r] = Of(r)[r]
      <4> HIDE DEF r
      <4> QED BY <3>1, <3>3
    <3> QED BY <3>4
  <2>4. ASSUME NEW s \in SUBSET T
        PROVE  g[s] = IF s = {} THEN 0 ELSE f[Some(s)] + g[s \ {Some(s)}]
    <3> HIDE DEF Of
    <3>1. g[s] = IF s = {} THEN 0
                 ELSE IF s = T THEN f[Some(T)] + Of(T \ {Some(T)})[T \ {Some(T)}]
                 ELSE Of(s)[s]
      OBVIOUS
    <3> HIDE DEF g
    <3> QED BY <2>2, <2>3, <3>1
  <2>5. g = [s \in SUBSET T |-> g[s]]
    OBVIOUS
  <2> HIDE DEF g
  <2>6. g = [s \in SUBSET T |-> IF s = {} THEN 0 ELSE f[Some(s)] + g[s \ {Some(s)}]]
    BY <2>4, <2>5
  <2> QED BY <2>6 DEF IsSum
<1>2. \A T \in SUBSET U : T \in F
  <2>1. ASSUME NEW T \in SUBSET U, \A V \in SUBSET T : V # T => V \in F PROVE T \in F
    BY <1>1, <2>1
  <2> HIDE DEF F
  <2> QED BY <2>1, SubsetInduction
<1> QED BY <1>2

LEMMA SumValue ==
  ASSUME NEW f, NEW U, IsFiniteSet(U), NEW g, IsSum(f, U, g), NEW S \in SUBSET U
  PROVE  SumFunctionOnSet(f, S) = g[S]
<1> DEFINE h == CHOOSE h : IsSum(f, S, h)
<1>1. SumFunctionOnSet(f, S) = h[S]
  BY DEF SumFunctionOnSet, FoldFunctionOnSet, MapThenFoldSet, IsSum, Some
<1>2. IsFiniteSet(S)
  BY FS_Subset
<1>3. IsSum(f, S, h)
  BY <1>2, SumExists
<1> HIDE DEF h
<1> QED BY <1>1, <1>3, SumIsUnique

\* Sums of naturals.
LEMMA SumWithout ==
  ASSUME NEW f, NEW U, IsFiniteSet(U), \A x \in U : f[x] \in Nat, NEW g, IsSum(f, U, g)
  PROVE  \A S \in SUBSET U : g[S] \in Nat /\ \A x \in S : g[S] = f[x] + g[S \ {x}]
<1> DEFINE Good(S) == g[S] \in Nat /\ \A x \in S : g[S] = f[x] + g[S \ {x}]
           F == {S \in SUBSET U : Good(S)}
<1>1. ASSUME NEW S \in SUBSET U, \A V \in SUBSET S : V # S => V \in F
      PROVE  S \in F
  <2>1. g[S] = IF S = {} THEN 0 ELSE f[Some(S)] + g[S \ {Some(S)}]
    BY DEF IsSum
  <2>2. CASE S = {}
    BY <2>1, <2>2
  <2>3. CASE S # {}
    <3>1. PICK y : y = Some(S)
      OBVIOUS
    <3>2. y \in S /\ g[S] = f[y] + g[S \ {y}]
      BY <2>1, <2>3, <3>1, SomeIsThere
    <3>3. ASSUME NEW x \in S PROVE Good(S \ {x})
      BY <1>1, <3>3
    <3>4. \A x \in S : g[S \ {x}] \in Nat /\ f[x] \in Nat
      BY <3>3
    <3>5. ASSUME NEW x \in S PROVE g[S] = f[x] + g[S \ {x}]
      <4>1. CASE x = y
        BY <3>2, <4>1
      <4>2. CASE x # y
        <5>1. x \in S \ {y} /\ y \in S \ {x} /\ (S \ {y}) \ {x} = (S \ {x}) \ {y}
          BY <3>2, <4>2
        <5>2. g[S \ {y}] = f[x] + g[(S \ {y}) \ {x}]
          BY <3>2, <3>3, <5>1
        <5>3. g[S \ {x}] = f[y] + g[(S \ {x}) \ {y}]
          BY <3>3, <5>1
        <5>4. g[(S \ {x}) \ {y}] \in Nat
          <6>1. (S \ {x}) \ {y} \in SUBSET S /\ (S \ {x}) \ {y} # S
            BY <3>2
          <6> QED BY <1>1, <6>1
        <5> HIDE DEF F, Good
        <5>5. g[S] = f[y] + (f[x] + g[(S \ {x}) \ {y}])
          BY <3>2, <5>1, <5>2
        <5> QED BY <3>2, <3>4, <5>3, <5>4, <5>5
      <4> QED BY <4>1, <4>2
    <3>6. g[S] \in Nat
      BY <3>2, <3>4
    <3> QED BY <3>5, <3>6
  <2> QED BY <2>2, <2>3
<1>2. \A S \in SUBSET U : S \in F
  <2> HIDE DEF F
  <2> QED BY <1>1, SubsetInduction
<1> QED BY <1>2

\* The sum of f over a finite set is that over the rest, plus one value.
LEMMA SumWith ==
  ASSUME NEW f, NEW S, IsFiniteSet(S), \A x \in S : f[x] \in Nat
  PROVE  /\ SumFunctionOnSet(f, S) \in Nat
         /\ S = {} => SumFunctionOnSet(f, S) = 0
         /\ \A x \in S : SumFunctionOnSet(f, S) = f[x] + SumFunctionOnSet(f, S \ {x})
<1>1. PICK g : IsSum(f, S, g)
  BY SumExists
<1>2. \A T \in SUBSET S : SumFunctionOnSet(f, T) = g[T]
  BY <1>1, SumValue
<1>3. S = {} => g[S] = 0
  BY <1>1 DEF IsSum
<1>4. \A T \in SUBSET S : g[T] \in Nat /\ \A x \in T : g[T] = f[x] + g[T \ {x}]
  BY <1>1, SumWithout
<1>5. \A x \in S : SumFunctionOnSet(f, S) = f[x] + SumFunctionOnSet(f, S \ {x})
  BY <1>2, <1>4
<1> QED BY <1>2, <1>3, <1>4, <1>5

\* It depends on the values of f there.
LEMMA SumSame ==
  ASSUME NEW f, NEW h, NEW S, IsFiniteSet(S), \A x \in S : f[x] = h[x]
  PROVE  SumFunctionOnSet(f, S) = SumFunctionOnSet(h, S)
<1>1. PICK g : IsSum(f, S, g)
  BY SumExists
<1>2. ASSUME NEW s \in SUBSET S, s # {} PROVE f[Some(s)] = h[Some(s)]
  BY <1>2, SomeIsThere
<1>3. IsSum(h, S, g)
  BY <1>1, <1>2 DEF IsSum
<1> QED BY <1>1, <1>3, SumValue

\* It is made up of the sums over two parts.
LEMMA SumOfParts ==
  ASSUME NEW f, NEW S, IsFiniteSet(S), \A x \in S : f[x] \in Nat,
         NEW P \in SUBSET S, NEW R \in SUBSET S, \A x \in S : x \in R <=> x \notin P
  PROVE  /\ SumFunctionOnSet(f, P) \in Nat /\ SumFunctionOnSet(f, R) \in Nat
         /\ SumFunctionOnSet(f, S) = SumFunctionOnSet(f, P) + SumFunctionOnSet(f, R)
<1> DEFINE Sum(T) == SumFunctionOnSet(f, T)
           F == {T \in SUBSET S : Sum(T) = Sum(T \cap P) + Sum(T \ P)}
<1>1. \A T \in SUBSET S : IsFiniteSet(T)
  BY FS_Subset
<1> HIDE DEF Sum
<1>2. \A T \in SUBSET S : /\ Sum(T) \in Nat /\ (T = {} => Sum(T) = 0)
                          /\ \A x \in T : Sum(T) = f[x] + Sum(T \ {x})
  BY <1>1, SumWith DEF Sum
<1>3. ASSUME NEW T \in SUBSET S, \A V \in SUBSET T : V # T => V \in F
      PROVE  T \in F
  <2>1. CASE T = {}
    <3>1. T \cap P = {} /\ T \ P = {}
      BY <2>1
    <3> QED BY <1>2, <2>1, <3>1
  <2>2. CASE T # {}
    <3>1. PICK x \in T : TRUE
      BY <2>2
    <3> DEFINE V == T \ {x}
    <3>2. Sum(V) = Sum(V \cap P) + Sum(V \ P)
      BY <1>3
    <3>3. f[x] \in Nat /\ Sum(V \cap P) \in Nat /\ Sum(V \ P) \in Nat /\ Sum(T) = f[x] + Sum(V)
      BY <1>2
    <3>4. CASE x \in P
      <4>1. V \cap P = (T \cap P) \ {x} /\ V \ P = T \ P /\ x \in T \cap P
        BY <3>4
      <4>2. Sum(T \cap P) = f[x] + Sum(V \cap P)
        BY <1>2, <4>1
      <4>3. Sum(V \ P) = Sum(T \ P)
        BY <4>1, Zenon
      <4>4. Sum(T) = Sum(T \cap P) + Sum(T \ P)
        <5> HIDE DEF V, F
        <5> QED BY <3>2, <3>3, <4>2, <4>3
      <4> QED BY <4>4
    <3>5. CASE x \notin P
      <4>1. V \ P = (T \ P) \ {x} /\ V \cap P = T \cap P /\ x \in T \ P
        BY <3>5
      <4>2. Sum(T \ P) = f[x] + Sum(V \ P)
        BY <1>2, <4>1
      <4>3. Sum(V \cap P) = Sum(T \cap P)
        BY <4>1, Zenon
      <4>4. Sum(T) = Sum(T \cap P) + Sum(T \ P)
        <5> HIDE DEF V, F
        <5> QED BY <3>2, <3>3, <4>2, <4>3
      <4> QED BY <4>4
    <3> QED BY <3>4, <3>5
  <2> QED BY <2>1, <2>2
<1>4. \A T \in SUBSET S : T \in F
  <2> HIDE DEF F
  <2> QED BY <1>3, SubsetInduction
<1>5. S \cap P = P /\ S \ P = R
  OBVIOUS
<1>6. Sum(S \cap P) = Sum(P) /\ Sum(S \ P) = Sum(R)
  BY <1>5, Zenon
<1>7. Sum(S) = Sum(S \cap P) + Sum(S \ P)
  BY <1>4
<1>8. Sum(P) \in Nat /\ Sum(R) \in Nat /\ Sum(S) = Sum(P) + Sum(R)
  BY <1>2, <1>6, <1>7
<1> QED BY <1>8 DEF Sum

\* Over fewer elements it is not greater.
LEMMA SumOfFewer ==
  ASSUME NEW f, NEW h, NEW S, IsFiniteSet(S), \A x \in S : f[x] \in Nat,
         NEW P \in SUBSET S, \A x \in P : f[x] = h[x]
  PROVE  /\ SumFunctionOnSet(h, P) \in Nat
         /\ SumFunctionOnSet(h, P) <= SumFunctionOnSet(f, S)
<1>1. IsFiniteSet(P)
  BY FS_Subset
<1>2. SumFunctionOnSet(f, P) = SumFunctionOnSet(h, P)
  BY <1>1, SumSame
<1>3. PICK R \in SUBSET S : \A x \in S : x \in R <=> x \notin P
  <2>1. S \ P \in SUBSET S /\ \A x \in S : x \in S \ P <=> x \notin P
    OBVIOUS
  <2> QED BY <2>1
<1>4. /\ SumFunctionOnSet(f, P) \in Nat /\ SumFunctionOnSet(f, R) \in Nat
      /\ SumFunctionOnSet(f, S) = SumFunctionOnSet(f, P) + SumFunctionOnSet(f, R)
  BY <1>3, SumOfParts
<1> QED BY <1>2, <1>4

-----------------------------------------------------------------------------
(* The quota: what counts for it only grows by what was found to fit. *)

Weight(r) == [a \in Artifacts |-> r[a].upload.bytes]

Videos == PendingVideos \cup PublishedVideos

VideoBytes == SumFunctionOnSet(Weight(rec), Videos)

QuotaInv ==
  /\ IsFiniteSet(InUse) /\ IsFiniteSet(StoredImages)
  /\ Open => VideoBytes + ImageBytes * Cardinality(StoredImages) <= Quota

LEMMA BytesAreNatural ==
  ASSUME TypeInv
  PROVE  \A a \in InUse : rec[a] \in Records /\ Weight(rec)[a] \in Nat
<1>1. rec \in [Artifacts -> Records \cup {Null}]
  BY DEF TypeInv, TableTypes
<1>2. \A r \in Records : r.upload.bytes \in Nat
  BY ProcessingAssumption DEF Records
<1> QED BY <1>1, <1>2 DEF InUse, Weight

LEMMA BytesOf ==
  ASSUME NEW as \in SUBSET Artifacts, IsFiniteSet(as)
  PROVE  Bytes(as) = SumFunctionOnSet(Weight(rec), as)
<1> DEFINE f == [a \in as |-> rec[a].upload.bytes]
<1>1. Bytes(as) = SumFunctionOnSet(f, as)
  BY DEF Bytes, SumFunction
<1>2. \A a \in as : f[a] = Weight(rec)[a]
  BY DEF Weight
<1> HIDE DEF f
<1> QED BY <1>1, <1>2, SumSame

\* The transactions that sum up what is pending and what is published see all.
LEMMA QuotaCounts ==
  ASSUME TypeInv, LifeInv, IsFiniteSet(InUse), IsFiniteSet(StoredImages)
  PROVE  /\ VideoBytes \in Nat /\ Cardinality(StoredImages) \in Nat
         /\ PendingVideoBytes + RowBytes = VideoBytes + ImageBytes * Cardinality(StoredImages)
<1> DEFINE w == Weight(rec)
<1>1. /\ PendingVideos \subseteq InUse /\ PublishedVideos \subseteq InUse /\ Videos \subseteq InUse
      /\ InUse \subseteq Artifacts
  BY DEF PendingVideos, PublishedVideos, Videos, InUse
<1>2. IsFiniteSet(PendingVideos) /\ IsFiniteSet(PublishedVideos) /\ IsFiniteSet(Videos)
  BY <1>1, FS_Subset
<1>3. Videos \ PendingVideos = PublishedVideos
  BY DEF Videos, PendingVideos, PublishedVideos, LifeInv, RowOK, InUse
<1>4. /\ PendingVideoBytes = SumFunctionOnSet(w, PendingVideos)
      /\ Bytes(PublishedVideos) = SumFunctionOnSet(w, PublishedVideos)
  BY <1>1, <1>2, BytesOf DEF PendingVideoBytes
<1>5. \A a \in Videos : w[a] \in Nat
  BY <1>1, BytesAreNatural
<1>6. PendingVideos \in SUBSET Videos
  BY DEF Videos
<1>7. /\ PendingVideoBytes \in Nat /\ Bytes(PublishedVideos) \in Nat
      /\ SumFunctionOnSet(w, Videos) = PendingVideoBytes + Bytes(PublishedVideos)
  <2>1. PICK f, T, P, R : f = w /\ T = Videos /\ P = PendingVideos /\ R = PublishedVideos
    OBVIOUS
  <2>2. /\ IsFiniteSet(T) /\ \A x \in T : f[x] \in Nat
        /\ P \in SUBSET T /\ R \in SUBSET T /\ \A x \in T : x \in R <=> x \notin P
    BY <1>2, <1>3, <1>5, <1>6, <2>1
  <2> HIDE DEF w
  <2>3. /\ SumFunctionOnSet(f, P) \in Nat /\ SumFunctionOnSet(f, R) \in Nat
        /\ SumFunctionOnSet(f, T) = SumFunctionOnSet(f, P) + SumFunctionOnSet(f, R)
    BY <2>2, SumOfParts
  <2> QED BY <1>4, <2>1, <2>3
<1>8. Cardinality(StoredImages) \in Nat /\ ImageBytes \in Nat
  BY FS_CardinalityType, ProcessingAssumption
<1>9. ImageBytes * Cardinality(StoredImages) \in Nat
  BY <1>8
<1> HIDE DEF w
<1>10. RowBytes = Bytes(PublishedVideos) + ImageBytes * Cardinality(StoredImages)
  BY DEF RowBytes
<1>11. VideoBytes = SumFunctionOnSet(w, Videos)
  BY DEF VideoBytes, w
<1> QED BY <1>7, <1>8, <1>9, <1>10, <1>11

LEMMA ImagesMove ==
  ASSUME TypeInv, [Next]_vars
  PROVE  \/ StoredImages' \subseteq StoredImages
         \/ /\ Open /\ Fits(ImageBytes) /\ UNCHANGED <<rec, row>>
            /\ \E i \in Images : StoredImages' = StoredImages \cup {i}
<1>0. image \in [Images -> {"none", "quarantined", "available", "abandoned"}]
  BY DEF TypeInv, TableTypes
<1>1. ASSUME NEW w \in Workers, Work(w) \/ WorkerThrows(w) PROVE image' = image
  BY <1>1, ZenonT(60) DEF Work, WorkerThrows, Claim, ClaimNothing, Gate, FindWork, Renew,
              ReadOriginal, WriteDerivative, CommitCandidate, CommitVideo, MarkFailed, WipeFailed,
              Complete, Fail, tables, Publish, Replace
<1>2. ASSUME NEW p \in Clients, Request(p) PROVE image' = image \/ image' = [i \in Images |-> "none"]
  BY <1>2, ZenonT(60) DEF Request, Enqueue, Confirm, Cancel, FindByKey, Save, Create, Discard, Submit,
              Link, ConfirmAuthorize, ReadCandidate, WriteText, FinalizeContract, CancelJob,
              Withdraw, DeleteCase, PurgeJobs, DeleteFiles, CompleteCaseDeletion, RequestThrows,
              tables, Publish, Replace
<1>3. ASSUME NEW i \in Images, ReserveImage(i) \/ FinalizeImage(i) \/ AbandonImage(i)
      PROVE  \/ StoredImages' \subseteq StoredImages
             \/ /\ Open /\ Fits(ImageBytes) /\ UNCHANGED <<rec, row>>
                /\ StoredImages' = StoredImages \cup {i}
  <2>1. CASE ReserveImage(i)
    <3>1. image' = [image EXCEPT ![i] = "quarantined"]
      BY <2>1 DEF ReserveImage
    <3>2. StoredImages' = StoredImages \cup {i}
      BY <1>0, <3>1 DEF StoredImages
    <3> QED BY <2>1, <3>2 DEF ReserveImage
  <2>2. CASE FinalizeImage(i)
    BY <1>0, <2>2 DEF FinalizeImage, StoredImages
  <2>3. CASE AbandonImage(i)
    BY <1>0, <2>3 DEF AbandonImage, StoredImages
  <2> QED BY <1>3, <2>1, <2>2, <2>3
<1>4. CASE World
  <2>1. (\E i \in Images : ReserveImage(i) \/ FinalizeImage(i) \/ AbandonImage(i)) \/ image' = image
    BY <1>4, Zenon DEF World, RevokeSession, Crash, DeadLeaseRunsOut, Stall, LeaseRunsOut, ForgetJob, tables
  <2> QED BY <1>3, <2>1 DEF StoredImages
<1>5. CASE Pump \/ UNCHANGED vars
  BY <1>5 DEF Pump, vars, tables, StoredImages
<1>6. image' = image \/ image' = [i \in Images |-> "none"] => StoredImages' \subseteq StoredImages
  BY DEF StoredImages
<1> QED BY <1>1, <1>2, <1>4, <1>5, <1>6 DEF Next

\* Unless a record is created, nothing comes to count that did not.
LEMMA VideosMove ==
  ASSUME TypeInv, LifeInv, [Next]_vars, NEW a \in Artifacts, rec[a] # Null, rec'[a] # Null
  PROVE  /\ rec'[a].upload = rec[a].upload
         /\ a \in Videos' => a \in Videos
<1>1. /\ rec'[a].upload = rec[a].upload
      /\ rec'[a].state = rec[a].state \/ <<rec[a].state, rec'[a].state>> \in Onward
  BY CameFrom
<1>2. ASSUME a \in PendingVideos' PROVE a \in PendingVideos
  BY <1>1, <1>2 DEF PendingVideos, InUse, IsVideo, Onward
<1>3. ASSUME a \in PublishedVideos' PROVE a \in Videos
  <2>1. row'[a] # Null /\ IsVideo(rec[a])
    BY <1>1, <1>3 DEF PublishedVideos, IsVideo
  <2>2. CASE row[a] # Null
    BY <2>1, <2>2 DEF PublishedVideos, Videos, InUse
  <2>3. CASE row[a] = Null
    <3>1. rec[a].state \in {"queued", "requires_confirmation"}
      BY <2>1, <2>3, RowsMove
    <3> QED BY <2>1, <3>1 DEF PendingVideos, Videos, InUse
  <2> QED BY <2>2, <2>3
<1> QED BY <1>1, <1>2, <1>3 DEF Videos

LEMMA TimesMonotone ==
  ASSUME NEW n \in Nat, NEW c \in Nat, NEW d \in Nat, c <= d
  PROVE  n * c \in Nat /\ n * d \in Nat /\ n * c <= n * d /\ n * (d + 1) = n * d + n
<1>1. PICK e \in Nat : d = c + e
  <2>1. d - c \in Nat /\ d = c + (d - c)
    OBVIOUS
  <2> QED BY <2>1
<1>2. n * d = n * c + n * e /\ n * e \in Nat /\ n * c \in Nat
  BY <1>1
<1> QED BY <1>2

\* The videos that count, after a step that creates no record.
LEMMA VideosShrink ==
  ASSUME TypeInv, LifeInv, [Next]_vars, IsFiniteSet(InUse),
         \A a \in Artifacts : rec[a] = Null => rec'[a] = Null
  PROVE  IsFiniteSet(InUse') /\ VideoBytes' \in Nat /\ VideoBytes' <= VideoBytes
<1>1. InUse' \subseteq InUse
  BY DEF InUse
<1>2. IsFiniteSet(InUse')
  BY <1>1, FS_Subset
<1>3. Videos' \subseteq InUse' /\ Videos \subseteq InUse
  BY DEF Videos, PendingVideos, PublishedVideos
<1>4. ASSUME NEW a \in Videos' PROVE a \in Videos /\ rec'[a].upload = rec[a].upload
  <2>1. a \in Artifacts /\ rec[a] # Null /\ rec'[a] # Null
    BY <1>1, <1>3 DEF InUse
  <2> QED BY <2>1, VideosMove
<1>5. PICK f, h, S, P : f = Weight(rec) /\ h = Weight(rec') /\ S = Videos /\ P = Videos'
  OBVIOUS
<1>6. IsFiniteSet(S) /\ \A x \in S : f[x] \in Nat
  BY <1>3, <1>5, FS_Subset, BytesAreNatural
<1>7. P \in SUBSET S
  BY <1>4, <1>5
<1>8. \A x \in P : f[x] = h[x]
  <2>1. \A x \in P : x \in Artifacts /\ rec'[x].upload = rec[x].upload
    BY <1>1, <1>3, <1>4, <1>5 DEF InUse
  <2> QED BY <1>5, <2>1 DEF Weight
<1>9. SumFunctionOnSet(h, P) \in Nat /\ SumFunctionOnSet(h, P) <= SumFunctionOnSet(f, S)
  BY <1>6, <1>7, <1>8, SumOfFewer
<1>10. VideoBytes = SumFunctionOnSet(f, S)
  BY <1>5, Zenon DEF VideoBytes
<1>11. VideoBytes' = SumFunctionOnSet(h, P)
  BY <1>5, Zenon DEF VideoBytes
<1> QED BY <1>2, <1>9, <1>10, <1>11

\* The videos that count, after a step that creates one.
LEMMA VideosGrow ==
  ASSUME TypeInv, LifeInv, [Next]_vars, IsFiniteSet(InUse), IsFiniteSet(StoredImages),
         NEW a \in Artifacts, rec[a] = Null, rec'[a] # Null
  PROVE  /\ IsFiniteSet(InUse') /\ VideoBytes' \in Nat /\ StoredImages' = StoredImages
         /\ \/ VideoBytes' <= VideoBytes
            \/ VideoBytes' + ImageBytes * Cardinality(StoredImages) <= Quota
<1>1. PICK p \in Clients : Create(p) /\ CanCreate(call[p].copy) /\ Replace(a, call[p].copy)
  BY Creates
<1> DEFINE r == call[p].copy
<1>2. rec \in [Artifacts -> Records \cup {Null}] /\ r \in Records
  BY <1>1 DEF TypeInv, TableTypes, CallOK, Create, On
<1>3. /\ rec'[a] = r /\ \A x \in Artifacts : x # a => rec'[x] = rec[x]
      /\ row' = row /\ image' = image
  BY <1>1, <1>2 DEF Replace
<1>4. r.upload.bytes \in Nat
  BY <1>2, ProcessingAssumption DEF Records
<1> HIDE DEF r
<1>5. InUse' \subseteq InUse \cup {a}
  BY <1>3 DEF InUse
<1>6. IsFiniteSet(InUse')
  <2>1. IsFiniteSet(InUse \cup {a})
    BY FS_AddElement
  <2> QED BY <1>5, <2>1, FS_Subset
<1>7. StoredImages' = StoredImages
  BY <1>3 DEF StoredImages
<1>8. Videos' \subseteq InUse' /\ Videos \subseteq InUse
  BY DEF Videos, PendingVideos, PublishedVideos
<1>9. Videos' \ {a} \subseteq Videos
  BY <1>3, Zenon DEF Videos, PendingVideos, PublishedVideos, InUse
<1>10. a \in Videos' => IsVideo(r)
  BY <1>3 DEF Videos, PendingVideos, PublishedVideos
<1>11. PICK f, h, S, T : f = Weight(rec) /\ h = Weight(rec') /\ S = Videos /\ T = Videos'
  OBVIOUS
<1>12. IsFiniteSet(S) /\ (\A x \in S : f[x] \in Nat) /\ IsFiniteSet(T)
  BY <1>6, <1>8, <1>11, FS_Subset, BytesAreNatural
<1>13. T \ {a} \in SUBSET S
  BY <1>9, <1>11
<1>14. (\A x \in T \ {a} : f[x] = h[x]) /\ h[a] = r.upload.bytes
  <2>1. \A x \in T : x \in Artifacts
    BY <1>8, <1>11 DEF InUse
  <2> QED BY <1>3, <1>11, <2>1 DEF Weight
<1>15. /\ SumFunctionOnSet(h, T \ {a}) \in Nat
       /\ SumFunctionOnSet(h, T \ {a}) <= SumFunctionOnSet(f, S)
  BY <1>12, <1>13, <1>14, SumOfFewer
<1>16. \A x \in T : h[x] \in Nat
  BY <1>4, <1>12, <1>13, <1>14
<1>17. VideoBytes = SumFunctionOnSet(f, S)
  BY <1>11, Zenon DEF VideoBytes
<1>18. VideoBytes' = SumFunctionOnSet(h, T)
  BY <1>11, Zenon DEF VideoBytes
<1>19. CASE a \notin T
  <2>1. T \ {a} = T
    BY <1>19
  <2>2. SumFunctionOnSet(h, T \ {a}) = SumFunctionOnSet(h, T)
    BY <2>1, Zenon
  <2> QED BY <1>6, <1>7, <1>15, <1>17, <1>18, <2>2
<1>20. CASE a \in T
  <2>1. SumFunctionOnSet(h, T) = r.upload.bytes + SumFunctionOnSet(h, T \ {a})
    BY <1>12, <1>14, <1>16, <1>20, SumWith
  <2>2. PendingVideoBytes + RowBytes + r.upload.bytes <= Quota
    BY <1>1, <1>10, <1>11, <1>20 DEF CanCreate, Fits, r
  <2>3. /\ VideoBytes \in Nat /\ Cardinality(StoredImages) \in Nat
        /\ PendingVideoBytes + RowBytes = VideoBytes + ImageBytes * Cardinality(StoredImages)
    BY QuotaCounts
  <2>4. Quota \in Nat /\ ImageBytes * Cardinality(StoredImages) \in Nat
    BY <2>3, ProcessingAssumption
  <2>5. VideoBytes + ImageBytes * Cardinality(StoredImages) + r.upload.bytes <= Quota
    BY <2>2, <2>3
  <2>6. VideoBytes' + ImageBytes * Cardinality(StoredImages) <= Quota
    BY <1>4, <1>15, <1>17, <1>18, <2>1, <2>3, <2>4, <2>5
  <2>7. VideoBytes' \in Nat
    BY <1>4, <1>15, <1>18, <2>1
  <2> QED BY <1>6, <1>7, <2>6, <2>7
<1> QED BY <1>19, <1>20

LEMMA QuotaKept ==
  ASSUME TypeInv, LifeInv, QuotaInv, [Next]_vars
  PROVE  QuotaInv'
<1>1. IsFiniteSet(InUse) /\ IsFiniteSet(StoredImages)
  BY DEF QuotaInv
<1>2. Open' => Open
  BY StatusMoves DEF Open
<1>3. /\ VideoBytes \in Nat /\ Cardinality(StoredImages) \in Nat
      /\ PendingVideoBytes + RowBytes = VideoBytes + ImageBytes * Cardinality(StoredImages)
  BY <1>1, QuotaCounts
<1>4. Quota \in Nat /\ ImageBytes \in Nat /\ ImageBytes * Cardinality(StoredImages) \in Nat
  BY <1>3, ProcessingAssumption
<1>5. Open => VideoBytes + ImageBytes * Cardinality(StoredImages) <= Quota
  BY DEF QuotaInv
<1>6. CASE \E a \in Artifacts : rec[a] = Null /\ rec'[a] # Null
  <2>1. /\ IsFiniteSet(InUse') /\ VideoBytes' \in Nat /\ StoredImages' = StoredImages
        /\ \/ VideoBytes' <= VideoBytes
           \/ VideoBytes' + ImageBytes * Cardinality(StoredImages) <= Quota
    BY <1>1, <1>6, VideosGrow
  <2>2. Open' => VideoBytes' + ImageBytes * Cardinality(StoredImages) <= Quota
    BY <1>2, <1>3, <1>4, <1>5, <2>1
  <2>3. Cardinality(StoredImages') = Cardinality(StoredImages) /\ IsFiniteSet(StoredImages')
    BY <1>1, <2>1, Zenon
  <2> QED BY <2>1, <2>2, <2>3 DEF QuotaInv
<1>7. CASE \A a \in Artifacts : rec[a] = Null => rec'[a] = Null
  <2>1. IsFiniteSet(InUse') /\ VideoBytes' \in Nat /\ VideoBytes' <= VideoBytes
    BY <1>1, <1>7, VideosShrink
  <2>2. CASE StoredImages' \subseteq StoredImages
    <3>1. /\ IsFiniteSet(StoredImages') /\ Cardinality(StoredImages') \in Nat
          /\ Cardinality(StoredImages') <= Cardinality(StoredImages)
      BY <1>1, <2>2, FS_Subset, FS_CardinalityType
    <3>2. /\ ImageBytes * Cardinality(StoredImages') \in Nat
          /\ ImageBytes * Cardinality(StoredImages') <= ImageBytes * Cardinality(StoredImages)
      BY <1>3, <1>4, <3>1, TimesMonotone
    <3>3. Open' => VideoBytes' + ImageBytes * Cardinality(StoredImages') <= Quota
      BY <1>2, <1>3, <1>4, <1>5, <2>1, <3>2
    <3> QED BY <2>1, <3>1, <3>3 DEF QuotaInv
  <2>3. ASSUME Open, Fits(ImageBytes), NEW i, StoredImages' = StoredImages \cup {i}
        PROVE  QuotaInv'
    <3>1. /\ IsFiniteSet(StoredImages') /\ Cardinality(StoredImages') \in Nat
          /\ Cardinality(StoredImages') <= Cardinality(StoredImages) + 1
      <4>1. /\ IsFiniteSet(StoredImages \cup {i})
            /\ Cardinality(StoredImages \cup {i}) <= Cardinality(StoredImages) + 1
        BY <1>1, <1>3, FS_AddElement
      <4>2. /\ IsFiniteSet(StoredImages')
            /\ Cardinality(StoredImages') = Cardinality(StoredImages \cup {i})
        BY <2>3, <4>1, Zenon
      <4> QED BY <4>1, <4>2, FS_CardinalityType
    <3>2. /\ ImageBytes * Cardinality(StoredImages') \in Nat
          /\ ImageBytes * Cardinality(StoredImages')
               <= ImageBytes * Cardinality(StoredImages) + ImageBytes
      <4>1. ImageBytes * (Cardinality(StoredImages) + 1)
              = ImageBytes * Cardinality(StoredImages) + ImageBytes
        BY <1>3, <1>4, TimesMonotone
      <4>2. Cardinality(StoredImages) + 1 \in Nat
        BY <1>3
      <4>3. /\ ImageBytes * Cardinality(StoredImages') \in Nat
            /\ ImageBytes * Cardinality(StoredImages')
                 <= ImageBytes * (Cardinality(StoredImages) + 1)
        BY <1>4, <3>1, <4>2, TimesMonotone
      <4> QED BY <4>1, <4>3
    <3>3. VideoBytes + ImageBytes * Cardinality(StoredImages) + ImageBytes <= Quota
      BY <1>3, <2>3 DEF Fits
    <3>4. VideoBytes' + ImageBytes * Cardinality(StoredImages') <= Quota
      BY <1>3, <1>4, <2>1, <3>2, <3>3
    <3> QED BY <2>1, <3>1, <3>4 DEF QuotaInv
  <2> QED BY <2>2, <2>3, ImagesMove
<1> QED BY <1>6, <1>7

LEMMA QuotaAtStart ==
  ASSUME Init
  PROVE  QuotaInv
<1>1. InUse = {} /\ StoredImages = {} /\ Videos = {}
  BY DEF Init, InUse, StoredImages, Videos, PendingVideos, PublishedVideos
<1>2. IsFiniteSet(InUse) /\ IsFiniteSet(StoredImages) /\ Cardinality(StoredImages) = 0
  BY <1>1, FS_EmptySet
<1>3. VideoBytes = 0
  <2>1. PICK f, S : f = Weight(rec) /\ S = Videos
    OBVIOUS
  <2>2. S = {} /\ IsFiniteSet(S) /\ \A x \in S : f[x] \in Nat
    BY <1>1, <2>1, FS_EmptySet
  <2>3. SumFunctionOnSet(f, S) = 0
    BY <2>2, SumWith
  <2> QED BY <2>1, <2>3, Zenon DEF VideoBytes
<1>4. Quota \in Nat /\ ImageBytes \in Nat
  BY ProcessingAssumption
<1>5. VideoBytes + ImageBytes * Cardinality(StoredImages) <= Quota
  BY <1>2, <1>3, <1>4
<1> QED BY <1>2, <1>5 DEF QuotaInv

\* An open case never holds more images and videos than its quota, however
\* the uploads of the two services are interleaved with the worker.
THEOREM QuotaInvariant == Spec => []QuotaInv
<1>1. TypeInv /\ LifeInv /\ QuotaInv /\ [Next]_vars => QuotaInv'
  BY QuotaKept
<1> QED BY <1>1, QuotaAtStart, ProcessingInvariant, LifeInvariant, PTL DEF Spec

\* What the transactions of create and finalize sum up - the bytes of pending
\* videos, of published ones and of images - stays within the quota.
THEOREM QuotaIsKept == Spec => []QuotaHolds
<1>1. TypeInv /\ LifeInv /\ QuotaInv => QuotaHolds
  BY QuotaCounts DEF QuotaInv, QuotaHolds
<1> QED BY <1>1, QuotaInvariant, ProcessingInvariant, LifeInvariant, PTL

-----------------------------------------------------------------------------
(* Workers, requests and the deletion use the queue as it wants to be used. *)

\* The worker can still prove that it holds the lease of j's attempt.
HeldBy(w, j) == run[w].job = j /\ run[w].lease = job[j].lease

\* A step of j's life, as LeasedJobs has it.
JobLives(j) ==
  \/ job'[j] = job[j]
  \/ /\ job[j].state = "new" /\ job'[j].state = "queued"
     /\ job'[j].attempt = 0 /\ job'[j].lease = Null
  \/ /\ job[j].state = "queued" /\ job'[j].state = "running"
     /\ job[j].attempt < MaxAttempts /\ job'[j].attempt = job[j].attempt + 1
     /\ leases' = leases + 1 /\ job'[j].lease = leases'
  \/ /\ job'[j].attempt = job[j].attempt /\ job'[j].lease = Null
     /\ \/ /\ job[j].state = "running" /\ job'[j].state = "queued"
           /\ job[j].attempt < MaxAttempts
        \/ /\ job[j].state = "running" /\ job'[j].state = "succeeded"
           /\ \E w \in Workers : HeldBy(w, j)
        \/ /\ job[j].state = "running" /\ job'[j].state = "failed"
           /\ job[j].attempt = MaxAttempts \/ \E w \in Workers : HeldBy(w, j)
        \/ job[j].state \in {"queued", "running"} /\ job'[j].state = "cancelled"
  \/ /\ job[j].state # "new" /\ job'[j].state = "gone"
     /\ job'[j].attempt = 0 /\ job'[j].lease = Null

LEMMA LifeIsAMove ==
  ASSUME NEW j \in Jobs, JobLives(j), Null \notin Jobs
  PROVE  Queue!Move(j)
<1>1. ASSUME NEW w \in Workers, HeldBy(w, j)
      PROVE  Queue!HeldByWorker(j)
  <2>1. PICK c : c = [jobId |-> run[w].job, leaseId |-> run[w].lease]
    OBVIOUS
  <2>2. c \in {[jobId |-> run[v].job, leaseId |-> run[v].lease] : v \in {u \in Workers : run[u].job # Null}}
    BY <1>1, <2>1 DEF HeldBy
  <2>3. c.jobId = j /\ c.leaseId = job[j].lease
    BY <1>1, <2>1 DEF HeldBy
  <2> QED BY <2>2, <2>3 DEF Queue!HeldByWorker
<1> QED
  BY <1>1 DEF JobLives, Queue!Move, Queue!Stay, Queue!Submit, Queue!Grant, Queue!Requeue,
              Queue!Succeed, Queue!Break, Queue!Cancel, Queue!Forget

LEMMA JobsLive ==
  ASSUME TypeInv, [Next]_vars
  PROVE  (\A j \in Jobs : JobLives(j)) /\ leases' \in {leases, leases + 1}
<1> DEFINE Goal == (\A j \in Jobs : JobLives(j)) /\ leases' \in {leases, leases + 1}
<1>0. /\ job \in [Jobs -> JobRecords] /\ \A j \in Jobs : JobOK(j)
  BY DEF TypeInv, QueueTypes
<1>1. CASE UNCHANGED queue
  BY <1>1 DEF queue, JobLives
<1>2. ASSUME NEW w \in Workers, Claim(w) PROVE Goal
  <2>1. PICK j \in Jobs : /\ job'[j].state = "running" /\ job[j].state = "queued"
                          /\ leases' = leases + 1 /\ job[j].attempt < MaxAttempts
                          /\ job'[j].attempt = job[j].attempt + 1 /\ job'[j].lease = leases + 1
                          /\ \A i \in Jobs : i # j => job'[i] = job[i]
    BY <1>2, ClaimMove
  <2> QED BY <2>1 DEF JobLives
<1>3. ASSUME NEW j \in Jobs, NEW s \in {"queued", "failed", "cancelled", "succeeded"}, Settle(j, s),
             leases' = leases, drawn' = drawn, job[j].state \in {"queued", "running"},
             s # "cancelled" => job[j].state = "running",
             s = "queued" => job[j].attempt < MaxAttempts,
             s = "succeeded" => \E w \in Workers : HeldBy(w, j),
             s = "failed" => job[j].attempt = MaxAttempts \/ \E w \in Workers : HeldBy(w, j)
      PROVE  Goal
  <2>1. /\ \A i \in Jobs : i # j => job'[i] = job[i]
        /\ job'[j].state = s /\ job'[j].attempt = job[j].attempt /\ job'[j].lease = Null
    BY <1>3, SettleOK
  <2> QED BY <1>3, <2>1 DEF JobLives
<1>4. ASSUME NEW w \in Workers, Complete(w) \/ Fail(w) PROVE Goal
  <2>0. run[w].job \in Jobs /\ leases' = leases /\ drawn' = drawn
    BY <1>4 DEF Complete, Fail, At, TypeInv, RunOK, Resting, history
  <2>1. CASE Holds(w)
    <3>1. job[run[w].job].state = "running" /\ HeldBy(w, run[w].job)
      BY <2>1 DEF Holds, HeldBy
    <3>2. CASE Complete(w)
      <4>1. Settle(run[w].job, "succeeded")
        BY <2>1, <3>2 DEF Complete
      <4> QED BY <1>3, <2>0, <3>1, <4>1
    <3>3. CASE Fail(w)
      <4>1. PICK s \in {"queued", "failed"} :
              Settle(run[w].job, s) /\ (s = "queued" => job[run[w].job].attempt < MaxAttempts)
        BY <2>1, <3>3 DEF Fail
      <4> QED BY <1>3, <2>0, <3>1, <4>1
    <3> QED BY <1>4, <3>2, <3>3
  <2>2. CASE ~Holds(w)
    BY <1>4, <2>2 DEF Complete, Fail, JobLives
  <2> QED BY <2>1, <2>2
<1>5. ASSUME NEW p \in Clients, Submit(p) PROVE Goal
  <2>1. PICK j \in Jobs : \/ job' = job
                          \/ /\ job[j].state = "new"
                             /\ job' = [job EXCEPT ![j].artifact = call[p].artifact, ![j].state = "queued"]
    BY <1>5, SubmitMove
  <2>2. leases' = leases
    BY <1>5 DEF Submit
  <2>3. CASE job' = job
    BY <2>2, <2>3 DEF JobLives
  <2>4. CASE /\ job[j].state = "new"
             /\ job' = [job EXCEPT ![j].artifact = call[p].artifact, ![j].state = "queued"]
    <3>1. /\ \A i \in Jobs : i # j => job'[i] = job[i]
          /\ job'[j].state = "queued" /\ job'[j].attempt = job[j].attempt
          /\ job'[j].lease = job[j].lease
      BY <1>0, <2>4 DEF JobRecords
    <3>2. job[j].attempt = 0 /\ job[j].lease = Null
      BY <1>0, <2>4 DEF JobOK
    <3> QED BY <2>2, <2>4, <3>1, <3>2 DEF JobLives
  <2> QED BY <2>1, <2>3, <2>4
<1>6. ASSUME NEW p \in Clients, CancelJob(p) PROVE Goal
  <2>1. call[p].copy.jobId \in Jobs /\ leases' = leases /\ drawn' = drawn
    BY <1>6 DEF CancelJob, On, TypeInv, CallOK, history
  <2>2. CASE job[call[p].copy.jobId].state \in {"queued", "running"}
    BY <1>3, <1>6, <2>1, <2>2 DEF CancelJob
  <2>3. CASE job[call[p].copy.jobId].state \notin {"queued", "running"}
    BY <1>6, <2>3 DEF CancelJob, JobLives
  <2> QED BY <2>2, <2>3
<1>7. ASSUME NEW gone, Drop(gone), leases' = leases, \A j \in gone : job[j].state # "new"
      PROVE  Goal
  <2>1. PICK n : n = [NewJob EXCEPT !.state = "gone"]
    OBVIOUS
  <2>2. n.state = "gone" /\ n.attempt = 0 /\ n.lease = Null
    BY <2>1 DEF NewJob
  <2>3. \A j \in Jobs : job'[j] = job[j] \/ (j \in gone /\ job'[j] = n)
    BY <1>7, <2>1 DEF Drop
  <2> QED BY <1>7, <2>2, <2>3 DEF JobLives
<1>8. ASSUME NEW p \in Clients, PurgeJobs(p) PROVE Goal
  BY <1>7, <1>8 DEF PurgeJobs
<1>9. ASSUME NEW j \in Jobs, LeaseRunsOut(j) PROVE Goal
  <2>1. leases' = leases /\ drawn' = drawn /\ job[j].state = "running"
    BY <1>9 DEF LeaseRunsOut, history
  <2>2. job[j].attempt \in 1..MaxAttempts /\ MaxAttempts \in Nat
    BY <1>0, <2>1, ProcessingAssumption DEF JobOK
  <2>3. PICK s \in {"queued", "failed"} :
          /\ Settle(j, s) /\ (s = "queued" => job[j].attempt < MaxAttempts)
          /\ s = "failed" => job[j].attempt = MaxAttempts
    BY <1>9, <2>2 DEF LeaseRunsOut
  <2> QED BY <1>3, <2>1, <2>3
<1>10. ASSUME NEW j \in Jobs, ForgetJob(j) PROVE Goal
  BY <1>7, <1>10 DEF ForgetJob, IsTerminal
<1> QED BY <1>1, <1>2, <1>4, <1>5, <1>6, <1>8, <1>9, <1>10, JobSteps DEF JobStep

\* A worker only ever shows the lease that it was granted with its job.
LEMMA LeasesAreShown ==
  ASSUME TypeInv, [Next]_vars, NEW w \in Workers, run'[w].job # Null
  PROVE  \/ run[w].job = run'[w].job /\ run[w].lease = run'[w].lease
         \/ run'[w].lease = leases + 1 /\ leases' = leases + 1
<1>1. RunOK(run[w], leases) /\ RunOK(run'[w], leases')
  BY NextTypes DEF TypeInv
<1>2. ~Resting(run'[w])
  BY <1>1 DEF RunOK
<1>3. CASE Claim(w)
  <2>1. PICK r : /\ To(w, r) /\ RunOK(r, leases + 1) /\ r.lease = leases + 1 /\ leases' = leases + 1
    BY <1>3, ClaimMove
  <2>2. run[w].pc = "claim" /\ leases \in Nat
    BY <1>3 DEF Claim, At, TypeInv, QueueTypes
  <2>3. run'[w] = r \/ run'[w] = Caught(run[w])
    BY <2>1, <2>2, WorkerMoves
  <2>4. Resting(Caught(run[w]))
    BY <2>2, OffOK DEF Caught
  <2> QED BY <1>2, <2>1, <2>3, <2>4
<1>4. CASE GoesOn(w, run'[w])
  BY <1>2, <1>4 DEF GoesOn
<1> QED BY <1>3, <1>4, WorkersGoOn

\* Whatever they read before and however often they stall, crash and throw,
\* workers, requests and the deletion of the case take every job through the
\* life that the queue promises.
THEOREM QueueIsUsedAsPromised == Spec => QueueSpec
<1>1. Init => Queue!Init
  <2> SUFFICES ASSUME Init PROVE Queue!Init
    OBVIOUS
  <2>1. \A w \in Workers : run[w].job = Null
    BY DEF Init, Off
  <2>2. {[jobId |-> run[w].job, leaseId |-> run[w].lease] : w \in {v \in Workers : run[v].job # Null}} = {}
    BY <2>1
  <2>3. /\ [j \in Jobs |-> job[j].state] = [j \in Jobs |-> "new"]
        /\ [j \in Jobs |-> job[j].attempt] = [j \in Jobs |-> 0]
        /\ [j \in Jobs |-> job[j].lease] = [j \in Jobs |-> Null]
        /\ leases = 0
    BY DEF Init, NewJob
  <2> QED BY <2>2, <2>3 DEF Queue!Init
<1>2. TypeInv /\ [Next]_vars => [Queue!Next]_(Queue!vars)
  <2> SUFFICES ASSUME TypeInv, [Next]_vars PROVE Queue!Next
    OBVIOUS
  <2>1. /\ \A j \in Jobs : Queue!Move(j)
        /\ leases' \in {leases, leases + 1}
    BY JobsLive, LifeIsAMove, ProcessingAssumption
  <2> DEFINE Shown == {[jobId |-> run[w].job, leaseId |-> run[w].lease] :
                         w \in {v \in Workers : run[v].job # Null}}
  <2>2. ASSUME NEW c \in Shown' \ Shown PROVE c.leaseId = leases + 1 /\ leases' = leases + 1
    <3>1. PICK w \in Workers : run'[w].job # Null /\ c = [jobId |-> run'[w].job, leaseId |-> run'[w].lease]
      BY <2>2
    <3>2. CASE run[w].job = run'[w].job /\ run[w].lease = run'[w].lease
      <4>1. c \in Shown
        BY <3>1, <3>2
      <4> QED BY <2>2, <4>1
    <3>3. CASE run'[w].lease = leases + 1 /\ leases' = leases + 1
      BY <3>1, <3>3
    <3> QED BY <3>1, <3>2, <3>3, LeasesAreShown
  <2> QED BY <2>1, <2>2 DEF Queue!Next
<1> QED BY <1>1, <1>2, ProcessingInvariant, PTL DEF Spec, QueueSpec, Queue!Spec
==============================================================================
