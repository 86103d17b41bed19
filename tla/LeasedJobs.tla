----------------------------- MODULE LeasedJobs ------------------------------
(***************************************************************************)
(* What the job queue promises, without clocks, snapshots, priorities or   *)
(* capacity: the life of every job id.  A job is granted to at most        *)
(* MaxAttempts leases, one after the other; only a worker that still holds *)
(* the current lease makes it succeed; a settled job never changes again   *)
(* until it is forgotten, and a forgotten id never comes back.             *)
(*                                                                         *)
(* One operation of the queue may move several jobs (it takes back every   *)
(* expired lease on the way), so a step is a move or a stay of each job.   *)
(***************************************************************************)
EXTENDS Naturals

CONSTANTS JobIds, MaxAttempts, Null

VARIABLES
  phase,      \* phase[j]: where job j is in its life
  attempts,   \* attempts[j]: leases granted for j
  holder,     \* holder[j]: the lease j is running under, or Null
  leases,     \* number of leases granted so far; lease ids are 1..leases
  claims      \* the lease commands workers may still send

vars == <<phase, attempts, holder, leases, claims>>

Settled == {"succeeded", "failed", "cancelled"}

(* Somebody can still prove that it holds the lease of j's running attempt.*)
HeldByWorker(j) == \E c \in claims : c.jobId = j /\ c.leaseId = holder[j]

Init ==
  /\ phase = [j \in JobIds |-> "new"]
  /\ attempts = [j \in JobIds |-> 0]
  /\ holder = [j \in JobIds |-> Null]
  /\ leases = 0
  /\ claims = {}

Stay(j) ==
  /\ phase'[j] = phase[j]
  /\ attempts'[j] = attempts[j]
  /\ holder'[j] = holder[j]

Submit(j) ==
  /\ phase[j] = "new" /\ phase'[j] = "queued"
  /\ attempts'[j] = 0
  /\ holder'[j] = Null

(* A lease is granted to a waiting job, or to one whose lease ran out.     *)
Grant(j) ==
  /\ phase[j] \in {"queued", "running"} /\ phase'[j] = "running"
  /\ attempts[j] < MaxAttempts /\ attempts'[j] = attempts[j] + 1
  /\ leases' = leases + 1 /\ holder'[j] = leases'

Requeue(j) ==
  /\ phase[j] = "running" /\ phase'[j] = "queued"
  /\ attempts[j] < MaxAttempts /\ attempts'[j] = attempts[j]
  /\ holder'[j] = Null

Succeed(j) ==
  /\ phase[j] = "running" /\ HeldByWorker(j) /\ phase'[j] = "succeeded"
  /\ attempts'[j] = attempts[j]
  /\ holder'[j] = Null

Break(j) ==
  /\ phase[j] = "running" /\ phase'[j] = "failed"
  /\ HeldByWorker(j) \/ attempts[j] = MaxAttempts
  /\ attempts'[j] = attempts[j]
  /\ holder'[j] = Null

Cancel(j) ==
  /\ phase[j] \in {"queued", "running"} /\ phase'[j] = "cancelled"
  /\ attempts'[j] = attempts[j]
  /\ holder'[j] = Null

Forget(j) ==
  /\ phase[j] # "new" /\ phase'[j] = "gone"
  /\ attempts'[j] = 0
  /\ holder'[j] = Null

Move(j) ==
  \/ Stay(j) \/ Submit(j) \/ Grant(j) \/ Requeue(j)
  \/ Succeed(j) \/ Break(j) \/ Cancel(j) \/ Forget(j)

(* At most one job is granted a lease in a step; a new claim is only ever  *)
(* for the lease just granted.                                             *)
Next ==
  /\ \A j \in JobIds : Move(j)
  /\ leases' \in {leases, leases + 1}
  /\ \A c \in claims' \ claims : c.leaseId = leases + 1 /\ leases' = leases + 1

Spec == Init /\ [][Next]_vars
==============================================================================
