----------------------------- MODULE JobQueueCas ------------------------------
(***************************************************************************)
(* PersistentBoundedJobQueue as it runs: several callers, each of which    *)
(* reads the stored text, computes the next snapshot on its own copy and   *)
(* writes it back only if the text has not changed meanwhile               *)
(* (JobQueueStateStore.writeTextIfUnchanged), retrying a bounded number of *)
(* times.  The text contains the revision, which every write increments,   *)
(* so two equal texts are the same write: the text is modelled by its      *)
(* revision and its records.                                               *)
(***************************************************************************)
EXTENDS JobQueueOps

CONSTANTS
  Callers,               \* concurrent calls of the queue's methods
  ClientCommands,        \* enqueue, claim, purge and get calls they may make
  MaxContentionRetries,  \* option of the queue
  ClaimTypes, MaxClaims, \* as in JobQueue
  MaxClock, MaxRevision  \* bounds: time stops, no further call starts

ASSUME CasAssumption ==
  /\ MaxContentionRetries \in Nat \ {0}
  /\ MaxClock \in Nat /\ MaxRevision \in Nat
  /\ IsFiniteSet(Callers) /\ MaxClaims \in Nat

(* What the clients call, lease commands and cancellations apart.          *)
ASSUME CommandsAssumption ==
  ClientCommands \subseteq
    [op : {"enqueue"}, request : Requests]
    \cup [op : {"claim"}, worker : Workers, types : ClaimTypes]
    \cup [op : {"purge"}, caseId : {q.caseId : q \in Requests}]
    \cup [op : {"get"}]

VARIABLES
  records, revision,   \* the stored text; revision 0: nothing stored yet
  issued, leases, claims, clock,
  call                 \* call[p]: the call p is in the middle of, or Null

vars == <<records, revision, issued, leases, claims, clock, call>>

Init ==
  /\ records = [j \in {} |-> Null]
  /\ revision = 0
  /\ issued = {}
  /\ leases = 0
  /\ claims = {}
  /\ clock = 0
  /\ call = [p \in Callers |-> Null]

-----------------------------------------------------------------------------
(* operation(records, now): the snapshots a command may produce from the   *)
(* text it has read.                                                       *)
ClaimResults(worker, types) ==
  LET m     == Maintained(records, clock)
      ready == Candidates(m, clock, types)
  IN  IF ready = {} THEN {m}
      ELSE {AfterClaim(records, clock, id, worker, leases + 1) : id \in ready}

Results(cmd) ==
  CASE cmd.op = "enqueue"  -> {AfterEnqueue(records, clock, id, cmd.request) :
                                 id \in JobIds \ issued}
    [] cmd.op = "claim"    -> ClaimResults(cmd.worker, cmd.types)
    [] cmd.op = "renew"    -> {AfterRenew(records, clock, cmd.claim)}
    [] cmd.op = "complete" -> {AfterComplete(records, clock, cmd.claim)}
    [] cmd.op = "fail"     -> {AfterFail(records, clock, cmd.claim, cmd.retryable)}
    [] cmd.op = "cancel"   -> {AfterCancel(records, clock, cmd.id, cmd.request.actor,
                                 cmd.request.caseId, cmd.request.expectedRevision)}
    [] cmd.op = "purge"    -> {AfterPurgeDeletedCase(records, clock, cmd.caseId)}
    [] cmd.op = "get"      -> {Maintained(records, clock)}

(* Something to write: the first text, a changed record, or a renewal (even*)
(* one that sets the expiry to what it was).                               *)
Changed(cmd, next) ==
  \/ revision = 0
  \/ next # records
  \/ cmd.op = "renew" /\ HoldsLease(records, cmd.claim)

(* readText() and everything up to the write; a call with nothing to write *)
(* returns at once.                                                        *)
Read(p, cmd, tries, since) ==
  \E next \in Results(cmd) :
    call' = [call EXCEPT ![p] =
      IF Changed(cmd, next)
        THEN [cmd |-> cmd, base |-> revision, next |-> next,
              tries |-> tries, since |-> since]
        ELSE Null]

(* The commands that may be issued now: a lease command by the worker that *)
(* was granted the lease, a cancellation by a client that knows the job.   *)
Commands ==
  ClientCommands
  \cup [op : {"renew", "complete"}, claim : claims]
  \cup [op : {"fail"}, claim : claims, retryable : BOOLEAN]
  \cup [op : {"cancel"}, id : issued, request : Requests]

Claiming == {p \in Callers : call[p] # Null /\ call[p].cmd.op = "claim"}

Begin(p, cmd) ==
  /\ call[p] = Null
  /\ revision < MaxRevision
  /\ cmd.op = "claim" => Cardinality(claims) + Cardinality(Claiming) < MaxClaims
  /\ Read(p, cmd, 0, revision)
  /\ UNCHANGED <<records, revision, issued, leases, claims, clock>>

(* FAULT: the write is not conditional.                                    *)
AlwaysUnchanged(p) == TRUE

(* FAULT: the stored text is compared after its maintenance.               *)
UnchangedWhenMaintained(p) ==
  revision = call[p].base /\ Maintained(records, clock) = records

(* writeTextIfUnchanged() compares and writes under one row update (or one *)
(* file lock).                                                             *)
Unchanged(p) == revision = call[p].base

NewLeases(next) == {j \in DOMAIN next : next[j].leaseId \notin {Null} \cup 1 .. leases}

Commit(p) ==
  /\ call[p] # Null
  /\ Unchanged(p)
  /\ LET next == call[p].next
         new  == NewLeases(next)
     IN  /\ records' = next
         /\ issued' = issued \cup DOMAIN next
         /\ leases' = leases + Cardinality(new)
         /\ claims' = claims \cup
              {[jobId |-> j, leaseId |-> next[j].leaseId,
                workerId |-> next[j].workerId] : j \in new}
  /\ revision' = revision + 1
  /\ call' = [call EXCEPT ![p] = Null]
  /\ UNCHANGED clock

(* The write was refused: read again, or give up with JOB_QUEUE_CONTENTION.*)
Retry(p) ==
  /\ call[p] # Null
  /\ ~Unchanged(p)
  /\ LET tries == call[p].tries + 1
     IN  IF tries < MaxContentionRetries
           THEN Read(p, call[p].cmd, tries, call[p].since)
           ELSE call' = [call EXCEPT ![p] = Null]
  /\ UNCHANGED <<records, revision, issued, leases, claims, clock>>

(* The process dies in the middle of a call.                               *)
Crash(p) ==
  /\ call[p] # Null
  /\ call' = [call EXCEPT ![p] = Null]
  /\ UNCHANGED <<records, revision, issued, leases, claims, clock>>

(* A worker's run ends; it has awaited its calls, or has crashed in them.  *)
Drop(claim) ==
  /\ \A p \in Callers : call[p] # Null =>
       ~(call[p].cmd.op \in {"renew", "complete", "fail"} /\ call[p].cmd.claim = claim)
  /\ claims' = claims \ {claim}
  /\ UNCHANGED <<records, revision, issued, leases, clock, call>>

Tick ==
  /\ clock < MaxClock
  /\ clock' = clock + 1
  /\ UNCHANGED <<records, revision, issued, leases, claims, call>>

Next ==
  \/ \E p \in Callers : \/ \E cmd \in Commands : Begin(p, cmd)
                        \/ Commit(p) \/ Retry(p) \/ Crash(p)
  \/ \E c \in claims : Drop(c)
  \/ Tick

Spec == Init /\ [][Next]_vars

-----------------------------------------------------------------------------
(* Properties. *)

(* Concurrent calls behave as if each had happened at one instant: the     *)
(* read-compute-compare-and-swap loop implements the atomic queue, where a *)
(* caller's clock may be as old as its read.                               *)
Atomic == INSTANCE JobQueue WITH Skew <- MaxClock

AtomicSpec == Atomic!Spec

(* A call is only ever refused because others succeeded: each of its       *)
(* failed tries is paid for by another caller's commit, so contention      *)
(* never stops everybody.                                                  *)
ContentionMeansProgress ==
  \A p \in Callers : call[p] # Null => call[p].tries <= revision - call[p].since
==============================================================================
