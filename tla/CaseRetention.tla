--------------------------- MODULE CaseRetention ---------------------------
(***************************************************************************)
(* How the data of a rental case leaves the system.                        *)
(*                                                                         *)
(* A case is erased in two ways.  Its owner deletes it: a transaction      *)
(* marks the case and files a deletion request, then the web process       *)
(* removes the files and erases the rows.  What the web process leaves     *)
(* undone the retention worker finishes: it is started by the host, claims *)
(* a batch of expired guests and waiting requests one at a time, removes   *)
(* their files and erases their rows.  An expired guest takes all of its   *)
(* cases along, unless a case was transferred to an account before.        *)
(*                                                                         *)
(* Every database transaction is one step: each locks the rows it decides  *)
(* by.  Between the steps anything may happen: the other worker, the       *)
(* owner, an upload that was admitted before the case was marked, the end  *)
(* of the guest's day, an error, the death of a process.                   *)
(*                                                                         *)
(* A definition marked FAULT is a wrong version of the one below it, which *)
(* nothing uses; the README says which property fails with it.             *)
(***************************************************************************)
EXTENDS Naturals, FiniteSets

CONSTANTS
  Guests,       \* guest identities; each has the one session it was created with
  Users,        \* accounts
  Cases,        \* rental cases
  Artifacts,    \* uploads of images and of PDF files with a text layer
  Workers,      \* processes of the retention script
  FirstOwner,   \* who created each case
  Limit,        \* targets a worker attempts in one run
  MaxFaults,    \* bound: errors of the database and of the file system
  MaxCrashes,   \* bound: deaths of a process
  Nobody        \* no owner, no case, no target

ASSUME RetentionAssumption ==
  /\ FirstOwner \in [Cases -> Guests \cup Users] /\ IsFiniteSet(Cases)
  /\ Limit \in Nat \ {0} /\ MaxFaults \in Nat /\ MaxCrashes \in Nat
  /\ Guests \cap Users = {} /\ Guests \cap Cases = {}
  /\ Nobody \notin Guests \cup Users \cup Cases

VARIABLES
  purge,      \* guest_identities.purge_state, "gone" when the row is deleted
  expired,    \* the guests whose expires_at has passed
  cases,      \* rental_cases: status and owner
  rows,       \* case_artifacts: state and owner
  dirs,       \* the artifacts that have a directory on disk
  requests,   \* deletion_requests: status, requester and order of requested_at
  uploads,    \* where each upload is
  deletions,  \* where the owner's own deletion of each case is
  transfers,  \* the account that is about to take a guest's case over
  workers,    \* where each retention worker is
  forsaken,   \* history: requests whose worker could not report its failure
  mishaps     \* how many errors and crashes have happened

database == <<purge, cases, rows, requests>>
vars == <<purge, expired, cases, rows, dirs, requests, uploads, deletions,
          transfers, workers, forsaken, mishaps>>

Owners == Guests \cup Users

-----------------------------------------------------------------------------
(* Who may act, and what belongs to what. *)

\* The actor of a request: an account, or a guest whose session is alive.
SignedIn(o) == o \in Guests => o \notin expired /\ purge[o] = "active"

Of(c) == {a \in Artifacts : uploads[a].case = c}

\* Rows the schema still holds for c; a case row cannot go before them.
RowsOf(c) == {a \in Of(c) : rows[a].state \notin {"none", "gone"}}

\* deleted_at is null
Undeleted(a) == rows[a].state \in {"quarantined", "available"}

\* FAULT: the cases a guest created, those it has transferred included.
CasesEverOf(g) == {c \in Cases : cases[c].status # "gone" /\ FirstOwner[c] = g}

CasesOf(g) == {c \in Cases : cases[c].status # "gone" /\ cases[c].owner = g}

Filed == {c \in Cases : requests[c].status # "none"}

SetStatus(cs, s) == [c \in Cases |-> IF c \in cs THEN [cases[c] EXCEPT !.status = s]
                                               ELSE cases[c]]
SetState(as, s) == [a \in Artifacts |-> IF a \in as THEN [rows[a] EXCEPT !.state = s]
                                                  ELSE rows[a]]

\* Every row of cs and of its artifacts is deleted, whoever owns it.
EraseRows(cs) ==
  /\ cases' = SetStatus(cs, "gone")
  /\ rows' = SetState(UNION {RowsOf(c) : c \in cs}, "gone")

\* An error, counted against the bound.
Fault == /\ mishaps.faults < MaxFaults
         /\ mishaps' = [mishaps EXCEPT !.faults = @ + 1]
NoFault == UNCHANGED mishaps

\* A run that is between two targets, and one that is over.
Idle(step, tried) == [at |-> step, target |-> Nobody, caseIds |-> {}, todo |-> {}, tried |-> tried]
Off == Idle("off", {})

NoDeletion == [at |-> "idle", by |-> Nobody]

Init ==
  /\ purge = [g \in Guests |-> "active"]
  /\ expired = {}
  /\ cases = [c \in Cases |-> [status |-> "open", owner |-> FirstOwner[c]]]
  /\ rows = [a \in Artifacts |-> [state |-> "none", owner |-> Nobody]]
  /\ dirs = {}
  /\ requests = [c \in Cases |-> [status |-> "none", by |-> Nobody, at |-> 0]]
  /\ uploads = [a \in Artifacts |-> [at |-> "idle", case |-> Nobody, by |-> Nobody, lost |-> FALSE]]
  /\ deletions = [c \in Cases |-> NoDeletion]
  /\ transfers = [c \in Cases |-> Nobody]
  /\ workers = [r \in Workers |-> Off]
  /\ forsaken = {}
  /\ mishaps = [faults |-> 0, crashes |-> 0]

-----------------------------------------------------------------------------
(* An upload: admitted, reserved, saved, finalized, or undone. *)

Goes(a, step) == uploads' = [uploads EXCEPT ![a].at = step]

\* The actor is resolved and owns the case; the body is still to be read.
Receive(a, c) ==
  /\ uploads[a].at = "idle"
  /\ cases[c].status = "open" /\ SignedIn(cases[c].owner)
  /\ uploads' = [uploads EXCEPT ![a].at = "received", ![a].case = c, ![a].by = cases[c].owner]
  /\ UNCHANGED <<database, expired, dirs, deletions, transfers, workers, forsaken, mishaps>>

Admits(a) == cases[uploads[a].case] = [status |-> "open", owner |-> uploads[a].by]

Reserve(a) ==
  /\ uploads[a].at = "received"
  /\ IF Admits(a)
     THEN /\ rows' = [rows EXCEPT ![a] = [state |-> "quarantined", owner |-> uploads[a].by]]
          /\ Goes(a, "reserved")
     ELSE Goes(a, "ended") /\ UNCHANGED rows
  /\ UNCHANGED <<purge, cases, requests, expired, dirs, deletions, transfers, workers, forsaken, mishaps>>

\* The directory is made before anything is written to it: an error leaves it.
Save(a) ==
  /\ uploads[a].at = "reserved"
  /\ dirs' = dirs \cup {a}
  /\ \/ Goes(a, "saved") /\ NoFault
     \/ Goes(a, "undo") /\ Fault
  /\ UNCHANGED <<database, expired, deletions, transfers, workers, forsaken>>

\* The row is still in quarantine, under the actor who reserved it.
CanFinalize(a) == rows[a] = [state |-> "quarantined", owner |-> uploads[a].by]

Finalize(a) ==
  /\ uploads[a].at = "saved"
  /\ \/ /\ CanFinalize(a)
        /\ rows' = SetState({a}, "available")
        /\ \/ Goes(a, "done") /\ NoFault
           \/ \* committed, but reported as an error: the caller undoes it
              /\ uploads' = [uploads EXCEPT ![a].at = "undo", ![a].lost = TRUE]
              /\ Fault
     \/ ~CanFinalize(a) /\ Goes(a, "undo") /\ NoFault /\ UNCHANGED rows
     \/ Goes(a, "undo") /\ Fault /\ UNCHANGED rows
  /\ UNCHANGED <<purge, cases, requests, expired, dirs, deletions, transfers, workers, forsaken>>

\* FAULT: only the row is given up, the directory stays.
UndoSaveRowOnly(a) ==
  /\ uploads[a].at = "undo" /\ Goes(a, "abandon")
  /\ UNCHANGED <<database, expired, dirs, deletions, transfers, workers, forsaken, mishaps>>

\* Errors of the clean-up are swallowed.
UndoSave(a) ==
  /\ uploads[a].at = "undo"
  /\ \/ dirs' = dirs \ {a} /\ Goes(a, "abandon") /\ NoFault
     \/ /\ Fault /\ UNCHANGED dirs
        /\ uploads' = [uploads EXCEPT ![a].at = "abandon", ![a].lost = TRUE]
  /\ UNCHANGED <<database, expired, deletions, transfers, workers, forsaken>>

Abandon(a) ==
  /\ uploads[a].at = "abandon"
  /\ \/ /\ CanFinalize(a) /\ NoFault
        /\ rows' = SetState({a}, "deletion_pending")
     \/ ~CanFinalize(a) /\ NoFault /\ UNCHANGED rows
     \/ Fault /\ UNCHANGED rows
  /\ Goes(a, "ended")
  /\ UNCHANGED <<purge, cases, requests, expired, dirs, deletions, transfers, workers, forsaken>>

InFlight(a) == uploads[a].at \in {"received", "reserved", "saved", "undo", "abandon"}

Upload(a) == \/ Reserve(a) \/ Save(a) \/ Finalize(a) \/ UndoSave(a) \/ Abandon(a)

-----------------------------------------------------------------------------
(* The owner deletes a case: mark it, remove its files, erase its rows. *)

Turns(c, step) == deletions' = [deletions EXCEPT ![c].at = step]
Stops(c) == deletions' = [deletions EXCEPT ![c] = NoDeletion]

AskDeletion(c) ==
  /\ deletions[c].at = "idle"
  /\ cases[c].status # "gone" /\ SignedIn(cases[c].owner)
  /\ deletions' = [deletions EXCEPT ![c] = [at |-> "mark", by |-> cases[c].owner]]
  /\ UNCHANGED <<database, expired, dirs, uploads, transfers, workers, forsaken, mishaps>>

\* A case that is marked already is found again, and its deletion taken up.
Found(c) == cases[c].status # "gone" /\ cases[c].owner = deletions[c].by

Marked(c) ==
  /\ cases' = SetStatus({c}, "deleting")
  /\ rows' = SetState({a \in Of(c) : Undeleted(a) /\ rows[a].owner = cases[c].owner}, "deletion_pending")
  /\ requests' = [requests EXCEPT ![c] =
       [status |-> "pending", by |-> cases[c].owner, at |-> Cardinality(Filed) + 1]]

MarkCase(c) ==
  /\ deletions[c].at = "mark"
  /\ \/ /\ Found(c)
        /\ IF cases[c].status = "open" THEN Marked(c) ELSE UNCHANGED <<cases, rows, requests>>
        /\ \/ Turns(c, "files") /\ NoFault
           \/ Stops(c) /\ Fault
     \/ /\ ~Found(c) /\ Stops(c) /\ NoFault
        /\ UNCHANGED <<cases, rows, requests>>
     \/ /\ Stops(c) /\ Fault
        /\ UNCHANGED <<cases, rows, requests>>
  /\ UNCHANGED <<purge, expired, dirs, uploads, transfers, workers, forsaken>>

RemoveCaseFiles(c) ==
  /\ deletions[c].at = "files"
  /\ \/ dirs' = dirs \ Of(c) /\ Turns(c, "rows") /\ NoFault
     \/ UNCHANGED dirs /\ Stops(c) /\ Fault
  /\ UNCHANGED <<database, expired, uploads, transfers, workers, forsaken>>

\* Only the owner's own rows that are marked are deleted: another one left
\* behind violates the foreign key, and a request that a worker has failed
\* does not take the completion.
CanComplete(c) ==
  /\ Found(c) /\ cases[c].status = "deleting"
  /\ \A a \in RowsOf(c) : rows[a] = [state |-> "deletion_pending", owner |-> deletions[c].by]
  /\ requests[c].by = deletions[c].by
  /\ requests[c].status \in {"pending", "processing"}

CompleteCaseDeletion(c) ==
  /\ deletions[c].at = "rows"
  /\ \/ /\ CanComplete(c)
        /\ EraseRows({c})
        /\ requests' = [requests EXCEPT ![c].status = "completed"]
        /\ NoFault \/ Fault
     \/ /\ ~CanComplete(c) /\ NoFault
        /\ UNCHANGED <<cases, rows, requests>>
     \/ /\ Fault
        /\ UNCHANGED <<cases, rows, requests>>
  /\ Stops(c)
  /\ UNCHANGED <<purge, expired, dirs, uploads, transfers, workers, forsaken>>

Deletion(c) == MarkCase(c) \/ RemoveCaseFiles(c) \/ CompleteCaseDeletion(c)

-----------------------------------------------------------------------------
(* A guest keeps a case by transferring it to an account. *)

AskTransfer(c, u) ==
  /\ transfers[c] = Nobody
  /\ cases[c].owner \in Guests /\ cases[c].status # "gone" /\ SignedIn(cases[c].owner)
  /\ transfers' = [transfers EXCEPT ![c] = u]
  /\ UNCHANGED <<database, expired, dirs, uploads, deletions, workers, forsaken, mishaps>>

\* FAULT: the transfer asks for the session alone, not for the identity's purge.
CanTransferWhilePurged(c) == cases[c].status = "open" /\ cases[c].owner \in Guests

\* The transaction locks the identity and the case.  It judges the expiry by
\* the time it was asked at, the purge by what the worker has written since.
CanTransfer(c) ==
  /\ cases[c].status = "open" /\ cases[c].owner \in Guests
  /\ purge[cases[c].owner] = "active"

TransferGuestCase(c) ==
  /\ transfers[c] # Nobody
  /\ IF CanTransfer(c)
     THEN /\ cases' = [cases EXCEPT ![c].owner = transfers[c]]
          /\ rows' = [a \in Artifacts |->
               IF a \in Of(c) /\ Undeleted(a) THEN [rows[a] EXCEPT !.owner = transfers[c]]
                                              ELSE rows[a]]
     ELSE UNCHANGED <<cases, rows>>
  /\ transfers' = [transfers EXCEPT ![c] = Nobody]
  /\ UNCHANGED <<purge, requests, expired, dirs, uploads, deletions, workers, forsaken, mishaps>>

-----------------------------------------------------------------------------
(* The retention worker: one run claims, erases and reports up to Limit    *)
(* targets, then removes the metadata that has outlived its use.           *)

To(r, step) == workers' = [workers EXCEPT ![r].at = step]
Ends(r) == workers' = [workers EXCEPT ![r] = Off]

StartRun(r) ==
  /\ workers[r].at = "off"
  /\ workers' = [workers EXCEPT ![r] = Idle("claim", {})]
  /\ UNCHANGED <<database, expired, dirs, uploads, deletions, transfers, forsaken, mishaps>>

\* FAULT: the rows are erased first, and the files forgotten.
TakesRowsFirst(r, target, cs) ==
  workers' = [workers EXCEPT ![r] =
    [at |-> "rows", target |-> target, caseIds |-> cs, todo |-> cs, tried |-> @.tried \cup {target}]]

Takes(r, target, cs) ==
  workers' = [workers EXCEPT ![r] =
    [at |-> IF cs = {} THEN "rows" ELSE "files",
     target |-> target, caseIds |-> cs, todo |-> cs, tried |-> @.tried \cup {target}]]

\* Expired guests come first; one whose purge failed is pending and due again.
Due(r) == {g \in expired \ workers[r].tried : purge[g] \in {"active", "pending"}}

\* FAULT: a request is claimed although another run is processing it.
WaitingOrHeld(r) ==
  {c \in Cases \ workers[r].tried : requests[c].status \in {"pending", "processing", "failed"}}

\* FAULT: a request that failed is not claimed again.
WaitingOnce(r) == {c \in Cases \ workers[r].tried : requests[c].status = "pending"}

Waiting(r) == {c \in Cases \ workers[r].tried : requests[c].status \in {"pending", "failed"}}

Oldest(cs) == CHOOSE c \in cs : \A d \in cs : requests[c].at <= requests[d].at

\* The request still finds the case it names, marked, under its requester.
HasTarget(c) == cases[c] = [status |-> "deleting", owner |-> requests[c].by]

ClaimGuest(r) ==
  \E g \in Due(r) :
    /\ purge' = [purge EXCEPT ![g] = "pending"]
    /\ Takes(r, g, CasesOf(g))
    /\ UNCHANGED requests

ClaimRequest(r) ==
  /\ Due(r) = {} /\ Waiting(r) # {}
  /\ LET c == Oldest(Waiting(r)) IN
       IF HasTarget(c)
       THEN /\ requests' = [requests EXCEPT ![c].status = "processing"]
            /\ Takes(r, c, {c})
       ELSE \* no target is returned, and the run takes that for the end
            /\ requests' = [requests EXCEPT ![c].status = "failed"]
            /\ workers' = [workers EXCEPT ![r] = Idle("metadata", {})]
  /\ UNCHANGED purge

ClaimNothing(r) ==
  /\ Due(r) = {} /\ Waiting(r) = {}
  /\ workers' = [workers EXCEPT ![r] = Idle("metadata", {})]
  /\ UNCHANGED <<purge, requests>>

ClaimNext(r) ==
  /\ workers[r].at = "claim"
  /\ ClaimGuest(r) \/ ClaimRequest(r) \/ ClaimNothing(r)
  /\ UNCHANGED <<cases, rows, expired, dirs, uploads, deletions, transfers, forsaken, mishaps>>

RemoveFiles(r) ==
  /\ workers[r].at = "files"
  /\ \/ \E c \in workers[r].todo :
          /\ dirs' = dirs \ Of(c)
          /\ workers' = [workers EXCEPT ![r].todo = @ \ {c},
                           ![r].at = IF workers[r].todo = {c} THEN "rows" ELSE "files"]
          /\ NoFault
     \/ To(r, "fail") /\ Fault /\ UNCHANGED dirs
  /\ UNCHANGED <<database, expired, uploads, deletions, transfers, forsaken>>

\* The next target of the batch, if the limit allows one.
GoesOn(r) ==
  workers' = [workers EXCEPT ![r] =
    IF Cardinality(@.tried) < Limit THEN Idle("claim", @.tried) ELSE Idle("metadata", {})]

\* All the claimed cases are still there to be deleted, and the target still
\* is as the claim left it.
CanErase(r) ==
  /\ \A c \in workers[r].caseIds : cases[c].status # "gone"
  /\ IF workers[r].target \in Guests THEN purge[workers[r].target] = "pending"
                                     ELSE requests[workers[r].target].status = "processing"

Erase(r) ==
  /\ EraseRows(workers[r].caseIds)
  /\ IF workers[r].target \in Guests
     THEN purge' = [purge EXCEPT ![workers[r].target] = "gone"] /\ UNCHANGED requests
     ELSE requests' = [requests EXCEPT ![workers[r].target].status = "completed"] /\ UNCHANGED purge

CompleteTarget(r) ==
  /\ workers[r].at = "rows"
  /\ \/ CanErase(r) /\ Erase(r) /\ GoesOn(r) /\ NoFault
     \/ CanErase(r) /\ Erase(r) /\ To(r, "fail") /\ Fault
     \/ ~CanErase(r) /\ To(r, "fail") /\ NoFault /\ UNCHANGED database
     \/ To(r, "fail") /\ Fault /\ UNCHANGED database
  /\ UNCHANGED <<expired, dirs, uploads, deletions, transfers, forsaken>>

\* What fail() writes: the guest stays due, the request is to be tried again.
Failed(r) ==
  IF workers[r].target \in Guests
  THEN /\ purge' = [g \in Guests |-> IF g = workers[r].target /\ purge[g] # "gone"
                                     THEN "pending" ELSE purge[g]]
       /\ UNCHANGED requests
  ELSE /\ requests' = [c \in Cases |->
            IF c = workers[r].target /\ requests[c].status = "processing"
            THEN [requests[c] EXCEPT !.status = "failed"] ELSE requests[c]]
       /\ UNCHANGED purge

FailTarget(r) ==
  /\ workers[r].at = "fail"
  /\ \/ Failed(r) /\ NoFault /\ UNCHANGED forsaken
     \/ /\ Fault /\ UNCHANGED <<purge, requests>>
        /\ forsaken' = forsaken \cup ({workers[r].target} \cap Cases)
  /\ GoesOn(r)
  /\ UNCHANGED <<cases, rows, expired, dirs, uploads, deletions, transfers>>

\* Completed requests go after 21 days; how many of them are that old is open.
PurgeExpiredMetadata(r) ==
  /\ workers[r].at = "metadata"
  /\ \E old \in SUBSET {c \in Cases : requests[c].status = "completed"} :
       requests' = [c \in Cases |-> IF c \in old THEN [requests[c] EXCEPT !.status = "removed"]
                                                 ELSE requests[c]]
  /\ Ends(r)
  /\ UNCHANGED <<purge, cases, rows, expired, dirs, uploads, deletions, transfers, forsaken, mishaps>>

Worker(r) == \/ StartRun(r) \/ ClaimNext(r) \/ RemoveFiles(r) \/ CompleteTarget(r)
             \/ FailTarget(r) \/ PurgeExpiredMetadata(r)

-----------------------------------------------------------------------------
(* Time and processes. *)

Expire(g) ==
  /\ g \notin expired
  /\ expired' = expired \cup {g}
  /\ UNCHANGED <<database, dirs, uploads, deletions, transfers, workers, forsaken, mishaps>>

Crash == /\ mishaps.crashes < MaxCrashes
         /\ mishaps' = [mishaps EXCEPT !.crashes = @ + 1]

\* The web process dies, with the uploads and deletions it was serving.
WebCrash ==
  /\ Crash
  /\ uploads' = [a \in Artifacts |-> IF InFlight(a) THEN [uploads[a] EXCEPT !.at = "ended", !.lost = TRUE]
                                                    ELSE uploads[a]]
  /\ deletions' = [c \in Cases |-> NoDeletion]
  /\ transfers' = [c \in Cases |-> Nobody]
  /\ UNCHANGED <<database, expired, dirs, workers, forsaken>>

\* A retention process dies; nobody reports the request it held.
WorkerCrash(r) ==
  /\ workers[r].at # "off" /\ Crash
  /\ Ends(r)
  /\ forsaken' = forsaken \cup ({workers[r].target} \cap Cases)
  /\ UNCHANGED <<database, expired, dirs, uploads, deletions, transfers>>

Next ==
  \/ \E a \in Artifacts, c \in Cases : Receive(a, c)
  \/ \E a \in Artifacts : Upload(a)
  \/ \E c \in Cases : AskDeletion(c) \/ Deletion(c)
  \/ \E c \in Cases, u \in Users : AskTransfer(c, u)
  \/ \E c \in Cases : TransferGuestCase(c)
  \/ \E r \in Workers : Worker(r) \/ WorkerCrash(r)
  \/ \E g \in Guests : Expire(g)
  \/ WebCrash

Spec == Init /\ [][Next]_vars

\* The host starts the worker again and again; a process that is in the middle
\* of something goes on with it.  An owner need not ask for anything twice.
Fairness ==
  /\ \A r \in Workers : WF_vars(Worker(r))
  /\ \A a \in Artifacts : WF_vars(Upload(a))
  /\ \A c \in Cases : WF_vars(Deletion(c)) /\ WF_vars(TransferGuestCase(c))

FairSpec == Spec /\ Fairness

-----------------------------------------------------------------------------
(* Properties. *)

CaseRow == [status : {"open", "deleting", "gone"}, owner : Owners]
ArtifactRow == [state : {"none", "quarantined", "available", "deletion_pending", "gone"},
                owner : Owners \cup {Nobody}]
RequestRow == [status : {"none", "pending", "processing", "completed", "failed", "removed"},
               by : Owners \cup {Nobody}, at : 0..Cardinality(Cases)]
UploadState ==
  [at : {"idle", "received", "reserved", "saved", "undo", "abandon", "done", "ended"},
   case : Cases \cup {Nobody}, by : Owners \cup {Nobody}, lost : BOOLEAN]
DeletionState == [at : {"idle", "mark", "files", "rows"}, by : Owners \cup {Nobody}]
WorkerState ==
  [at : {"off", "claim", "files", "rows", "fail", "metadata"},
   target : Guests \cup Cases \cup {Nobody}, caseIds : SUBSET Cases, todo : SUBSET Cases,
   tried : SUBSET (Guests \cup Cases)]

\* A worker's target suits its step.
Coherent(w) ==
  /\ w.at \in {"files", "rows", "fail"} <=> w.target # Nobody
  /\ w.target \in Cases => w.caseIds = {w.target}
  /\ w.at = "rows" => w.todo = {}

\* Every table holds the states its check constraints allow, and every process
\* stands at a step of its code with a target that suits it.
TypeOK ==
  /\ purge \in [Guests -> {"active", "pending", "gone"}]
  /\ expired \subseteq Guests
  /\ cases \in [Cases -> CaseRow]
  /\ rows \in [Artifacts -> ArtifactRow]
  /\ dirs \subseteq Artifacts
  /\ requests \in [Cases -> RequestRow]
  /\ uploads \in [Artifacts -> UploadState]
  /\ deletions \in [Cases -> DeletionState]
  /\ transfers \in [Cases -> Users \cup {Nobody}]
  /\ workers \in [Workers -> WorkerState]
  /\ \A r \in Workers : Coherent(workers[r])
  /\ forsaken \subseteq Cases
  /\ mishaps \in [faults : 0..MaxFaults, crashes : 0..MaxCrashes]

\* A deletion is called completed only when nothing of the case is left: no
\* row, and no file but of an upload that is about to remove its own
\* (docs/DECISIONS.md, D-058).  Uploads whose own clean-up was cut short are
\* the exception: nobody looks for their directories.
CompletedMeansErased ==
  \A c \in Cases : requests[c].status \in {"completed", "removed"} =>
    /\ cases[c].status = "gone"
    /\ RowsOf(c) = {}
    /\ \A a \in Of(c) \cap dirs : InFlight(a) \/ uploads[a].lost

\* As long as its owner can read a case, no clean-up has removed the files of
\* an artifact that the database offers for reading.
LiveCaseIsReadable ==
  \A a \in Artifacts :
    /\ rows[a].state = "available"
    /\ \E c \in Cases : uploads[a].case = c /\ cases[c].status = "open"
                        /\ cases[c].owner \notin expired
    => a \in dirs \/ uploads[a].lost

\* A case that belongs to an account is erased only after its owner has deleted
\* it: the expiry of the guest it came from, claimed just before the transfer,
\* does not take it along.
AccountCasesAreKept ==
  [][\A c \in Cases :
       cases[c].owner \in Users /\ cases[c].status = "open"
         => /\ cases'[c].status \in {"open", "deleting"}
            /\ cases'[c].status = "deleting" => requests'[c].by = cases[c].owner]_vars

\* No two runs of the worker hold the same request, and what is completed is
\* not failed again by a run or an owner whose answer came late.
OneRunPerRequest ==
  [][/\ \A r, s \in Workers :
          workers'[r].target \in Cases /\ workers'[r].target = workers'[s].target => r = s
     /\ \A c \in Cases : requests[c].status = "completed"
                           => requests'[c].status \in {"completed", "removed"}]_vars

\* A request that no longer finds its case.
Orphaned(c) == requests[c].status \in {"pending", "failed"} /\ ~HasTarget(c)

\* With the worker running, a case whose deletion was asked for is erased in
\* the end, whoever failed in between: unless a run died holding the request,
\* or a request without a case stands in the way.
DeletionFinishes ==
  \A c \in Cases : requests[c].status = "pending"
    ~> (cases[c].status = "gone" \/ c \in forsaken \/ \E d \in Cases : Orphaned(d))

\* docs/DECISIONS.md, D-058: a deletion that fails is tried again until the
\* case is erased.
EveryDeletionFinishes ==
  \A c \in Cases : requests[c].status = "pending" ~> cases[c].status = "gone"

=============================================================================
