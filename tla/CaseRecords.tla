----------------------------- MODULE CaseRecords -----------------------------
(* The PostgreSQL repositories of case states and of deletion requests     *)
(* (PostgresCaseStateRepository, PostgresDeletionRepository) under callers *)
(* that load a state, work on it and save it, and the retention worker,    *)
(* which removes what was asked to be deleted.  A statement, or the        *)
(* transaction of a deletion, is one action.                               *)
EXTENDS Naturals, Sequences

CONSTANTS
  None,
  Owners, CaseIds,
  Callers,           \* loads and saves under way at a time
  MaxSaves           \* bound: revisions of a case

Record ==
  [owner : Owners, status : {"draft", "deletion_pending"}, revision : Nat, works : Seq(Callers)]

RecordsAssumption ==
  /\ MaxSaves \in Nat
  /\ None \notin Record /\ None \notin {"pending", "completed"}

VARIABLES
  records,   \* rental_cases by id; the state is the list of the works in it
  requests,  \* deletion_requests by case: None, "pending" until "completed"
  caller     \* what each caller has loaded, and what it was answered

recordsVars == <<records, requests, caller>>

Idle == [pc |-> "idle", owner |-> None, caseId |-> None, revision |-> 0, works |-> << >>]

RecordsInit ==
  /\ records = [c \in CaseIds |-> None]
  /\ requests = [c \in CaseIds |-> None]
  /\ caller = [r \in Callers |-> Idle]

(* ownedCaseQuery: what is not the actor's own does not exist for it.      *)
Owned(owner, c) == records[c] # None /\ records[c].owner = owner

-----------------------------------------------------------------------------
(* create; an id that was used once, even by a case since removed, is not  *)
(* drawn again, for ids are random.  An id that is there is unavailable.   *)
Create(owner, c) ==
  /\ records[c] = None /\ requests[c] = None
  /\ records' = [records EXCEPT ![c] =
       [owner |-> owner, status |-> "draft", revision |-> 0, works |-> << >>]]
  /\ UNCHANGED <<requests, caller>>

Load(r, owner, c) ==
  /\ caller[r].pc \in {"idle", "saved", "conflict", "gone"}
  /\ Owned(owner, c)
  /\ caller' = [caller EXCEPT ![r] =
       [pc |-> "loaded", owner |-> owner, caseId |-> c,
        revision |-> records[c].revision, works |-> records[c].works]]
  /\ UNCHANGED <<records, requests>>

\* FAULT: the update does not compare the revision.
AnyRevision(r) == Owned(caller[r].owner, caller[r].caseId)

(* The conditions of the update in saveAtomic.                             *)
Matches(r) ==
  /\ Owned(caller[r].owner, caller[r].caseId)
  /\ records[caller[r].caseId].revision = caller[r].revision

\* FAULT: the whole row is written, as it was created.
StatusOfDraft(c) == "draft"

StatusKept(c) == records[c].status

(* saveAtomic up to the update; the caller's own work is its number.       *)
Update(r) ==
  LET c == caller[r].caseId
      works == Append(caller[r].works, r)
  IN
  /\ caller[r].pc = "loaded" /\ caller[r].revision < MaxSaves
  /\ IF Matches(r)
     THEN /\ records' = [records EXCEPT
               ![c].works = works, ![c].revision = caller[r].revision + 1,
               ![c].status = StatusKept(c)]
          /\ caller' = [caller EXCEPT
               ![r].pc = "saved", ![r].revision = @ + 1, ![r].works = works]
     ELSE caller' = [caller EXCEPT ![r].pc = "missed"] /\ UNCHANGED records
  /\ UNCHANGED requests

(* A second query tells a conflict from a case that is not visible.        *)
Look(r) ==
  /\ caller[r].pc = "missed"
  /\ caller' = [caller EXCEPT ![r].pc =
       IF Owned(caller[r].owner, caller[r].caseId) THEN "conflict" ELSE "gone"]
  /\ UNCHANGED <<records, requests>>

-----------------------------------------------------------------------------
(* requestCaseDeletion, one transaction that locks the row.                *)
RequestDeletion(owner, c) ==
  /\ Owned(owner, c)
  /\ records[c].status # "deletion_pending" /\ requests[c] = None
  /\ requests' = [requests EXCEPT ![c] = "pending"]
  /\ records' = [records EXCEPT ![c].status = "deletion_pending"]
  /\ UNCHANGED caller

(* The retention worker, in as many attempts as it needs (CaseRetention),  *)
(* removes the row and completes the request.                              *)
Remove(c) ==
  /\ requests[c] = "pending"
  /\ records' = [records EXCEPT ![c] = None]
  /\ requests' = [requests EXCEPT ![c] = "completed"]
  /\ UNCHANGED caller

RecordsNext ==
  \/ \E o \in Owners, c \in CaseIds : Create(o, c) \/ RequestDeletion(o, c)
  \/ \E r \in Callers, o \in Owners, c \in CaseIds : Load(r, o, c)
  \/ \E r \in Callers : Update(r) \/ Look(r)
  \/ \E c \in CaseIds : Remove(c)

RecordsSpec == RecordsInit /\ [][RecordsNext]_recordsVars

-----------------------------------------------------------------------------
RecordsTypeOK ==
  /\ records \in [CaseIds -> {None} \cup Record]
  /\ \A c \in CaseIds : records[c] # None => records[c].revision <= MaxSaves
  /\ requests \in [CaseIds -> {None, "pending", "completed"}]
  /\ \A r \in Callers :
       /\ caller[r].pc \in {"idle", "loaded", "saved", "missed", "conflict", "gone"}
       /\ caller[r].pc # "idle" => caller[r].caseId \in CaseIds

StartsWith(works, first) == Len(first) <= Len(works) /\ \A i \in DOMAIN first : works[i] = first[i]

(* No save is lost: all that a caller has read, and all that it was told   *)
(* is saved, stays at the beginning of the state as long as the case is    *)
(* there, whoever saves after it.                                          *)
SavesBuildOnEachOther ==
  \A r \in Callers :
    caller[r].pc # "idle" /\ records[caller[r].caseId] # None
    => StartsWith(records[caller[r].caseId].works, caller[r].works)

(* A case is marked as pending deletion exactly while a request waits for  *)
(* the worker: a save under way at the request does not unmark it.         *)
DeletionIsMarked ==
  \A c \in CaseIds :
    requests[c] = "pending" <=> records[c] # None /\ records[c].status = "deletion_pending"
=============================================================================
