-------------------------- MODULE CaseRetentionProofs -------------------------
(***************************************************************************)
(* What is proved of the deletion of cases, for every number of guests,    *)
(* accounts, cases, uploads and workers.                                   *)
(*                                                                         *)
(* The argument: a case that is asked to be deleted has no row left that   *)
(* an upload could still finalize, so once its files are removed only      *)
(* uploads in flight, which remove their own, can bring one back; a guest  *)
(* that was claimed stays claimed, so its cases cannot be transferred; and *)
(* a request that a run holds is in no state that another run claims.      *)
(***************************************************************************)
EXTENDS CaseRetention, FiniteSetTheorems, WellFoundedInduction, TLAPS

-----------------------------------------------------------------------------
(* The invariant. *)

\* What the removal of its files leaves of a case.
Swept(c) == \A a \in Of(c) \cap dirs : InFlight(a) \/ uploads[a].lost

\* The files of c are kept: no clean-up of its owner may have begun.
Kept(c) == /\ cases[c].status = "open"
           /\ cases[c].owner \in Guests => purge[cases[c].owner] = "active"

GuestOK(g) == purge[g] # "active" => g \in expired

CaseOK(c) ==
  /\ cases[c].status = "open" => requests[c].status = "none"
  /\ cases[c].status = "deleting" => requests[c].status # "none"
  /\ requests[c].status \in {"completed", "removed"} =>
       cases[c].status = "gone" /\ RowsOf(c) = {} /\ Swept(c)

UploadOK(a) ==
  /\ uploads[a].at \in {"idle", "received"} => rows[a].state = "none"
  /\ uploads[a].at \in {"idle", "received", "reserved"} => a \notin dirs
  /\ uploads[a].at \in {"abandon", "ended"} => a \notin dirs \/ uploads[a].lost
  /\ rows[a].state = "available" => uploads[a].at = "done" \/ uploads[a].lost
  /\ uploads[a].at # "idle" => uploads[a].case \in Cases
  /\ \A c \in Cases : uploads[a].case = c =>
       /\ cases[c].status = "open" /\ Undeleted(a) => rows[a].owner = cases[c].owner
       /\ requests[c].status # "none" => ~Undeleted(a)
       /\ uploads[a].at \in {"saved", "done"} /\ Kept(c) => a \in dirs \/ uploads[a].lost

DeletionOK(c) ==
  /\ deletions[c].at \in {"files", "rows"} =>
       cases[c].status # "open" /\ requests[c].status # "none"
  /\ deletions[c].at = "rows" => Swept(c)

WorkerOK(r) ==
  /\ workers[r].todo \subseteq workers[r].caseIds
  /\ workers[r].target \in Guests =>
       /\ purge[workers[r].target] # "active"
       /\ \A c \in workers[r].caseIds : cases[c].owner = workers[r].target
  /\ workers[r].target \in Cases =>
       /\ cases[workers[r].target].status # "open"
       /\ requests[workers[r].target].status \in {"processing", "completed", "removed"}
       /\ workers[r].target \notin workers[r].todo => Swept(workers[r].target)

OneHolder ==
  \A r, s \in Workers :
    workers[r].target \in Cases /\ workers[r].target = workers[s].target => r = s

RetentionInv ==
  /\ TypeOK
  /\ \A g \in Guests : GuestOK(g)
  /\ \A c \in Cases : CaseOK(c) /\ DeletionOK(c)
  /\ \A a \in Artifacts : UploadOK(a)
  /\ \A r \in Workers : WorkerOK(r)
  /\ OneHolder
-----------------------------------------------------------------------------
(* What the steps rest on. *)

\* There is an oldest request among those that wait.
LEMMA OldestIsThere ==
  ASSUME NEW cs, cs # {}, \A c \in cs : requests[c].at \in Nat
  PROVE  Oldest(cs) \in cs
<1> DEFINE ats == {requests[c].at : c \in cs}
           less == OpToRel(<, Nat)
<1>1. \A x, y \in Nat : x < y => <<x, y>> \in less
  BY DEF OpToRel
<1> HIDE DEF less
<1>2. IsWellFoundedOn(less, Nat)
  BY NatLessThanWellFounded, Zenon DEF less
<1>3. ats \subseteq Nat /\ ats # {}
  OBVIOUS
<1>4. PICK x \in ats : \A y \in ats : <<y, x>> \notin less
  <2> HIDE DEF ats
  <2> QED BY <1>2, <1>3, WFMin
<1>5. \E c \in cs : \A d \in cs : requests[c].at <= requests[d].at
  <2>1. \A y \in ats : x <= y
    <3> HIDE DEF ats
    <3>1. ASSUME NEW y \in ats PROVE x <= y
      <4>1. x \in Nat /\ y \in Nat /\ ~(y < x)
        BY <1>1, <1>3, <1>4
      <4> QED BY <4>1
    <3> QED BY <3>1
  <2> QED BY <2>1
<1> QED BY <1>5 DEF Oldest

\* Only a case with a request relies on having been swept.
LEMMA SweptHasRequest ==
  ASSUME RetentionInv
  PROVE  /\ \A c \in Cases : deletions[c].at = "rows" => requests[c].status # "none"
         /\ \A r \in Workers : workers[r].target \in Cases =>
              requests[workers[r].target].status # "none"
BY DEF RetentionInv, DeletionOK, WorkerOK

LEMMA MishapsType ==
  ASSUME TypeOK, Fault \/ NoFault \/ Crash
  PROVE  mishaps' \in [faults : 0..MaxFaults, crashes : 0..MaxCrashes]
<1>1. mishaps \in [faults : 0..MaxFaults, crashes : 0..MaxCrashes]
  BY DEF TypeOK
<1>2. CASE Fault
  BY <1>1, <1>2, RetentionAssumption DEF Fault
<1>3. CASE Crash
  BY <1>1, <1>3, RetentionAssumption DEF Crash
<1> QED BY <1>1, <1>2, <1>3 DEF NoFault

UploadSteps == {"idle", "received", "reserved", "saved", "undo", "abandon", "done", "ended"}

LEMMA UploadGoes ==
  ASSUME TypeOK, NEW a \in Artifacts, NEW s \in UploadSteps, Goes(a, s)
  PROVE  /\ uploads' \in [Artifacts -> UploadState]
         /\ uploads'[a].at = s /\ uploads'[a].case = uploads[a].case
         /\ uploads'[a].lost = uploads[a].lost
         /\ \A b \in Artifacts : b # a => uploads'[b] = uploads[b]
<1>1. uploads' = [uploads EXCEPT ![a].at = s] /\ uploads \in [Artifacts -> UploadState]
  BY DEF TypeOK, Goes
<1>2. [uploads[a] EXCEPT !.at = s] \in UploadState
  BY <1>1 DEF UploadState, UploadSteps
<1> QED BY <1>1, <1>2 DEF UploadState

\* The step of an upload that is cut short.
LEMMA UploadIsLost ==
  ASSUME TypeOK, NEW a \in Artifacts, NEW s \in UploadSteps,
         uploads' = [uploads EXCEPT ![a].at = s, ![a].lost = TRUE]
  PROVE  /\ uploads' \in [Artifacts -> UploadState]
         /\ uploads'[a].at = s /\ uploads'[a].case = uploads[a].case
         /\ uploads'[a].lost
         /\ \A b \in Artifacts : b # a => uploads'[b] = uploads[b]
<1> DEFINE u == [uploads[a] EXCEPT !.at = s, !.lost = TRUE]
<1>1. uploads' = [uploads EXCEPT ![a] = u] /\ uploads[a] \in UploadState
  BY DEF TypeOK
<1>2. u \in UploadState /\ u.at = s /\ u.case = uploads[a].case /\ u.lost
  BY <1>1 DEF UploadState, UploadSteps
<1> HIDE DEF u
<1> QED BY <1>1, <1>2, ZenonT(60) DEF TypeOK

-----------------------------------------------------------------------------
(* Uploads. *)

\* A step of one upload.
LEMMA UploadMoves ==
  ASSUME RetentionInv, NEW a \in Artifacts, TypeOK',
         UNCHANGED <<purge, cases, requests, expired, deletions, workers>>,
         \A b \in Artifacts : b # a =>
           /\ uploads'[b] = uploads[b] /\ rows'[b] = rows[b]
           /\ b \in dirs' <=> b \in dirs,
         uploads[a].at # "idle" => uploads'[a].case = uploads[a].case,
         UploadOK(a)',
         a \in dirs' => \/ InFlight(a)' \/ uploads'[a].lost
                        \/ requests[uploads'[a].case].status = "none",
         rows'[a].state \notin {"none", "gone"} =>
           \/ rows[a].state \notin {"none", "gone"}
           \/ requests[uploads'[a].case].status = "none"
  PROVE  RetentionInv'
<1>1. ASSUME NEW b \in Artifacts
      PROVE  UploadOK(b)'
  <2>1. CASE b = a
    BY <2>1
  <2>2. CASE b # a
    <3>1. UploadOK(b)
      BY DEF RetentionInv
    <3> QED BY <2>2, <3>1 DEF UploadOK, Undeleted, Kept
  <2> QED BY <2>1, <2>2
<1>2. ASSUME NEW c \in Cases, requests[c].status # "none", Swept(c)
      PROVE  Swept(c)'
  <2>1. ASSUME NEW b \in Artifacts, uploads'[b].case = c, b \in dirs'
        PROVE  InFlight(b)' \/ uploads'[b].lost
    <3>1. CASE b = a
      BY <1>2, <2>1, <3>1
    <3>2. CASE b # a
      BY <1>2, <2>1, <3>2 DEF Swept, Of, InFlight
    <3> QED BY <3>1, <3>2
  <2> QED BY <2>1 DEF Swept, Of
<1>3. ASSUME NEW c \in Cases, requests[c].status # "none", RowsOf(c) = {}
      PROVE  RowsOf(c)' = {}
  <2>1. ASSUME NEW b \in Artifacts, uploads'[b].case = c
        PROVE  rows'[b].state \in {"none", "gone"}
    <3>1. CASE b = a
      <4>1. uploads[a].at = "idle" => rows[a].state = "none"
        BY DEF RetentionInv, UploadOK
      <4> QED BY <1>3, <2>1, <3>1, <4>1 DEF RowsOf, Of
    <3>2. CASE b # a
      BY <1>3, <2>1, <3>2 DEF RowsOf, Of
    <3> QED BY <3>1, <3>2
  <2> QED BY <2>1 DEF RowsOf, Of
<1>4. \A c \in Cases : CaseOK(c)' /\ DeletionOK(c)'
  BY <1>2, <1>3, SweptHasRequest DEF RetentionInv, CaseOK, DeletionOK
<1>5. \A r \in Workers : WorkerOK(r)'
  BY <1>2, SweptHasRequest DEF RetentionInv, WorkerOK
<1>6. (\A g \in Guests : GuestOK(g)') /\ OneHolder'
  BY DEF RetentionInv, GuestOK, OneHolder
<1> QED BY <1>1, <1>4, <1>5, <1>6 DEF RetentionInv

LEMMA ReceiveStep ==
  ASSUME RetentionInv, NEW a \in Artifacts, NEW c \in Cases, Receive(a, c)
  PROVE  RetentionInv'
<1>1. /\ uploads[a].at = "idle" /\ cases[c].status = "open"
      /\ uploads' = [uploads EXCEPT ![a].at = "received", ![a].case = c, ![a].by = cases[c].owner]
      /\ UNCHANGED <<purge, cases, rows, requests, expired, dirs, deletions, transfers, workers,
                     forsaken, mishaps>>
      /\ TypeOK /\ UploadOK(a)
  BY DEF Receive, database, RetentionInv
<1>2. uploads'[a].at = "received" /\ uploads'[a].case = c
  BY <1>1 DEF TypeOK
<1>3. TypeOK'
  <2>1. cases[c].owner \in Owners
    BY <1>1 DEF TypeOK, CaseRow
  <2> DEFINE u == [uploads[a] EXCEPT !.at = "received", !.case = c, !.by = cases[c].owner]
  <2>2. u \in UploadState
    BY <1>1, <2>1, ZenonT(60) DEF TypeOK, UploadState
  <2>3. uploads' = [uploads EXCEPT ![a] = u]
    BY <1>1
  <2>4. uploads' \in [Artifacts -> UploadState]
    BY <1>1, <2>2, <2>3 DEF TypeOK
  <2> QED BY <1>1, <2>4 DEF TypeOK
<1>4. UploadOK(a)'
  BY <1>1, <1>2 DEF UploadOK, Undeleted
<1> QED BY <1>1, <1>2, <1>3, <1>4, UploadMoves DEF InFlight, TypeOK

LEMMA ReserveStep ==
  ASSUME RetentionInv, NEW a \in Artifacts, Reserve(a)
  PROVE  RetentionInv'
<1> DEFINE c == uploads[a].case
<1>1. /\ uploads[a].at = "received" /\ UploadOK(a) /\ TypeOK /\ c \in Cases
      /\ rows[a].state = "none" /\ a \notin dirs
      /\ UNCHANGED <<purge, cases, requests, expired, dirs, deletions, transfers, workers,
                     forsaken, mishaps>>
  BY DEF Reserve, RetentionInv, UploadOK
<1>2. CASE Admits(a)
  <2>1. /\ rows' = [rows EXCEPT ![a] = [state |-> "quarantined", owner |-> uploads[a].by]]
        /\ uploads' = [uploads EXCEPT ![a].at = "reserved"]
    BY <1>2 DEF Reserve, Goes
  <2>2. /\ cases[c].status = "open" /\ cases[c].owner = uploads[a].by
        /\ requests[c].status = "none"
    BY <1>1, <1>2 DEF Admits, RetentionInv, CaseOK
  <2>3. /\ uploads'[a].at = "reserved" /\ uploads'[a].case = c
        /\ rows'[a] = [state |-> "quarantined", owner |-> cases[c].owner]
    BY <1>1, <2>1, <2>2 DEF TypeOK
  <2>4. TypeOK'
    <3>1. uploads' \in [Artifacts -> UploadState]
      BY <1>1, <2>1 DEF TypeOK, UploadState
    <3>2. rows' \in [Artifacts -> ArtifactRow]
      BY <1>1, <2>1 DEF TypeOK, UploadState, ArtifactRow
    <3> QED BY <1>1, <3>1, <3>2 DEF TypeOK
  <2>5. UploadOK(a)'
    BY <1>1, <2>2, <2>3 DEF UploadOK, Undeleted
  <2> QED BY <1>1, <2>1, <2>2, <2>3, <2>4, <2>5, UploadMoves DEF InFlight, TypeOK
<1>3. CASE ~Admits(a)
  <2>1. UNCHANGED rows /\ uploads' = [uploads EXCEPT ![a].at = "ended"]
    BY <1>3 DEF Reserve, Goes
  <2>2. uploads'[a].at = "ended" /\ uploads'[a].case = c
    BY <1>1, <2>1 DEF TypeOK
  <2>3. TypeOK'
    <3>1. uploads' \in [Artifacts -> UploadState]
      BY <1>1, <2>1 DEF TypeOK, UploadState
    <3> QED BY <1>1, <2>1, <3>1 DEF TypeOK
  <2>4. UploadOK(a)'
    BY <1>1, <2>1, <2>2 DEF UploadOK, Undeleted
  <2> QED BY <1>1, <2>1, <2>2, <2>3, <2>4, UploadMoves DEF TypeOK
<1> QED BY <1>2, <1>3

LEMMA SaveStep ==
  ASSUME RetentionInv, NEW a \in Artifacts, Save(a)
  PROVE  RetentionInv'
<1>1. /\ uploads[a].at = "reserved" /\ UploadOK(a) /\ TypeOK
      /\ dirs' = dirs \cup {a}
      /\ Fault \/ NoFault
      /\ UNCHANGED <<purge, cases, rows, requests, expired, deletions, transfers, workers,
                     forsaken>>
  BY DEF Save, RetentionInv, database
<1>2. PICK s \in {"saved", "undo"} : Goes(a, s)
  BY DEF Save
<1>3. /\ uploads' \in [Artifacts -> UploadState] /\ uploads'[a].at = s
      /\ uploads'[a].case = uploads[a].case /\ uploads'[a].lost = uploads[a].lost
      /\ \A b \in Artifacts : b # a => uploads'[b] = uploads[b]
  BY <1>1, <1>2, UploadGoes DEF UploadSteps
<1>4. TypeOK'
  BY <1>1, <1>3, MishapsType DEF TypeOK
<1>5. UploadOK(a)'
  BY <1>1, <1>3 DEF UploadOK, Undeleted, Kept
<1> QED BY <1>1, <1>3, <1>4, <1>5, UploadMoves DEF InFlight

LEMMA FinalizeStep ==
  ASSUME RetentionInv, NEW a \in Artifacts, Finalize(a)
  PROVE  RetentionInv'
<1> DEFINE c == uploads[a].case
<1>1. /\ uploads[a].at = "saved" /\ UploadOK(a) /\ TypeOK /\ c \in Cases
      /\ UNCHANGED <<purge, cases, requests, expired, dirs, deletions, transfers, workers,
                     forsaken>>
      /\ Fault \/ NoFault
  BY DEF Finalize, RetentionInv, UploadOK
<1>2. CASE UNCHANGED rows /\ Goes(a, "undo")
  <2>1. /\ uploads' \in [Artifacts -> UploadState] /\ uploads'[a].at = "undo"
        /\ uploads'[a].case = c /\ uploads'[a].lost = uploads[a].lost
        /\ \A b \in Artifacts : b # a => uploads'[b] = uploads[b]
    BY <1>1, <1>2, UploadGoes DEF UploadSteps
  <2>2. TypeOK'
    BY <1>1, <1>2, <2>1, MishapsType DEF TypeOK
  <2>3. UploadOK(a)'
    BY <1>1, <1>2, <2>1 DEF UploadOK, Undeleted, Kept
  <2> QED BY <1>1, <1>2, <2>1, <2>2, <2>3, UploadMoves DEF InFlight
<1>3. CASE /\ CanFinalize(a) /\ rows' = SetState({a}, "available")
           /\ \/ Goes(a, "done")
              \/ uploads' = [uploads EXCEPT ![a].at = "undo", ![a].lost = TRUE]
  <2>1. /\ uploads' \in [Artifacts -> UploadState]
        /\ \/ uploads'[a].at = "done" /\ uploads'[a].lost = uploads[a].lost
           \/ uploads'[a].at = "undo" /\ uploads'[a].lost
        /\ uploads'[a].case = c
        /\ \A b \in Artifacts : b # a => uploads'[b] = uploads[b]
    BY <1>1, <1>3, UploadGoes, UploadIsLost DEF UploadSteps
  <2>2. /\ rows' \in [Artifacts -> ArtifactRow]
        /\ rows'[a].state = "available" /\ rows'[a].owner = rows[a].owner
        /\ \A b \in Artifacts : b # a => rows'[b] = rows[b]
    BY <1>1, <1>3 DEF SetState, TypeOK, ArtifactRow
  <2>3. Undeleted(a) /\ requests[c].status = "none" /\ rows[a].state = "quarantined"
    BY <1>1, <1>3 DEF CanFinalize, Undeleted, UploadOK
  <2>4. TypeOK'
    BY <1>1, <2>1, <2>2, MishapsType DEF TypeOK
  <2>5. UploadOK(a)'
    BY <1>1, <2>1, <2>2, <2>3 DEF UploadOK, Undeleted, Kept
  <2> QED BY <1>1, <2>1, <2>2, <2>3, <2>4, <2>5, UploadMoves DEF InFlight
<1> QED BY <1>2, <1>3 DEF Finalize

LEMMA UndoSaveStep ==
  ASSUME RetentionInv, NEW a \in Artifacts, UndoSave(a)
  PROVE  RetentionInv'
<1>1. /\ uploads[a].at = "undo" /\ UploadOK(a) /\ TypeOK
      /\ UNCHANGED <<purge, cases, rows, requests, expired, deletions, transfers, workers,
                     forsaken>>
      /\ Fault \/ NoFault
  BY DEF UndoSave, RetentionInv, database
<1>2. /\ uploads' \in [Artifacts -> UploadState] /\ uploads'[a].at = "abandon"
      /\ uploads'[a].case = uploads[a].case
      /\ \/ uploads'[a].lost = uploads[a].lost /\ dirs' = dirs \ {a}
         \/ uploads'[a].lost /\ dirs' = dirs
      /\ \A b \in Artifacts : b # a => uploads'[b] = uploads[b]
  <2>1. CASE Goes(a, "abandon") /\ dirs' = dirs \ {a}
    BY <1>1, <2>1, UploadGoes DEF UploadSteps
  <2>2. CASE dirs' = dirs /\ uploads' = [uploads EXCEPT ![a].at = "abandon", ![a].lost = TRUE]
    BY <1>1, <2>2, UploadIsLost DEF UploadSteps
  <2> QED BY <2>1, <2>2 DEF UndoSave
<1>3. TypeOK'
  BY <1>1, <1>2, MishapsType DEF TypeOK
<1>4. UploadOK(a)'
  BY <1>1, <1>2 DEF UploadOK, Undeleted
<1> QED BY <1>1, <1>2, <1>3, <1>4, UploadMoves DEF InFlight

LEMMA AbandonStep ==
  ASSUME RetentionInv, NEW a \in Artifacts, Abandon(a)
  PROVE  RetentionInv'
<1>1. /\ uploads[a].at = "abandon" /\ UploadOK(a) /\ TypeOK /\ Goes(a, "ended")
      /\ UNCHANGED <<purge, cases, requests, expired, dirs, deletions, transfers, workers,
                     forsaken>>
      /\ Fault \/ NoFault
      /\ UNCHANGED rows \/ (CanFinalize(a) /\ rows' = SetState({a}, "deletion_pending"))
  BY DEF Abandon, RetentionInv
<1>2. /\ uploads' \in [Artifacts -> UploadState] /\ uploads'[a].at = "ended"
      /\ uploads'[a].case = uploads[a].case /\ uploads'[a].lost = uploads[a].lost
      /\ \A b \in Artifacts : b # a => uploads'[b] = uploads[b]
  BY <1>1, UploadGoes DEF UploadSteps
<1>3. /\ rows' \in [Artifacts -> ArtifactRow]
      /\ \/ rows'[a] = rows[a]
         \/ rows[a].state = "quarantined" /\ rows'[a].state = "deletion_pending"
      /\ \A b \in Artifacts : b # a => rows'[b] = rows[b]
  BY <1>1 DEF SetState, TypeOK, ArtifactRow, CanFinalize
<1>4. TypeOK'
  BY <1>1, <1>2, <1>3, MishapsType DEF TypeOK
<1>5. UploadOK(a)'
  BY <1>1, <1>2, <1>3 DEF UploadOK, Undeleted
<1>6. /\ a \in dirs' => uploads'[a].lost
      /\ rows'[a].state \notin {"none", "gone"} => rows[a].state \notin {"none", "gone"}
  BY <1>1, <1>2, <1>3 DEF UploadOK
<1> QED BY <1>1, <1>2, <1>3, <1>4, <1>5, <1>6, UploadMoves
-----------------------------------------------------------------------------
(* The owner's deletion, and the transfer. *)

\* Nothing that the database or the disk holds, or an upload does, changes.
LEMMA DataUntouched ==
  ASSUME RetentionInv, UNCHANGED <<purge, expired, cases, rows, dirs, requests, uploads>>
  PROVE  /\ \A g \in Guests : GuestOK(g)'
         /\ \A c \in Cases : CaseOK(c)' /\ (Swept(c)' <=> Swept(c))
         /\ \A a \in Artifacts : UploadOK(a)'
<1>1. \A c \in Cases : (Swept(c)' <=> Swept(c)) /\ RowsOf(c)' = RowsOf(c)
  BY DEF Swept, Of, InFlight, RowsOf
<1>2. \A g \in Guests : GuestOK(g)'
  BY DEF RetentionInv, GuestOK
<1>3. \A c \in Cases : CaseOK(c)'
  BY <1>1 DEF RetentionInv, CaseOK
<1>4. \A a \in Artifacts : UploadOK(a)'
  BY DEF RetentionInv, UploadOK, Undeleted, Kept
<1> QED BY <1>1, <1>2, <1>3, <1>4

\* Only the owners' deletions and transfers move.
LEMMA OnlyDeletions ==
  ASSUME RetentionInv, TypeOK', UNCHANGED <<purge, expired, cases, rows, dirs, requests, uploads>>,
         UNCHANGED workers,
         \A c \in Cases : deletions'[c].at \in {"files", "rows"} => deletions'[c] = deletions[c]
  PROVE  RetentionInv'
<1>1. \A c \in Cases : DeletionOK(c)'
  BY DataUntouched DEF RetentionInv, DeletionOK
<1>2. (\A r \in Workers : WorkerOK(r)') /\ OneHolder'
  BY DataUntouched DEF RetentionInv, WorkerOK, OneHolder
<1> QED BY <1>1, <1>2, DataUntouched DEF RetentionInv

DeletionSteps == {"idle", "mark", "files", "rows"}

LEMMA DeletionMoves ==
  ASSUME TypeOK, NEW c \in Cases, NEW s \in DeletionSteps,
         Stops(c) \/ Turns(c, s)
  PROVE  /\ deletions' \in [Cases -> DeletionState]
         /\ deletions'[c].at = "idle" \/ deletions'[c].at = s
         /\ \A d \in Cases : d # c => deletions'[d] = deletions[d]
<1>1. deletions \in [Cases -> DeletionState]
  BY DEF TypeOK
<1>2. CASE Stops(c)
  BY <1>1, <1>2 DEF Stops, NoDeletion, DeletionState
<1>3. CASE Turns(c, s)
  <2>1. [deletions[c] EXCEPT !.at = s] \in DeletionState
    BY <1>1 DEF DeletionState, DeletionSteps
  <2> QED BY <1>1, <1>3, <2>1 DEF Turns, DeletionState
<1> QED BY <1>2, <1>3

LEMMA AskDeletionStep ==
  ASSUME RetentionInv, NEW c \in Cases, AskDeletion(c)
  PROVE  RetentionInv'
<1>1. /\ TypeOK /\ cases[c].owner \in Owners
      /\ deletions' = [deletions EXCEPT ![c] = [at |-> "mark", by |-> cases[c].owner]]
      /\ UNCHANGED <<purge, cases, rows, requests, expired, dirs, uploads, transfers, workers,
                     forsaken, mishaps>>
  BY DEF AskDeletion, database, RetentionInv, TypeOK, CaseRow
<1>2. deletions' \in [Cases -> DeletionState] /\ deletions'[c].at = "mark"
      /\ \A d \in Cases : d # c => deletions'[d] = deletions[d]
  BY <1>1 DEF TypeOK, DeletionState
<1>3. TypeOK'
  BY <1>1, <1>2 DEF TypeOK
<1> QED BY <1>1, <1>2, <1>3, OnlyDeletions

\* A case without a request can be filed: there are at most as many requests.
LEMMA RoomForRequest ==
  ASSUME NEW c \in Cases, requests[c].status = "none"
  PROVE  Cardinality(Filed) + 1 \in 0 .. Cardinality(Cases)
<1>1. Filed \subseteq Cases \ {c} /\ IsFiniteSet(Cases)
  BY RetentionAssumption DEF Filed
<1>2. /\ IsFiniteSet(Cases \ {c}) /\ Cardinality(Cases \ {c}) = Cardinality(Cases) - 1
      /\ Cardinality(Cases) \in Nat
  BY <1>1, FS_RemoveElement, FS_CardinalityType
<1>3. Cardinality(Filed) \in Nat /\ Cardinality(Filed) <= Cardinality(Cases \ {c})
  BY <1>1, <1>2, FS_Subset, FS_CardinalityType
<1> QED BY <1>2, <1>3

LEMMA MarkStep ==
  ASSUME RetentionInv, NEW c \in Cases, MarkCase(c)
  PROVE  RetentionInv'
<1>1. /\ TypeOK /\ CaseOK(c) /\ cases[c] \in CaseRow /\ requests[c] \in RequestRow
      /\ Fault \/ NoFault
      /\ UNCHANGED <<purge, expired, dirs, uploads, transfers, workers, forsaken>>
  BY DEF MarkCase, RetentionInv, TypeOK
<1>2. /\ deletions' \in [Cases -> DeletionState]
      /\ deletions'[c].at \in {"idle", "files"}
      /\ \A d \in Cases : d # c => deletions'[d] = deletions[d]
      /\ deletions'[c].at = "files" => Found(c)
  <2>1. Stops(c) \/ (Turns(c, "files") /\ Found(c))
    BY DEF MarkCase
  <2>2. CASE Stops(c)
    BY <1>1, <2>2, DeletionMoves DEF DeletionSteps, Stops, NoDeletion, TypeOK
  <2>3. CASE Turns(c, "files") /\ Found(c)
    BY <1>1, <2>3, DeletionMoves DEF DeletionSteps
  <2> QED BY <2>1, <2>2, <2>3
<1>3. CASE UNCHANGED <<cases, rows, requests>> /\ ~(Found(c) /\ cases[c].status = "open" /\ deletions'[c].at = "files")
  <2>1. TypeOK'
    BY <1>1, <1>2, <1>3, MishapsType DEF TypeOK
  <2>2. DeletionOK(c)'
    BY <1>1, <1>2, <1>3 DEF DeletionOK, Found, CaseOK, CaseRow
  <2>3. \A d \in Cases : DeletionOK(d)'
    BY <1>1, <1>2, <1>3, <2>2, DataUntouched DEF RetentionInv, DeletionOK
  <2>4. (\A r \in Workers : WorkerOK(r)') /\ OneHolder'
    BY <1>1, <1>3, DataUntouched DEF RetentionInv, WorkerOK, OneHolder
  <2> QED BY <1>1, <1>3, <2>1, <2>3, <2>4, DataUntouched DEF RetentionInv
<1>4. CASE cases[c].status = "open" /\ Marked(c)
  <2>1. requests[c].status = "none" /\ Cardinality(Filed) + 1 \in 0 .. Cardinality(Cases)
    BY <1>1, <1>4, RoomForRequest DEF CaseOK
  <2>2. /\ cases' \in [Cases -> CaseRow] /\ cases'[c].status = "deleting"
        /\ cases'[c].owner = cases[c].owner
        /\ \A d \in Cases : d # c => cases'[d] = cases[d]
    BY <1>1, <1>4 DEF Marked, SetStatus, TypeOK, CaseRow
  <2>3. /\ requests' \in [Cases -> RequestRow] /\ requests'[c].status = "pending"
        /\ \A d \in Cases : d # c => requests'[d] = requests[d]
    <3>1. [status |-> "pending", by |-> cases[c].owner, at |-> Cardinality(Filed) + 1] \in RequestRow
      BY <1>1, <2>1 DEF RequestRow, CaseRow
    <3> QED BY <1>1, <1>4, <3>1 DEF Marked, TypeOK
  <2>4. /\ rows' \in [Artifacts -> ArtifactRow]
        /\ \A a \in Artifacts :
             IF a \in Of(c) /\ Undeleted(a) /\ rows[a].owner = cases[c].owner
             THEN rows'[a].state = "deletion_pending" /\ rows'[a].owner = rows[a].owner
             ELSE rows'[a] = rows[a]
    BY <1>1, <1>4 DEF Marked, SetState, TypeOK, ArtifactRow
  <2>5. TypeOK'
    BY <1>1, <1>2, <2>2, <2>3, <2>4, MishapsType DEF TypeOK
  <2>6. \A d \in Cases : Swept(d)' <=> Swept(d)
    BY <1>1 DEF Swept, Of, InFlight
  <2>7. ASSUME NEW a \in Artifacts PROVE UploadOK(a)'
    <3>1. UploadOK(a)
      BY DEF RetentionInv
    <3>2. rows'[a] = rows[a] \/ (Undeleted(a) /\ rows'[a].state = "deletion_pending")
      BY <2>4
    <3>3. ASSUME NEW d \in Cases, uploads'[a].case = d
          PROVE  /\ cases'[d].status = "open" /\ Undeleted(a)' => rows'[a].owner = cases'[d].owner
                 /\ requests'[d].status # "none" => ~Undeleted(a)'
                 /\ uploads'[a].at \in {"saved", "done"} /\ Kept(d)' => a \in dirs' \/ uploads'[a].lost
      <4>1. CASE d = c
        <5>1. ~Undeleted(a)'
          BY <1>1, <1>4, <2>4, <3>1, <3>3, <4>1 DEF UploadOK, Of, Undeleted
        <5> QED BY <2>2, <4>1, <5>1 DEF Kept
      <4>2. CASE d # c
        BY <1>1, <2>2, <2>3, <2>4, <3>1, <3>3, <4>2 DEF UploadOK, Of, Undeleted, Kept
      <4> QED BY <4>1, <4>2
    <3> QED BY <1>1, <3>1, <3>2, <3>3 DEF UploadOK, Undeleted
  <2>8. ASSUME NEW d \in Cases PROVE CaseOK(d)' /\ DeletionOK(d)'
    <3>1. CASE d = c
      BY <1>2, <2>2, <2>3, <3>1 DEF CaseOK, DeletionOK
    <3>2. CASE d # c
      <4>1. RowsOf(d)' = RowsOf(d) \/ requests[d].status \notin {"completed", "removed"}
        BY <1>1, <2>4, <3>2 DEF RowsOf, Of, Undeleted
      <4> QED BY <1>2, <2>2, <2>3, <2>6, <3>2, <4>1 DEF RetentionInv, CaseOK, DeletionOK
    <3> QED BY <3>1, <3>2
  <2>9. (\A r \in Workers : WorkerOK(r)') /\ OneHolder'
    <3>1. ASSUME NEW r \in Workers PROVE WorkerOK(r)'
      <4>1. WorkerOK(r) /\ workers'[r] = workers[r] /\ workers[r] \in WorkerState
        BY <1>1 DEF RetentionInv, TypeOK
      <4>2. workers[r].target # c \/ workers[r].target \notin Cases
        BY <1>4, <4>1 DEF WorkerOK
      <4>3. \A d \in Cases : cases'[d].owner = cases[d].owner
        BY <2>2
      <4> QED BY <1>1, <2>2, <2>3, <2>6, <4>1, <4>2, <4>3 DEF WorkerOK, WorkerState
    <3> QED BY <1>1, <3>1 DEF RetentionInv, OneHolder
  <2> QED BY <1>1, <2>5, <2>7, <2>8, <2>9 DEF RetentionInv, GuestOK
<1> QED BY <1>1, <1>2, <1>3, <1>4 DEF MarkCase, Found, Stops, NoDeletion

\* The files of a case are removed that its owner cannot read any more.
LEMMA FilesGo ==
  ASSUME RetentionInv, NEW c \in Cases, ~Kept(c), dirs' = dirs \ Of(c),
         UNCHANGED <<purge, expired, cases, rows, requests, uploads>>
  PROVE  /\ \A g \in Guests : GuestOK(g)'
         /\ \A d \in Cases : CaseOK(d)' /\ (Swept(d) => Swept(d)')
         /\ \A a \in Artifacts : UploadOK(a)'
         /\ Swept(c)'
<1>1. /\ \A d \in Cases : (Swept(d) => Swept(d)') /\ RowsOf(d)' = RowsOf(d)
      /\ Swept(c)'
  BY DEF Swept, Of, InFlight, RowsOf
<1>2. \A g \in Guests : GuestOK(g)'
  BY DEF RetentionInv, GuestOK
<1>3. \A d \in Cases : CaseOK(d)'
  BY <1>1 DEF RetentionInv, CaseOK
<1>4. ASSUME NEW a \in Artifacts PROVE UploadOK(a)'
  <2>1. UploadOK(a)
    BY DEF RetentionInv
  <2>2. \A d \in Cases : uploads[a].case = d /\ Kept(d) => (a \in dirs' <=> a \in dirs)
    BY DEF Of
  <2> QED BY <2>1, <2>2 DEF UploadOK, Undeleted, Kept
<1> QED BY <1>1, <1>2, <1>3, <1>4

LEMMA RemoveCaseFilesStep ==
  ASSUME RetentionInv, NEW c \in Cases, RemoveCaseFiles(c)
  PROVE  RetentionInv'
<1>1. /\ TypeOK /\ DeletionOK(c) /\ deletions[c].at = "files" /\ ~Kept(c)
      /\ requests[c].status # "none"
      /\ Fault \/ NoFault
      /\ UNCHANGED <<purge, cases, rows, requests, expired, uploads, transfers, workers, forsaken>>
  BY DEF RemoveCaseFiles, RetentionInv, DeletionOK, Kept, database
<1>2. CASE dirs' = dirs \ Of(c) /\ Turns(c, "rows")
  <2>1. /\ \A g \in Guests : GuestOK(g)'
        /\ \A d \in Cases : CaseOK(d)' /\ (Swept(d) => Swept(d)')
        /\ \A a \in Artifacts : UploadOK(a)'
        /\ Swept(c)'
    BY <1>1, <1>2, FilesGo
  <2>2. /\ deletions' \in [Cases -> DeletionState]
        /\ \A d \in Cases : d # c => deletions'[d] = deletions[d]
    BY <1>1, <1>2, DeletionMoves DEF DeletionSteps
  <2>3. TypeOK'
    BY <1>1, <1>2, <2>2, MishapsType DEF TypeOK
  <2>4. \A d \in Cases : DeletionOK(d)'
    BY <1>1, <2>1, <2>2 DEF RetentionInv, DeletionOK
  <2>5. (\A r \in Workers : WorkerOK(r)') /\ OneHolder'
    BY <1>1, <2>1 DEF RetentionInv, WorkerOK, OneHolder
  <2> QED BY <2>1, <2>3, <2>4, <2>5 DEF RetentionInv
<1>3. CASE UNCHANGED dirs /\ Stops(c)
  <2>1. /\ deletions' \in [Cases -> DeletionState] /\ deletions'[c].at = "idle"
        /\ \A d \in Cases : d # c => deletions'[d] = deletions[d]
    BY <1>1, <1>3 DEF Stops, NoDeletion, TypeOK, DeletionState
  <2>2. TypeOK'
    BY <1>1, <1>3, <2>1, MishapsType DEF TypeOK
  <2> QED BY <1>1, <1>3, <2>1, <2>2, OnlyDeletions
<1> QED BY <1>2, <1>3 DEF RemoveCaseFiles

\* The rows of some cases are erased; a request for one of them that was swept
\* may be completed with them.
LEMMA RowsGo ==
  ASSUME RetentionInv, NEW cs \in SUBSET Cases, EraseRows(cs),
         requests' \in [Cases -> RequestRow],
         \A c \in Cases : \/ requests'[c] = requests[c]
                          \/ /\ requests'[c].status = "completed" /\ requests[c].status # "none"
                             /\ c \in cs /\ Swept(c),
         purge' \in [Guests -> {"active", "pending", "gone"}],
         \A g \in Guests : purge'[g] = purge[g] \/ (purge'[g] = "gone" /\ purge[g] # "active"),
         UNCHANGED <<expired, dirs, uploads>>
  PROVE  /\ cases' \in [Cases -> CaseRow] /\ rows' \in [Artifacts -> ArtifactRow]
         /\ \A g \in Guests : GuestOK(g)'
         /\ \A c \in Cases : /\ CaseOK(c)' /\ (Swept(c) <=> Swept(c)')
                             /\ cases'[c].owner = cases[c].owner
                             /\ cases'[c].status = "open" => cases[c].status = "open"
         /\ \A a \in Artifacts : UploadOK(a)'
<1>1. TypeOK
  BY DEF RetentionInv
<1>2. /\ cases' \in [Cases -> CaseRow]
      /\ \A c \in Cases : /\ cases'[c].owner = cases[c].owner
                          /\ IF c \in cs THEN cases'[c].status = "gone" ELSE cases'[c] = cases[c]
  <2>1. /\ cases' = [c \in Cases |-> IF c \in cs THEN [cases[c] EXCEPT !.status = "gone"] ELSE cases[c]]
        /\ \A c \in Cases : cases[c] \in CaseRow
    BY <1>1 DEF EraseRows, SetStatus, TypeOK
  <2>2. \A c \in Cases : /\ [cases[c] EXCEPT !.status = "gone"] \in CaseRow
                         /\ [cases[c] EXCEPT !.status = "gone"].owner = cases[c].owner
                         /\ [cases[c] EXCEPT !.status = "gone"].status = "gone"
    BY <2>1 DEF CaseRow
  <2>3. ASSUME NEW c \in Cases
        PROVE  /\ cases'[c] \in CaseRow
               /\ cases'[c].owner = cases[c].owner
               /\ IF c \in cs THEN cases'[c].status = "gone" ELSE cases'[c] = cases[c]
    <3>1. cases'[c] = IF c \in cs THEN [cases[c] EXCEPT !.status = "gone"] ELSE cases[c]
      BY <2>1
    <3> QED BY <2>1, <2>2, <3>1
  <2> QED BY <2>1, <2>3
<1>3. /\ rows' \in [Artifacts -> ArtifactRow]
      /\ \A a \in Artifacts : /\ rows'[a].owner = rows[a].owner
                              /\ rows'[a] = rows[a] \/ (rows[a].state \notin {"none", "gone"}
                                                         /\ rows'[a].state = "gone")
      /\ \A c \in cs : \A a \in RowsOf(c) : rows'[a].state = "gone"
  <2> DEFINE as == UNION {RowsOf(c) : c \in cs}
  <2>1. as \subseteq Artifacts /\ (\A a \in as : rows[a].state \notin {"none", "gone"})
        /\ \A c \in cs : RowsOf(c) \subseteq as
    BY DEF RowsOf, Of
  <2>2. rows' = SetState(as, "gone")
    BY DEF EraseRows
  <2> HIDE DEF as
  <2>3. /\ rows' = [a \in Artifacts |-> IF a \in as THEN [rows[a] EXCEPT !.state = "gone"] ELSE rows[a]]
        /\ \A a \in Artifacts : rows[a] \in ArtifactRow
    BY <1>1, <2>2 DEF SetState, TypeOK
  <2>4. \A a \in Artifacts : /\ [rows[a] EXCEPT !.state = "gone"] \in ArtifactRow
                             /\ [rows[a] EXCEPT !.state = "gone"].owner = rows[a].owner
                             /\ [rows[a] EXCEPT !.state = "gone"].state = "gone"
    BY <2>3 DEF ArtifactRow
  <2>5. ASSUME NEW a \in Artifacts
        PROVE  /\ rows'[a] \in ArtifactRow
               /\ rows'[a].owner = rows[a].owner
               /\ IF a \in as THEN rows'[a].state = "gone" ELSE rows'[a] = rows[a]
    <3>1. rows'[a] = IF a \in as THEN [rows[a] EXCEPT !.state = "gone"] ELSE rows[a]
      BY <2>3
    <3> QED BY <2>3, <2>4, <3>1
  <2> QED BY <2>1, <2>3, <2>5
<1>4. /\ \A c \in Cases : (Swept(c) <=> Swept(c)') /\ RowsOf(c)' \subseteq RowsOf(c)
      /\ \A c \in cs : RowsOf(c)' = {}
  <2>1. \A c \in Cases : Swept(c) <=> Swept(c)'
    BY DEF Swept, Of, InFlight
  <2>2. \A c \in Cases : RowsOf(c)' \subseteq RowsOf(c)
    BY <1>3 DEF RowsOf, Of
  <2>3. \A c \in cs : RowsOf(c)' = {}
    BY <1>3, <2>2 DEF RowsOf
  <2> QED BY <2>1, <2>2, <2>3
<1>5. \A g \in Guests : GuestOK(g)'
  BY DEF RetentionInv, GuestOK
<1>6. \A c \in Cases : CaseOK(c)'
  <2>1. ASSUME NEW c \in Cases PROVE CaseOK(c)'
    <3>1. CaseOK(c)
      BY DEF RetentionInv
    <3>2. CASE c \in cs
      BY <1>2, <1>4, <3>1, <3>2 DEF CaseOK
    <3>3. CASE c \notin cs
      BY <1>2, <1>4, <3>1, <3>3 DEF CaseOK
    <3> QED BY <3>2, <3>3
  <2> QED BY <2>1
<1>7. ASSUME NEW a \in Artifacts PROVE UploadOK(a)'
  <2>1. UploadOK(a) /\ (Undeleted(a)' => Undeleted(a))
    BY <1>3 DEF RetentionInv, Undeleted
  <2>2. rows'[a].state = "available" => rows[a].state = "available"
    BY <1>3
  <2>3. \A c \in Cases : /\ Kept(c)' => Kept(c)
                         /\ cases'[c].status = "open" => cases[c].status = "open"
    BY <1>2 DEF Kept
  <2>4. uploads[a].at \in {"idle", "received"} => rows'[a].state = "none"
    BY <1>3, <2>1 DEF UploadOK
  <2> QED BY <1>2, <1>3, <2>1, <2>2, <2>3, <2>4 DEF UploadOK
<1> QED BY <1>2, <1>3, <1>4, <1>5, <1>6, <1>7

LEMMA CompleteCaseDeletionStep ==
  ASSUME RetentionInv, NEW c \in Cases, CompleteCaseDeletion(c)
  PROVE  RetentionInv'
<1>1. /\ TypeOK /\ DeletionOK(c) /\ deletions[c].at = "rows" /\ Swept(c)
      /\ Stops(c)
      /\ Fault \/ NoFault
      /\ UNCHANGED <<purge, expired, dirs, uploads, transfers, workers, forsaken>>
  BY DEF CompleteCaseDeletion, RetentionInv, DeletionOK
<1>2. /\ deletions' \in [Cases -> DeletionState] /\ deletions'[c].at = "idle"
      /\ \A d \in Cases : d # c => deletions'[d] = deletions[d]
  BY <1>1 DEF Stops, NoDeletion, TypeOK, DeletionState
<1>3. CASE UNCHANGED <<cases, rows, requests>>
  <2>1. TypeOK'
    BY <1>1, <1>2, <1>3, MishapsType DEF TypeOK
  <2> QED BY <1>1, <1>2, <1>3, <2>1, OnlyDeletions
<1>4. CASE CanComplete(c) /\ EraseRows({c}) /\ requests' = [requests EXCEPT ![c].status = "completed"]
  <2>1. /\ requests' \in [Cases -> RequestRow]
        /\ requests'[c].status = "completed" /\ requests[c].status # "none"
        /\ \A d \in Cases : d # c => requests'[d] = requests[d]
    BY <1>4 DEF CanComplete, RetentionInv, TypeOK, RequestRow
  <2>2. purge' \in [Guests -> {"active", "pending", "gone"}]
    BY <1>1 DEF TypeOK
  <2>3. /\ cases' \in [Cases -> CaseRow] /\ rows' \in [Artifacts -> ArtifactRow]
        /\ \A g \in Guests : GuestOK(g)'
        /\ \A d \in Cases : /\ CaseOK(d)' /\ (Swept(d) <=> Swept(d)')
                            /\ cases'[d].owner = cases[d].owner
                            /\ cases'[d].status = "open" => cases[d].status = "open"
        /\ \A a \in Artifacts : UploadOK(a)'
    BY <1>1, <1>4, <2>1, <2>2, RowsGo
  <2>4. TypeOK'
    BY <1>1, <1>2, <2>1, <2>2, <2>3, MishapsType DEF TypeOK
  <2>5. \A d \in Cases : DeletionOK(d)'
    BY <1>2, <2>1, <2>3 DEF RetentionInv, DeletionOK
  <2>6. ASSUME NEW r \in Workers PROVE WorkerOK(r)'
    <3>1. WorkerOK(r) /\ workers'[r] = workers[r] /\ workers[r].caseIds \subseteq Cases
      BY <1>1 DEF RetentionInv, TypeOK, WorkerState
    <3> QED BY <1>1, <2>1, <2>3, <3>1 DEF WorkerOK
  <2> QED BY <1>1, <2>3, <2>4, <2>5, <2>6 DEF RetentionInv, OneHolder
<1> QED BY <1>3, <1>4 DEF CompleteCaseDeletion

LEMMA AskTransferStep ==
  ASSUME RetentionInv, NEW c \in Cases, NEW u \in Users, AskTransfer(c, u)
  PROVE  RetentionInv'
<1>1. TypeOK'
  BY DEF AskTransfer, database, RetentionInv, TypeOK
<1> QED BY <1>1, OnlyDeletions DEF AskTransfer, database

LEMMA TransferStep ==
  ASSUME RetentionInv, NEW c \in Cases, TransferGuestCase(c)
  PROVE  RetentionInv'
<1>1. /\ TypeOK /\ transfers[c] \in Users /\ transfers' = [transfers EXCEPT ![c] = Nobody]
      /\ UNCHANGED <<purge, requests, expired, dirs, uploads, deletions, workers, forsaken, mishaps>>
  BY DEF TransferGuestCase, RetentionInv, TypeOK
<1>2. CASE UNCHANGED <<cases, rows>>
  <2>1. TypeOK'
    BY <1>1, <1>2 DEF TypeOK
  <2> QED BY <1>1, <1>2, <2>1, OnlyDeletions
<1>3. CASE CanTransfer(c) /\ ~UNCHANGED <<cases, rows>>
  <2> DEFINE u == transfers[c]
             g == cases[c].owner
  <2>1. cases[c].status = "open" /\ g \in Guests /\ purge[g] = "active" /\ u \notin Guests
    BY <1>1, <1>3, RetentionAssumption DEF CanTransfer
  <2>2. /\ cases' \in [Cases -> CaseRow]
        /\ cases'[c].status = "open" /\ cases'[c].owner = u
        /\ \A d \in Cases : /\ cases'[d].status = cases[d].status
                            /\ d # c => cases'[d] = cases[d]
    BY <1>1, <1>3, <2>1 DEF TransferGuestCase, TypeOK, CaseRow, Owners
  <2>3. /\ rows' \in [Artifacts -> ArtifactRow]
        /\ \A a \in Artifacts : /\ rows'[a].state = rows[a].state
                                /\ IF a \in Of(c) /\ Undeleted(a) THEN rows'[a].owner = u
                                                                  ELSE rows'[a] = rows[a]
    <3>1. rows' = [a \in Artifacts |-> IF a \in Of(c) /\ Undeleted(a)
                                       THEN [rows[a] EXCEPT !.owner = u] ELSE rows[a]]
      BY <1>3 DEF TransferGuestCase
    <3> QED BY <1>1, <3>1 DEF TypeOK, ArtifactRow, Owners
  <2>4. TypeOK'
    <3>1. transfers' \in [Cases -> Users \cup {Nobody}]
      BY <1>1 DEF TypeOK
    <3> QED BY <1>1, <2>2, <2>3, <3>1 DEF TypeOK
  <2>5. \A d \in Cases : (Swept(d)' <=> Swept(d)) /\ RowsOf(d)' = RowsOf(d)
    BY <1>1, <2>3 DEF Swept, Of, InFlight, RowsOf
  <2>6. \A d \in Cases : CaseOK(d)' /\ DeletionOK(d)'
    BY <1>1, <2>2, <2>5 DEF RetentionInv, CaseOK, DeletionOK
  <2>7. ASSUME NEW a \in Artifacts PROVE UploadOK(a)'
    <3>1. UploadOK(a) /\ (Undeleted(a)' <=> Undeleted(a))
      BY <2>3 DEF RetentionInv, Undeleted
    <3>2. \A d \in Cases : Kept(d)' => Kept(d)
      BY <1>1, <2>1, <2>2 DEF Kept
    <3>3. ASSUME NEW d \in Cases, uploads[a].case = d, cases[d].status = "open", Undeleted(a)
          PROVE  rows'[a].owner = cases'[d].owner
      <4>1. CASE d = c
        BY <2>2, <2>3, <3>3, <4>1 DEF Of
      <4>2. CASE d # c
        BY <2>2, <2>3, <3>1, <3>3, <4>2 DEF UploadOK, Of
      <4> QED BY <4>1, <4>2
    <3> QED BY <1>1, <2>2, <2>3, <3>1, <3>2, <3>3 DEF UploadOK
  <2>8. ASSUME NEW r \in Workers PROVE WorkerOK(r)'
    <3>1. WorkerOK(r) /\ workers'[r] = workers[r] /\ workers[r].caseIds \subseteq Cases
      BY <1>1 DEF RetentionInv, TypeOK, WorkerState
    <3>2. workers[r].target \in Guests => c \notin workers[r].caseIds
      BY <2>1, <3>1 DEF WorkerOK
    <3> QED BY <1>1, <2>2, <2>5, <3>1, <3>2 DEF WorkerOK
  <2> QED BY <1>1, <2>4, <2>6, <2>7, <2>8 DEF RetentionInv, GuestOK, OneHolder
<1> QED BY <1>2, <1>3 DEF TransferGuestCase
-----------------------------------------------------------------------------
(* The retention worker. *)

\* A request in one of these states is not claimed.
Held == {"processing", "completed", "removed"}

LEMMA WorkerType ==
  ASSUME TypeOK, NEW r \in Workers, NEW w \in WorkerState, Coherent(w),
         workers' = [workers EXCEPT ![r] = w]
  PROVE  /\ workers' \in [Workers -> WorkerState] /\ workers'[r] = w
         /\ \A s \in Workers : Coherent(workers'[s]) /\ (s # r => workers'[s] = workers[s])
<1>1. workers \in [Workers -> WorkerState] /\ \A s \in Workers : Coherent(workers[s])
  BY DEF TypeOK
<1>2. \A s \in Workers : workers'[s] = IF s = r THEN w ELSE workers[s]
  BY <1>1
<1>3. workers' \in [Workers -> WorkerState]
  BY <1>1
<1>4. ASSUME NEW s \in Workers PROVE Coherent(workers'[s])
  BY <1>1, <1>2
<1> QED BY <1>2, <1>3, <1>4

LEMMA IdleType ==
  ASSUME NEW step \in {"off", "claim", "metadata"}, NEW tried \in SUBSET (Guests \cup Cases)
  PROVE  /\ Idle(step, tried) \in WorkerState /\ Coherent(Idle(step, tried))
         /\ Idle(step, tried).target \notin Guests \cup Cases
         /\ Idle(step, tried).todo \subseteq Idle(step, tried).caseIds
BY RetentionAssumption DEF Idle, WorkerState, Coherent

\* Only the step of the run changes.
LEMMA ToType ==
  ASSUME TypeOK, NEW r \in Workers, workers[r].at \in {"files", "rows", "fail"}, To(r, "fail")
  PROVE  /\ workers' \in [Workers -> WorkerState]
         /\ \A s \in Workers : Coherent(workers'[s]) /\ (s # r => workers'[s] = workers[s])
         /\ workers'[r].target = workers[r].target /\ workers'[r].todo = workers[r].todo
         /\ workers'[r].caseIds = workers[r].caseIds
<1> DEFINE w == [workers[r] EXCEPT !.at = "fail"]
<1>1. workers[r] \in WorkerState /\ Coherent(workers[r]) /\ workers' = [workers EXCEPT ![r] = w]
  BY DEF TypeOK, To
<1>2. w \in WorkerState /\ w.target = workers[r].target /\ w.todo = workers[r].todo
      /\ w.caseIds = workers[r].caseIds /\ w.at = "fail"
  BY <1>1 DEF WorkerState
<1>3. Coherent(w)
  BY <1>1, <1>2 DEF Coherent
<1> HIDE DEF w
<1> QED BY <1>1, <1>2, <1>3, WorkerType

\* A step of one run leaves what the other runs and the owners rest on.
LEMMA OthersKeep ==
  ASSUME RetentionInv, NEW r \in Workers, UNCHANGED deletions,
         \A s \in Workers : s # r => workers'[s] = workers[s],
         \A g \in Guests : purge'[g] = "active" => purge[g] = "active",
         \A c \in Cases : /\ cases'[c].owner = cases[c].owner
                          /\ cases'[c].status = "open" => cases[c].status = "open"
                          /\ Swept(c) => Swept(c)'
                          /\ requests[c].status # "none" => requests'[c].status # "none"
                          /\ c # workers[r].target /\ requests[c].status \in Held
                               => requests'[c].status \in Held,
         WorkerOK(r)',
         workers'[r].target \in Cases => \/ workers'[r].target = workers[r].target
                                         \/ requests[workers'[r].target].status \notin Held
  PROVE  /\ \A s \in Workers : WorkerOK(s)'
         /\ \A c \in Cases : DeletionOK(c)'
         /\ OneHolder'
<1>1. ASSUME NEW s \in Workers, s # r PROVE WorkerOK(s)'
  <2>1. WorkerOK(s) /\ workers'[s] = workers[s] /\ workers[s].caseIds \subseteq Cases
    BY <1>1 DEF RetentionInv, TypeOK, WorkerState
  <2>2. workers[s].target \in Cases => workers[s].target # workers[r].target
    BY <1>1 DEF RetentionInv, OneHolder
  <2>3. workers[s].target \in Cases =>
          requests'[workers[s].target].status \in {"processing", "completed", "removed"}
    BY <2>1, <2>2 DEF WorkerOK, Held
  <2> QED BY <2>1, <2>3 DEF WorkerOK
<1>2. \A c \in Cases : DeletionOK(c)'
  BY DEF RetentionInv, DeletionOK
<1>3. ASSUME NEW s \in Workers, NEW t \in Workers, s # t,
             workers'[s].target \in Cases, workers'[s].target = workers'[t].target
      PROVE  FALSE
  <2>1. \A p \in Workers : workers[p].target \in Cases =>
          /\ requests[workers[p].target].status \in Held
          /\ \A q \in Workers : workers[p].target = workers[q].target => p = q
    BY DEF RetentionInv, WorkerOK, Held, OneHolder
  <2> QED BY <1>3, <2>1
<1> QED BY <1>1, <1>2, <1>3 DEF OneHolder

\* Nothing is removed; guests are claimed, and requests move on.
LEMMA ReportsKeep ==
  ASSUME RetentionInv, UNCHANGED <<expired, cases, rows, dirs, uploads>>,
         \A g \in Guests : purge'[g] = purge[g] \/ (purge'[g] = "pending" /\ g \in expired),
         \A c \in Cases :
           \/ requests'[c].status = requests[c].status
           \/ requests[c].status # "none" /\ requests'[c].status \in {"processing", "failed"}
           \/ requests[c].status = "completed" /\ requests'[c].status = "removed"
  PROVE  /\ \A g \in Guests : GuestOK(g)'
         /\ \A c \in Cases : CaseOK(c)' /\ (Swept(c)' <=> Swept(c))
         /\ \A a \in Artifacts : UploadOK(a)'
<1>1. \A c \in Cases : (Swept(c)' <=> Swept(c)) /\ RowsOf(c)' = RowsOf(c)
  BY DEF Swept, Of, InFlight, RowsOf
<1>2. \A g \in Guests : GuestOK(g)'
  BY DEF RetentionInv, GuestOK
<1>3. \A c \in Cases : CaseOK(c)'
  <2>1. ASSUME NEW c \in Cases PROVE CaseOK(c)'
    <3>1. CaseOK(c)
      BY DEF RetentionInv
    <3>2. /\ requests'[c].status = "none" <=> requests[c].status = "none"
          /\ requests'[c].status \in {"completed", "removed"} =>
               requests[c].status \in {"completed", "removed"}
      OBVIOUS
    <3> QED BY <1>1, <3>1, <3>2 DEF CaseOK
  <2> QED BY <2>1
<1>4. \A a \in Artifacts : UploadOK(a)'
  <2>1. ASSUME NEW a \in Artifacts PROVE UploadOK(a)'
    <3>1. UploadOK(a)
      BY DEF RetentionInv
    <3>2. \A c \in Cases : /\ Kept(c)' => Kept(c)
                           /\ requests'[c].status # "none" => requests[c].status # "none"
      <4>1. \A g \in Guests : purge'[g] = "active" => purge[g] = "active"
        OBVIOUS
      <4> QED BY <4>1 DEF Kept
    <3> QED BY <3>1, <3>2 DEF UploadOK, Undeleted
  <2> QED BY <2>1
<1> QED BY <1>1, <1>2, <1>3, <1>4

\* The run lets its target go, or had none.
LEMMA RunIsIdle ==
  ASSUME RetentionInv, TypeOK', NEW r \in Workers,
         UNCHANGED <<expired, cases, rows, dirs, uploads, deletions>>,
         \A g \in Guests : purge'[g] = purge[g] \/ (purge'[g] = "pending" /\ g \in expired),
         \A c \in Cases :
           \/ requests'[c].status = requests[c].status
           \/ /\ requests[c].status # "none" /\ requests'[c].status \in {"processing", "failed"}
              /\ c = workers[r].target \/ requests[c].status \notin Held
           \/ requests[c].status = "completed" /\ requests'[c].status = "removed",
         \A s \in Workers : s # r => workers'[s] = workers[s],
         workers'[r].target \notin Guests \cup Cases,
         workers'[r].todo \subseteq workers'[r].caseIds
  PROVE  RetentionInv'
<1>1. /\ \A g \in Guests : GuestOK(g)'
      /\ \A c \in Cases : CaseOK(c)' /\ (Swept(c)' <=> Swept(c))
      /\ \A a \in Artifacts : UploadOK(a)'
  BY ReportsKeep
<1>2. WorkerOK(r)'
  BY DEF WorkerOK
<1>3. \A g \in Guests : purge'[g] = "active" => purge[g] = "active"
  OBVIOUS
<1>4. \A c \in Cases :
        /\ requests[c].status # "none" => requests'[c].status # "none"
        /\ c # workers[r].target /\ requests[c].status \in Held => requests'[c].status \in Held
  BY DEF Held
<1>5. (\A s \in Workers : WorkerOK(s)') /\ (\A c \in Cases : DeletionOK(c)') /\ OneHolder'
  BY <1>1, <1>2, <1>3, <1>4, OthersKeep
<1> QED BY <1>1, <1>5 DEF RetentionInv

LEMMA StartRunStep ==
  ASSUME RetentionInv, NEW r \in Workers, StartRun(r)
  PROVE  RetentionInv'
<1> DEFINE w == Idle("claim", {})
<1>1. /\ TypeOK /\ workers' = [workers EXCEPT ![r] = w]
      /\ UNCHANGED <<purge, cases, rows, requests, expired, dirs, uploads, deletions, transfers,
                     forsaken, mishaps>>
  BY DEF StartRun, database, RetentionInv
<1>2. /\ w \in WorkerState /\ Coherent(w) /\ w.target \notin Guests \cup Cases
      /\ w.todo \subseteq w.caseIds
  BY IdleType
<1> HIDE DEF w
<1>3. /\ workers' \in [Workers -> WorkerState] /\ workers'[r] = w
      /\ \A s \in Workers : Coherent(workers'[s]) /\ (s # r => workers'[s] = workers[s])
  BY <1>1, <1>2, WorkerType
<1>4. TypeOK'
  BY <1>1, <1>3 DEF TypeOK
<1> QED BY <1>1, <1>2, <1>3, <1>4, RunIsIdle

\* The entry of a claimed target.
LEMMA TakesType ==
  ASSUME TypeOK, NEW r \in Workers, NEW target \in Guests \cup Cases, NEW cs \in SUBSET Cases,
         target \in Cases => cs = {target}, Takes(r, target, cs)
  PROVE  /\ workers' \in [Workers -> WorkerState]
         /\ \A s \in Workers : Coherent(workers'[s]) /\ (s # r => workers'[s] = workers[s])
         /\ workers'[r].target = target /\ workers'[r].caseIds = cs /\ workers'[r].todo = cs
<1> DEFINE w == [at |-> IF cs = {} THEN "rows" ELSE "files",
                 target |-> target, caseIds |-> cs, todo |-> cs,
                 tried |-> workers[r].tried \cup {target}]
<1>1. workers[r] \in WorkerState /\ workers' = [workers EXCEPT ![r] = w]
  BY DEF TypeOK, Takes
<1>2. w \in WorkerState
  BY <1>1 DEF WorkerState
<1>3. Coherent(w)
  BY RetentionAssumption DEF Coherent
<1>4. w.target = target /\ w.caseIds = cs /\ w.todo = cs
  OBVIOUS
<1> HIDE DEF w
<1> QED BY <1>1, <1>2, <1>3, <1>4, WorkerType

LEMMA ClaimStep ==
  ASSUME RetentionInv, NEW r \in Workers, ClaimNext(r)
  PROVE  RetentionInv'
<1>1. /\ TypeOK /\ workers[r].at = "claim" /\ workers[r].target = Nobody
      /\ UNCHANGED <<cases, rows, expired, dirs, uploads, deletions, transfers, forsaken, mishaps>>
  BY DEF ClaimNext, RetentionInv, TypeOK, Coherent
<1>2. CASE ClaimGuest(r)
  <2>1. PICK g \in Due(r) : /\ purge' = [purge EXCEPT ![g] = "pending"]
                            /\ Takes(r, g, CasesOf(g)) /\ UNCHANGED requests
    BY <1>2 DEF ClaimGuest
  <2>2. /\ g \in expired /\ g \in Guests /\ CasesOf(g) \subseteq Cases /\ g \notin Cases
        /\ \A c \in CasesOf(g) : cases[c].owner = g
    BY <1>1, RetentionAssumption DEF TypeOK, Due, CasesOf
  <2>3. /\ workers' \in [Workers -> WorkerState]
        /\ \A s \in Workers : Coherent(workers'[s]) /\ (s # r => workers'[s] = workers[s])
        /\ workers'[r].target = g /\ workers'[r].caseIds = CasesOf(g)
        /\ workers'[r].todo = CasesOf(g)
    BY <1>1, <2>1, <2>2, TakesType
  <2>4. /\ purge' \in [Guests -> {"active", "pending", "gone"}] /\ purge'[g] = "pending"
        /\ \A h \in Guests : purge'[h] = purge[h] \/ (purge'[h] = "pending" /\ h \in expired)
    BY <1>1, <2>1, <2>2 DEF TypeOK
  <2>5. TypeOK'
    BY <1>1, <2>1, <2>3, <2>4 DEF TypeOK
  <2>6. /\ \A h \in Guests : GuestOK(h)'
        /\ \A c \in Cases : CaseOK(c)' /\ (Swept(c)' <=> Swept(c))
        /\ \A a \in Artifacts : UploadOK(a)'
    BY <1>1, <2>1, <2>4, ReportsKeep
  <2>7. WorkerOK(r)'
    BY <1>1, <2>2, <2>3, <2>4 DEF WorkerOK
  <2>8. \A h \in Guests : purge'[h] = "active" => purge[h] = "active"
    BY <2>4
  <2>9. (\A s \in Workers : WorkerOK(s)') /\ (\A c \in Cases : DeletionOK(c)') /\ OneHolder'
    BY <1>1, <2>1, <2>2, <2>3, <2>6, <2>7, <2>8, OthersKeep
  <2> QED BY <2>5, <2>6, <2>9 DEF RetentionInv
<1>3. CASE ClaimRequest(r)
  <2> DEFINE c == Oldest(Waiting(r))
  <2>1. Waiting(r) # {} /\ Waiting(r) \subseteq Cases /\ \A d \in Waiting(r) : requests[d].at \in Nat
    BY <1>1, <1>3, RetentionAssumption, FS_CardinalityType DEF ClaimRequest, Waiting, TypeOK, RequestRow
  <2>2. c \in Waiting(r)
    BY <2>1, OldestIsThere
  <2>3. c \in Cases /\ requests[c].status \in {"pending", "failed"} /\ UNCHANGED purge
    BY <1>3, <2>2 DEF Waiting, ClaimRequest
  <2>4. CASE ~HasTarget(c)
    <3> DEFINE w == Idle("metadata", {})
    <3>1. requests' = [requests EXCEPT ![c].status = "failed"]
          /\ workers' = [workers EXCEPT ![r] = w]
      BY <1>3, <2>4 DEF ClaimRequest
    <3>2. /\ w \in WorkerState /\ Coherent(w) /\ w.target \notin Guests \cup Cases
          /\ w.todo \subseteq w.caseIds
      BY IdleType
    <3> HIDE DEF w, c
    <3>3. /\ workers' \in [Workers -> WorkerState] /\ workers'[r] = w
          /\ \A s \in Workers : Coherent(workers'[s]) /\ (s # r => workers'[s] = workers[s])
      BY <1>1, <3>1, <3>2, WorkerType
    <3>4. /\ requests' \in [Cases -> RequestRow] /\ requests'[c].status = "failed"
          /\ \A d \in Cases : d # c => requests'[d] = requests[d]
      BY <1>1, <2>3, <3>1 DEF TypeOK, RequestRow
    <3>5. TypeOK'
      BY <1>1, <2>3, <3>3, <3>4 DEF TypeOK
    <3> QED BY <1>1, <2>3, <3>2, <3>3, <3>4, <3>5, RunIsIdle DEF Held
  <2>5. CASE HasTarget(c)
    <3>1. requests' = [requests EXCEPT ![c].status = "processing"] /\ Takes(r, c, {c})
      BY <1>3, <2>5 DEF ClaimRequest
    <3>2. cases[c].status = "deleting"
      BY <2>5 DEF HasTarget
    <3> HIDE DEF c
    <3>3. /\ workers' \in [Workers -> WorkerState]
          /\ \A s \in Workers : Coherent(workers'[s]) /\ (s # r => workers'[s] = workers[s])
          /\ workers'[r].target = c /\ workers'[r].caseIds = {c} /\ workers'[r].todo = {c}
      BY <1>1, <2>3, <3>1, TakesType
    <3>4. /\ requests' \in [Cases -> RequestRow] /\ requests'[c].status = "processing"
          /\ \A d \in Cases : d # c => requests'[d] = requests[d]
      BY <1>1, <2>3, <3>1 DEF TypeOK, RequestRow
    <3>5. TypeOK'
      BY <1>1, <2>3, <3>3, <3>4 DEF TypeOK
    <3>6. /\ \A h \in Guests : GuestOK(h)'
          /\ \A d \in Cases : CaseOK(d)' /\ (Swept(d)' <=> Swept(d))
          /\ \A a \in Artifacts : UploadOK(a)'
      BY <1>1, <2>3, <3>4, ReportsKeep
    <3>7. WorkerOK(r)'
      BY <1>1, <2>3, <3>2, <3>3, <3>4, RetentionAssumption DEF WorkerOK
    <3>8. (\A s \in Workers : WorkerOK(s)') /\ (\A d \in Cases : DeletionOK(d)') /\ OneHolder'
      BY <1>1, <2>3, <3>3, <3>4, <3>6, <3>7, OthersKeep DEF Held
    <3> QED BY <3>5, <3>6, <3>8 DEF RetentionInv
  <2> QED BY <2>4, <2>5
<1>4. CASE ClaimNothing(r)
  <2> DEFINE w == Idle("metadata", {})
  <2>1. UNCHANGED <<purge, requests>> /\ workers' = [workers EXCEPT ![r] = w]
    BY <1>4 DEF ClaimNothing
  <2>2. /\ w \in WorkerState /\ Coherent(w) /\ w.target \notin Guests \cup Cases
        /\ w.todo \subseteq w.caseIds
    BY IdleType
  <2> HIDE DEF w
  <2>3. /\ workers' \in [Workers -> WorkerState] /\ workers'[r] = w
        /\ \A s \in Workers : Coherent(workers'[s]) /\ (s # r => workers'[s] = workers[s])
    BY <1>1, <2>1, <2>2, WorkerType
  <2>4. TypeOK'
    BY <1>1, <2>1, <2>3 DEF TypeOK
  <2> QED BY <1>1, <2>1, <2>2, <2>3, <2>4, RunIsIdle
<1> QED BY <1>2, <1>3, <1>4 DEF ClaimNext

\* The run gives up on its target for now.
LEMMA GivesUp ==
  ASSUME RetentionInv, NEW r \in Workers, workers[r].at \in {"files", "rows", "fail"}, To(r, "fail"),
         Fault \/ NoFault,
         UNCHANGED <<purge, expired, cases, rows, dirs, requests, uploads, deletions, transfers, forsaken>>
  PROVE  RetentionInv'
<1>1. /\ workers' \in [Workers -> WorkerState]
      /\ \A s \in Workers : Coherent(workers'[s]) /\ (s # r => workers'[s] = workers[s])
      /\ workers'[r].target = workers[r].target /\ workers'[r].todo = workers[r].todo
      /\ workers'[r].caseIds = workers[r].caseIds
  BY ToType DEF RetentionInv
<1>2. TypeOK'
  BY <1>1, MishapsType DEF RetentionInv, TypeOK
<1>3. WorkerOK(r)'
  BY <1>1, DataUntouched DEF RetentionInv, WorkerOK
<1>4. (\A s \in Workers : WorkerOK(s)') /\ (\A c \in Cases : DeletionOK(c)') /\ OneHolder'
  BY <1>1, <1>3, DataUntouched, OthersKeep
<1> QED BY <1>2, <1>4, DataUntouched DEF RetentionInv

LEMMA RemoveFilesStep ==
  ASSUME RetentionInv, NEW r \in Workers, RemoveFiles(r)
  PROVE  RetentionInv'
<1>1. /\ TypeOK /\ WorkerOK(r) /\ workers[r].at = "files"
      /\ workers[r] \in WorkerState /\ Coherent(workers[r])
      /\ UNCHANGED <<purge, cases, rows, requests, expired, uploads, deletions, transfers, forsaken>>
      /\ Fault \/ NoFault
  BY DEF RemoveFiles, RetentionInv, TypeOK, database
<1>2. CASE To(r, "fail") /\ UNCHANGED dirs
  BY <1>1, <1>2, GivesUp
<1>3. CASE \E c \in workers[r].todo :
             /\ dirs' = dirs \ Of(c)
             /\ workers' = [workers EXCEPT ![r].todo = @ \ {c},
                              ![r].at = IF workers[r].todo = {c} THEN "rows" ELSE "files"]
  <2>1. PICK c \in workers[r].todo :
             /\ dirs' = dirs \ Of(c)
             /\ workers' = [workers EXCEPT ![r].todo = @ \ {c},
                              ![r].at = IF workers[r].todo = {c} THEN "rows" ELSE "files"]
    BY <1>3
  <2> DEFINE w == [workers[r] EXCEPT !.todo = workers[r].todo \ {c},
                                     !.at = IF workers[r].todo = {c} THEN "rows" ELSE "files"]
  <2>2. workers' = [workers EXCEPT ![r] = w]
    BY <1>1, <2>1 DEF TypeOK
  <2>3. /\ w \in WorkerState /\ w.target = workers[r].target /\ w.caseIds = workers[r].caseIds
        /\ w.todo = workers[r].todo \ {c}
        /\ w.at = IF workers[r].todo = {c} THEN "rows" ELSE "files"
    BY <1>1, Zenon DEF WorkerState
  <2> HIDE DEF w
  <2>4. Coherent(w)
    BY <1>1, <2>3 DEF Coherent
  <2>5. /\ workers' \in [Workers -> WorkerState] /\ workers'[r] = w
        /\ \A s \in Workers : Coherent(workers'[s]) /\ (s # r => workers'[s] = workers[s])
    BY <1>1, <2>2, <2>3, <2>4, WorkerType
  <2>6. c \in Cases /\ c \in workers[r].caseIds /\ workers[r].target \in Guests \cup Cases
    BY <1>1 DEF WorkerOK, WorkerState, Coherent
  <2>7. ~Kept(c)
    <3>1. CASE workers[r].target \in Guests
      BY <1>1, <2>6, <3>1 DEF WorkerOK, Kept
    <3>2. CASE workers[r].target \in Cases
      BY <1>1, <2>6, <3>2 DEF WorkerOK, Coherent, Kept
    <3> QED BY <2>6, <3>1, <3>2
  <2>8. /\ \A g \in Guests : GuestOK(g)'
        /\ \A d \in Cases : CaseOK(d)' /\ (Swept(d) => Swept(d)')
        /\ \A a \in Artifacts : UploadOK(a)'
        /\ Swept(c)'
    BY <1>1, <2>1, <2>6, <2>7, FilesGo
  <2>9. WorkerOK(r)'
    <3>1. workers'[r].target \in Cases => c = workers'[r].target
      BY <1>1, <2>3, <2>5, <2>6 DEF Coherent
    <3> QED BY <1>1, <2>3, <2>5, <2>8, <3>1 DEF WorkerOK
  <2>10. TypeOK'
    BY <1>1, <2>1, <2>5, MishapsType, Zenon DEF TypeOK
  <2>11. (\A s \in Workers : WorkerOK(s)') /\ (\A d \in Cases : DeletionOK(d)') /\ OneHolder'
    BY <1>1, <2>3, <2>5, <2>8, <2>9, OthersKeep
  <2> QED BY <2>8, <2>10, <2>11 DEF RetentionInv
<1> QED BY <1>2, <1>3 DEF RemoveFiles

\* The next target, or the end of the batch.
LEMMA GoesOnType ==
  ASSUME TypeOK, NEW r \in Workers, GoesOn(r)
  PROVE  /\ workers' \in [Workers -> WorkerState]
         /\ \A s \in Workers : Coherent(workers'[s]) /\ (s # r => workers'[s] = workers[s])
         /\ workers'[r].target \notin Guests \cup Cases
         /\ workers'[r].todo \subseteq workers'[r].caseIds
<1> DEFINE w == IF Cardinality(workers[r].tried) < Limit THEN Idle("claim", workers[r].tried)
                                                         ELSE Idle("metadata", {})
<1>1. workers[r].tried \in SUBSET (Guests \cup Cases) /\ workers' = [workers EXCEPT ![r] = w]
  BY DEF TypeOK, WorkerState, GoesOn
<1>2. /\ w \in WorkerState /\ Coherent(w) /\ w.target \notin Guests \cup Cases
      /\ w.todo \subseteq w.caseIds
  BY <1>1, IdleType
<1> HIDE DEF w
<1> QED BY <1>1, <1>2, WorkerType

LEMMA CompleteTargetStep ==
  ASSUME RetentionInv, NEW r \in Workers, CompleteTarget(r)
  PROVE  RetentionInv'
<1> DEFINE t == workers[r].target
           cs == workers[r].caseIds
<1>1. /\ TypeOK /\ WorkerOK(r) /\ workers[r].at = "rows"
      /\ workers[r] \in WorkerState /\ Coherent(workers[r])
      /\ UNCHANGED <<expired, dirs, uploads, deletions, transfers, forsaken>>
      /\ Fault \/ NoFault
  BY DEF CompleteTarget, RetentionInv, TypeOK
<1>2. /\ cs \in SUBSET Cases /\ t \in Guests \cup Cases
      /\ t \in Cases => cs = {t} /\ Swept(t)
  BY <1>1 DEF WorkerState, WorkerOK, Coherent
<1>3. CASE To(r, "fail") /\ UNCHANGED database
  BY <1>1, <1>3, GivesUp DEF database
<1>4. CASE CanErase(r) /\ Erase(r) /\ (GoesOn(r) \/ To(r, "fail"))
  <2>1. /\ workers' \in [Workers -> WorkerState]
        /\ \A s \in Workers : Coherent(workers'[s]) /\ (s # r => workers'[s] = workers[s])
        /\ workers'[r].todo \subseteq workers'[r].caseIds
        /\ \/ workers'[r].target \notin Guests \cup Cases
           \/ /\ workers'[r].target = t /\ workers'[r].caseIds = cs
              /\ workers'[r].todo = workers[r].todo
    <3>1. CASE GoesOn(r)
      BY <1>1, <3>1, GoesOnType
    <3>2. CASE To(r, "fail")
      BY <1>1, <3>2, ToType DEF WorkerOK
    <3> QED BY <1>4, <3>1, <3>2
  <2>2. EraseRows(cs)
    BY <1>4 DEF Erase
  <2>3. /\ purge' \in [Guests -> {"active", "pending", "gone"}]
        /\ \A g \in Guests : purge'[g] = purge[g] \/ (purge'[g] = "gone" /\ purge[g] # "active")
        /\ requests' \in [Cases -> RequestRow]
        /\ \A c \in Cases : \/ requests'[c] = requests[c]
                            \/ /\ requests'[c].status = "completed" /\ requests[c].status # "none"
                               /\ c \in cs /\ Swept(c)
    <3>1. CASE t \in Guests
      <4>1. purge[t] = "pending" /\ purge' = [purge EXCEPT ![t] = "gone"] /\ UNCHANGED requests
        BY <1>4, <3>1 DEF CanErase, Erase
      <4> HIDE DEF t
      <4> QED BY <1>1, <3>1, <4>1 DEF TypeOK
    <3>2. CASE t \notin Guests
      <4>1. /\ requests[t].status = "processing" /\ UNCHANGED purge
            /\ requests' = [requests EXCEPT ![t].status = "completed"]
        BY <1>4, <3>2 DEF CanErase, Erase
      <4>2. t \in Cases /\ t \in cs /\ Swept(t)
        BY <1>2, <3>2
      <4> HIDE DEF t
      <4>3. /\ requests' \in [Cases -> RequestRow] /\ requests'[t].status = "completed"
            /\ \A c \in Cases : c # t => requests'[c] = requests[c]
        BY <1>1, <4>1, <4>2, ZenonT(60) DEF TypeOK, RequestRow
      <4> QED BY <1>1, <4>1, <4>2, <4>3 DEF TypeOK
    <3> QED BY <3>1, <3>2
  <2> HIDE DEF cs, t
  <2>4. /\ cases' \in [Cases -> CaseRow] /\ rows' \in [Artifacts -> ArtifactRow]
        /\ \A g \in Guests : GuestOK(g)'
        /\ \A c \in Cases : /\ CaseOK(c)' /\ (Swept(c) <=> Swept(c)')
                            /\ cases'[c].owner = cases[c].owner
                            /\ cases'[c].status = "open" => cases[c].status = "open"
        /\ \A a \in Artifacts : UploadOK(a)'
    BY <1>1, <1>2, <2>2, <2>3, RowsGo
  <2>5. TypeOK'
    BY <1>1, <2>1, <2>3, <2>4, MishapsType DEF TypeOK
  <2>6. \A c \in Cases : /\ requests[c].status \in Held => requests'[c].status \in Held
                         /\ requests[c].status # "none" => requests'[c].status # "none"
    BY <2>3 DEF Held
  <2>7. \A g \in Guests : purge'[g] = "active" => purge[g] = "active"
    BY <2>3
  <2>8. WorkerOK(r)'
    <3>1. CASE workers'[r].target \notin Guests \cup Cases
      BY <2>1, <3>1 DEF WorkerOK
    <3>2. CASE workers'[r].target = t /\ workers'[r].caseIds = cs /\ workers'[r].todo = workers[r].todo
      BY <1>1, <1>2, <2>1, <2>4, <2>6, <2>7, <3>2 DEF WorkerOK, Held, t, cs
    <3> QED BY <2>1, <3>1, <3>2
  <2>9. workers'[r].target \in Cases => workers'[r].target = workers[r].target
    BY <2>1 DEF t
  <2>10. (\A s \in Workers : WorkerOK(s)') /\ (\A c \in Cases : DeletionOK(c)') /\ OneHolder'
    BY <1>1, <2>1, <2>4, <2>6, <2>7, <2>8, <2>9, OthersKeep
  <2> QED BY <2>4, <2>5, <2>10 DEF RetentionInv
<1> QED BY <1>3, <1>4 DEF CompleteTarget

LEMMA FailTargetStep ==
  ASSUME RetentionInv, NEW r \in Workers, FailTarget(r)
  PROVE  RetentionInv'
<1> DEFINE t == workers[r].target
<1>1. /\ TypeOK /\ WorkerOK(r) /\ workers[r] \in WorkerState /\ GoesOn(r)
      /\ UNCHANGED <<cases, rows, expired, dirs, uploads, deletions, transfers>>
      /\ Fault \/ NoFault
      /\ forsaken' \subseteq forsaken \cup Cases
      /\ Failed(r) \/ UNCHANGED <<purge, requests>>
  BY DEF FailTarget, RetentionInv, TypeOK
<1>2. /\ workers' \in [Workers -> WorkerState]
      /\ \A s \in Workers : Coherent(workers'[s]) /\ (s # r => workers'[s] = workers[s])
      /\ workers'[r].target \notin Guests \cup Cases
      /\ workers'[r].todo \subseteq workers'[r].caseIds
  BY <1>1, GoesOnType
<1>3. /\ purge' \in [Guests -> {"active", "pending", "gone"}]
      /\ \A g \in Guests : purge'[g] = purge[g] \/ (purge'[g] = "pending" /\ g \in expired)
      /\ requests' \in [Cases -> RequestRow]
      /\ \A c \in Cases : \/ requests'[c].status = requests[c].status
                          \/ /\ requests[c].status # "none" /\ requests'[c].status = "failed"
                             /\ c = t
  <2>1. CASE UNCHANGED <<purge, requests>>
    BY <1>1, <2>1 DEF TypeOK
  <2>2. CASE Failed(r) /\ t \in Guests
    <3>1. /\ purge' = [g \in Guests |-> IF g = t /\ purge[g] # "gone" THEN "pending" ELSE purge[g]]
          /\ UNCHANGED requests
      BY <2>2 DEF Failed
    <3>2. t \in expired
      BY <1>1, <2>2 DEF WorkerOK, RetentionInv, GuestOK
    <3> HIDE DEF t
    <3> QED BY <1>1, <3>1, <3>2 DEF TypeOK
  <2>3. CASE Failed(r) /\ t \notin Guests
    <3>1. /\ requests' = [c \in Cases |-> IF c = t /\ requests[c].status = "processing"
                                          THEN [requests[c] EXCEPT !.status = "failed"] ELSE requests[c]]
          /\ UNCHANGED purge
      BY <2>3 DEF Failed
    <3> HIDE DEF t
    <3>2. \A c \in Cases : /\ requests[c] \in RequestRow
                           /\ [requests[c] EXCEPT !.status = "failed"] \in RequestRow
                           /\ [requests[c] EXCEPT !.status = "failed"].status = "failed"
      BY <1>1 DEF TypeOK, RequestRow
    <3>3. requests' \in [Cases -> RequestRow]
      BY <3>1, <3>2
    <3>4. \A c \in Cases : requests'[c] = IF c = t /\ requests[c].status = "processing"
                                          THEN [requests[c] EXCEPT !.status = "failed"] ELSE requests[c]
      BY <3>1
    <3> QED BY <1>1, <3>1, <3>2, <3>3, <3>4 DEF TypeOK
  <2> QED BY <1>1, <2>1, <2>2, <2>3
<1> HIDE DEF t
<1>4. TypeOK'
  BY <1>1, <1>2, <1>3, MishapsType DEF TypeOK
<1> QED BY <1>1, <1>2, <1>3, <1>4, RunIsIdle DEF t

LEMMA PurgeMetadataStep ==
  ASSUME RetentionInv, NEW r \in Workers, PurgeExpiredMetadata(r)
  PROVE  RetentionInv'
<1> DEFINE w == Idle("off", {})
<1>1. /\ TypeOK /\ workers' = [workers EXCEPT ![r] = w]
      /\ UNCHANGED <<purge, cases, rows, expired, dirs, uploads, deletions, transfers, forsaken, mishaps>>
  BY DEF PurgeExpiredMetadata, RetentionInv, Ends, Off
<1>2. /\ w \in WorkerState /\ Coherent(w) /\ w.target \notin Guests \cup Cases
      /\ w.todo \subseteq w.caseIds
  BY IdleType
<1> HIDE DEF w
<1>3. /\ workers' \in [Workers -> WorkerState] /\ workers'[r] = w
      /\ \A s \in Workers : Coherent(workers'[s]) /\ (s # r => workers'[s] = workers[s])
  BY <1>1, <1>2, WorkerType
<1>4. PICK old \in SUBSET {c \in Cases : requests[c].status = "completed"} :
        requests' = [c \in Cases |-> IF c \in old THEN [requests[c] EXCEPT !.status = "removed"]
                                                  ELSE requests[c]]
  BY DEF PurgeExpiredMetadata
<1>5. \A c \in Cases : /\ requests[c] \in RequestRow
                       /\ [requests[c] EXCEPT !.status = "removed"] \in RequestRow
                       /\ [requests[c] EXCEPT !.status = "removed"].status = "removed"
  BY <1>1 DEF TypeOK, RequestRow
<1>6. /\ requests' \in [Cases -> RequestRow]
      /\ \A c \in Cases : \/ requests'[c].status = requests[c].status
                          \/ requests[c].status = "completed" /\ requests'[c].status = "removed"
  <2>1. requests' \in [Cases -> RequestRow]
    BY <1>4, <1>5
  <2>2. \A c \in Cases : requests'[c] = IF c \in old THEN [requests[c] EXCEPT !.status = "removed"]
                                                    ELSE requests[c]
    BY <1>4
  <2> QED BY <1>4, <1>5, <2>1, <2>2
<1>7. TypeOK'
  BY <1>1, <1>3, <1>6 DEF TypeOK
<1> QED BY <1>1, <1>2, <1>3, <1>6, <1>7, RunIsIdle

LEMMA WorkerCrashStep ==
  ASSUME RetentionInv, NEW r \in Workers, WorkerCrash(r)
  PROVE  RetentionInv'
<1> DEFINE w == Idle("off", {})
<1>1. /\ TypeOK /\ workers' = [workers EXCEPT ![r] = w] /\ Crash
      /\ forsaken' \subseteq forsaken \cup Cases
      /\ UNCHANGED <<purge, cases, rows, requests, expired, dirs, uploads, deletions, transfers>>
  BY DEF WorkerCrash, RetentionInv, Ends, Off, database
<1>2. /\ w \in WorkerState /\ Coherent(w) /\ w.target \notin Guests \cup Cases
      /\ w.todo \subseteq w.caseIds
  BY IdleType
<1> HIDE DEF w
<1>3. /\ workers' \in [Workers -> WorkerState] /\ workers'[r] = w
      /\ \A s \in Workers : Coherent(workers'[s]) /\ (s # r => workers'[s] = workers[s])
  BY <1>1, <1>2, WorkerType
<1>4. TypeOK'
  BY <1>1, <1>3, MishapsType DEF TypeOK
<1> QED BY <1>1, <1>2, <1>3, <1>4, RunIsIdle
-----------------------------------------------------------------------------
(* Time, and the end of the web process. *)

LEMMA ExpireStep ==
  ASSUME RetentionInv, NEW g \in Guests, Expire(g)
  PROVE  RetentionInv'
<1>1. /\ TypeOK /\ expired' = expired \cup {g}
      /\ UNCHANGED <<purge, cases, rows, requests, dirs, uploads, deletions, transfers, workers,
                     forsaken, mishaps>>
  BY DEF Expire, RetentionInv, database
<1>2. TypeOK'
  BY <1>1 DEF TypeOK
<1>3. \A h \in Guests : GuestOK(h)'
  BY <1>1 DEF RetentionInv, GuestOK
<1>4. \A c \in Cases : (Swept(c)' <=> Swept(c)) /\ RowsOf(c)' = RowsOf(c)
  BY <1>1 DEF Swept, Of, InFlight, RowsOf
<1>5. \A c \in Cases : CaseOK(c)' /\ DeletionOK(c)'
  BY <1>1, <1>4 DEF RetentionInv, CaseOK, DeletionOK
<1>6. \A a \in Artifacts : UploadOK(a)'
  BY <1>1 DEF RetentionInv, UploadOK, Undeleted, Kept
<1>7. (\A r \in Workers : WorkerOK(r)') /\ OneHolder'
  BY <1>1, <1>4 DEF RetentionInv, WorkerOK, OneHolder
<1> QED BY <1>2, <1>3, <1>5, <1>6, <1>7 DEF RetentionInv

LEMMA WebCrashStep ==
  ASSUME RetentionInv, WebCrash
  PROVE  RetentionInv'
<1>1. /\ TypeOK /\ Crash
      /\ uploads' = [a \in Artifacts |-> IF InFlight(a) THEN [uploads[a] EXCEPT !.at = "ended", !.lost = TRUE]
                                                        ELSE uploads[a]]
      /\ deletions' = [c \in Cases |-> NoDeletion]
      /\ transfers' = [c \in Cases |-> Nobody]
      /\ UNCHANGED <<purge, cases, rows, requests, expired, dirs, workers, forsaken>>
  BY Zenon DEF WebCrash, RetentionInv, database
<1>2. ASSUME NEW a \in Artifacts
      PROVE  /\ uploads'[a] \in UploadState /\ uploads'[a].case = uploads[a].case
             /\ IF InFlight(a) THEN uploads'[a].at = "ended" /\ uploads'[a].lost
                               ELSE uploads'[a] = uploads[a]
  <2>1. uploads[a] \in UploadState
        /\ uploads'[a] = IF InFlight(a) THEN [uploads[a] EXCEPT !.at = "ended", !.lost = TRUE]
                                        ELSE uploads[a]
    BY <1>1, Zenon DEF TypeOK
  <2> QED BY <2>1, ZenonT(60) DEF UploadState
<1>3. TypeOK'
  <2>1. uploads' \in [Artifacts -> UploadState]
    BY <1>1, <1>2, Zenon
  <2>2. deletions' \in [Cases -> DeletionState]
    BY <1>1, Zenon DEF NoDeletion, DeletionState
  <2> QED BY <1>1, <2>1, <2>2, MishapsType, Zenon DEF TypeOK
<1>4. \A c \in Cases : (Swept(c) => Swept(c)') /\ RowsOf(c)' = RowsOf(c)
  <2>1. ASSUME NEW c \in Cases, Swept(c), NEW a \in Artifacts, uploads'[a].case = c, a \in dirs'
        PROVE  uploads'[a].lost \/ InFlight(a)'
    BY <1>1, <1>2, <2>1, Zenon DEF Swept, Of
  <2>2. \A c \in Cases : Swept(c) => Swept(c)'
    BY <2>1 DEF Swept, Of
  <2>3. \A c \in Cases : RowsOf(c)' = RowsOf(c)
    BY <1>1, <1>2, Zenon DEF RowsOf, Of
  <2> QED BY <2>2, <2>3
<1>5. \A c \in Cases : CaseOK(c)' /\ DeletionOK(c)'
  BY <1>1, <1>4, Zenon DEF RetentionInv, CaseOK, DeletionOK, NoDeletion
<1>6. ASSUME NEW a \in Artifacts PROVE UploadOK(a)'
  <2>1. UploadOK(a) /\ rows'[a] = rows[a]
    BY <1>1, ZenonT(60) DEF RetentionInv
  <2>2. CASE InFlight(a)
    BY <1>1, <1>2, <2>1, <2>2, ZenonT(60) DEF UploadOK, Undeleted, Kept, InFlight
  <2>3. CASE ~InFlight(a)
    BY <1>1, <1>2, <2>1, <2>3, Zenon DEF UploadOK, Undeleted, Kept
  <2> QED BY <2>2, <2>3
<1>7. (\A r \in Workers : WorkerOK(r)') /\ OneHolder'
  BY <1>1, <1>4, SweptHasRequest, Zenon DEF RetentionInv, WorkerOK, OneHolder
<1>8. \A g \in Guests : GuestOK(g)'
  BY <1>1, Zenon DEF RetentionInv, GuestOK
<1> QED BY <1>3, <1>5, <1>6, <1>7, <1>8 DEF RetentionInv

-----------------------------------------------------------------------------
(* The theorems. *)

LEMMA RetentionInit ==
  ASSUME Init
  PROVE  RetentionInv
<1>1. TypeOK
  <2>1. purge \in [Guests -> {"active", "pending", "gone"}] /\ expired = {} /\ dirs = {} /\ forsaken = {}
    BY DEF Init
  <2>2. cases \in [Cases -> CaseRow]
    BY RetentionAssumption DEF Init, CaseRow, Owners
  <2>3. rows \in [Artifacts -> ArtifactRow]
    BY DEF Init, ArtifactRow
  <2>4. requests \in [Cases -> RequestRow]
    <3>1. 0 \in 0 .. Cardinality(Cases)
      BY RetentionAssumption, FS_CardinalityType
    <3> QED BY <3>1 DEF Init, RequestRow
  <2>5. uploads \in [Artifacts -> UploadState]
    BY DEF Init, UploadState
  <2>6. deletions \in [Cases -> DeletionState] /\ transfers \in [Cases -> Users \cup {Nobody}]
    BY DEF Init, DeletionState, NoDeletion
  <2>7. workers = [r \in Workers |-> Idle("off", {})]
    BY DEF Init, Off
  <2>8. workers \in [Workers -> WorkerState] /\ \A r \in Workers : Coherent(workers[r])
    BY <2>7, IdleType
  <2>9. mishaps \in [faults : 0..MaxFaults, crashes : 0..MaxCrashes]
    BY RetentionAssumption DEF Init
  <2> QED BY <2>1, <2>2, <2>3, <2>4, <2>5, <2>6, <2>8, <2>9 DEF TypeOK
<1>2. \A g \in Guests : GuestOK(g)
  BY DEF Init, GuestOK
<1>3. \A c \in Cases : CaseOK(c) /\ DeletionOK(c)
  BY DEF Init, CaseOK, DeletionOK, NoDeletion
<1>4. \A a \in Artifacts : UploadOK(a)
  BY DEF Init, UploadOK, Undeleted
<1>5. (\A r \in Workers : WorkerOK(r)) /\ OneHolder
  <2>1. \A r \in Workers : workers[r] = Idle("off", {})
    BY DEF Init, Off
  <2>2. \A r \in Workers : /\ workers[r].target \notin Guests \cup Cases
                           /\ workers[r].todo \subseteq workers[r].caseIds
    BY <2>1, IdleType
  <2> QED BY <2>2 DEF WorkerOK, OneHolder
<1> QED BY <1>1, <1>2, <1>3, <1>4, <1>5 DEF RetentionInv

LEMMA RetentionStep ==
  ASSUME RetentionInv, [Next]_vars
  PROVE  RetentionInv'
<1>1. ASSUME NEW a \in Artifacts, NEW c \in Cases, Receive(a, c) PROVE RetentionInv'
  BY <1>1, ReceiveStep
<1>2. ASSUME NEW a \in Artifacts, Upload(a) PROVE RetentionInv'
  BY <1>2, ReserveStep, SaveStep, FinalizeStep, UndoSaveStep, AbandonStep DEF Upload
<1>3. ASSUME NEW c \in Cases, AskDeletion(c) \/ Deletion(c) PROVE RetentionInv'
  BY <1>3, AskDeletionStep, MarkStep, RemoveCaseFilesStep, CompleteCaseDeletionStep DEF Deletion
<1>4. ASSUME NEW c \in Cases, NEW u \in Users, AskTransfer(c, u) PROVE RetentionInv'
  BY <1>4, AskTransferStep
<1>5. ASSUME NEW c \in Cases, TransferGuestCase(c) PROVE RetentionInv'
  BY <1>5, TransferStep
<1>6. ASSUME NEW r \in Workers, Worker(r) PROVE RetentionInv'
  BY <1>6, StartRunStep, ClaimStep, RemoveFilesStep, CompleteTargetStep, FailTargetStep,
     PurgeMetadataStep DEF Worker
<1>7. ASSUME NEW r \in Workers, WorkerCrash(r) PROVE RetentionInv'
  BY <1>7, WorkerCrashStep
<1>8. ASSUME NEW g \in Guests, Expire(g) PROVE RetentionInv'
  BY <1>8, ExpireStep
<1>9. CASE WebCrash
  BY <1>9, WebCrashStep
<1>10. CASE UNCHANGED vars
  <2>1. UNCHANGED <<purge, expired, cases, rows, dirs, requests, uploads, deletions,
                    transfers, workers, forsaken, mishaps>>
    BY <1>10 DEF vars
  <2>2. TypeOK'
    BY <2>1 DEF RetentionInv, TypeOK
  <2> QED BY <2>1, <2>2, OnlyDeletions
<1> QED BY <1>1, <1>2, <1>3, <1>4, <1>5, <1>6, <1>7, <1>8, <1>9, <1>10 DEF Next

\* The invariant the other theorems of this module rest on.
THEOREM RetentionInvariant == Spec => []RetentionInv
<1>1. Init => RetentionInv
  BY RetentionInit
<1>2. RetentionInv /\ [Next]_vars => RetentionInv'
  BY RetentionStep
<1> QED BY <1>1, <1>2, PTL DEF Spec

\* Every table keeps to its constraints, and every process stands at a step of
\* its code with a target that suits it (src/src/adapters/database/postgres,
\* src/src/application/retention).
THEOREM RetentionTypes == Spec => []TypeOK
<1>1. RetentionInv => TypeOK
  BY DEF RetentionInv
<1> QED BY <1>1, RetentionInvariant, PTL

\* A deletion is reported as completed only when no row of the case and no file
\* of a finished upload is left, however uploads, owners, runs, errors and
\* crashes interleave.
THEOREM CompletedDeletionsErase == Spec => []CompletedMeansErased
<1>1. RetentionInv => CompletedMeansErased
  BY DEF RetentionInv, CaseOK, Swept, CompletedMeansErased
<1> QED BY <1>1, RetentionInvariant, PTL

\* No clean-up takes the files of an artifact that the owner of an open case is
\* still offered.
THEOREM LiveCasesAreReadable == Spec => []LiveCaseIsReadable
<1>1. RetentionInv => LiveCaseIsReadable
  <2>1. ASSUME RetentionInv, NEW a \in Artifacts, NEW c \in Cases,
               rows[a].state = "available", uploads[a].case = c, cases[c].status = "open",
               cases[c].owner \notin expired
        PROVE  a \in dirs \/ uploads[a].lost
    <3>1. Kept(c)
      BY <2>1 DEF RetentionInv, GuestOK, Kept
    <3> QED BY <2>1, <3>1 DEF RetentionInv, UploadOK
  <2> QED BY <2>1 DEF LiveCaseIsReadable
<1> QED BY <1>1, RetentionInvariant, PTL

-----------------------------------------------------------------------------
(* What a step may never do. *)

KeepsAccountCases ==
  \A c \in Cases :
    cases[c].owner \in Users /\ cases[c].status = "open"
      => /\ cases'[c].status \in {"open", "deleting"}
         /\ cases'[c].status = "deleting" => requests'[c].by = cases[c].owner

\* Rows of some cases are erased, none of which is an account's open case.
LEMMA EraseKeeps ==
  ASSUME TypeOK, NEW cs \in SUBSET Cases, EraseRows(cs),
         \A c \in cs : cases[c].owner \notin Users \/ cases[c].status # "open"
  PROVE  KeepsAccountCases
<1>1. cases' = [c \in Cases |-> IF c \in cs THEN [cases[c] EXCEPT !.status = "gone"] ELSE cases[c]]
  BY DEF EraseRows, SetStatus
<1>2. \A c \in Cases : c \notin cs => cases'[c] = cases[c]
  BY <1>1
<1> QED BY <1>2 DEF KeepsAccountCases

LEMMA StepKeepsAccountCases ==
  ASSUME RetentionInv, [Next]_vars
  PROVE  KeepsAccountCases
<1>1. TypeOK
  BY DEF RetentionInv
<1>2. CASE UNCHANGED cases
  BY <1>2 DEF KeepsAccountCases
<1>3. ASSUME NEW c \in Cases, cases[c].status = "open", Marked(c) PROVE KeepsAccountCases
  <2>1. /\ cases' = [d \in Cases |-> IF d \in {c} THEN [cases[d] EXCEPT !.status = "deleting"] ELSE cases[d]]
        /\ requests' = [requests EXCEPT ![c] =
             [status |-> "pending", by |-> cases[c].owner, at |-> Cardinality(Filed) + 1]]
        /\ cases \in [Cases -> CaseRow] /\ requests \in [Cases -> RequestRow]
    BY <1>1, <1>3 DEF Marked, SetStatus, TypeOK
  <2>2. requests'[c].by = cases[c].owner
    BY <2>1
  <2>3. cases'[c].status = "deleting" /\ \A d \in Cases : d # c => cases'[d] = cases[d]
    BY <2>1 DEF CaseRow
  <2> QED BY <2>2, <2>3 DEF KeepsAccountCases
<1>4. ASSUME NEW c \in Cases, CanComplete(c), EraseRows({c}) PROVE KeepsAccountCases
  BY <1>1, <1>4, EraseKeeps DEF CanComplete
<1>5. ASSUME NEW c \in Cases, TransferGuestCase(c), CanTransfer(c) PROVE KeepsAccountCases
  <2>1. cases' = [cases EXCEPT ![c].owner = transfers[c]] /\ cases[c].owner \notin Users
    BY <1>5, RetentionAssumption DEF TransferGuestCase, CanTransfer
  <2>2. \A d \in Cases : d # c => cases'[d] = cases[d]
    BY <1>1, <2>1 DEF TypeOK
  <2> QED BY <2>1, <2>2 DEF KeepsAccountCases
<1>6. ASSUME NEW r \in Workers, CompleteTarget(r), Erase(r) PROVE KeepsAccountCases
  <2>1. /\ WorkerOK(r) /\ workers[r] \in WorkerState /\ Coherent(workers[r])
        /\ workers[r].target \in Guests \cup Cases /\ workers[r].caseIds \in SUBSET Cases
    BY <1>1, <1>6 DEF RetentionInv, TypeOK, CompleteTarget, Coherent, WorkerState
  <2>2. \A c \in workers[r].caseIds : cases[c].owner \notin Users \/ cases[c].status # "open"
    BY <2>1, RetentionAssumption DEF WorkerOK, Coherent
  <2> QED BY <1>1, <1>6, <2>1, <2>2, EraseKeeps DEF Erase
<1>7. ASSUME NEW c \in Cases, Deletion(c) PROVE KeepsAccountCases
  BY <1>2, <1>3, <1>4, <1>7 DEF Deletion, MarkCase, RemoveCaseFiles, CompleteCaseDeletion, database
<1>8. ASSUME NEW c \in Cases, TransferGuestCase(c) PROVE KeepsAccountCases
  BY <1>2, <1>5, <1>8 DEF TransferGuestCase
<1>9. ASSUME NEW r \in Workers, CompleteTarget(r) PROVE KeepsAccountCases
  BY <1>2, <1>6, <1>9 DEF CompleteTarget, database
<1>10. ASSUME NEW r \in Workers, Worker(r) \/ WorkerCrash(r) PROVE KeepsAccountCases
  BY <1>2, <1>9, <1>10 DEF Worker, WorkerCrash, StartRun, ClaimNext, RemoveFiles, FailTarget,
     PurgeExpiredMetadata, database
<1>11. ASSUME NEW a \in Artifacts, Upload(a) \/ (\E c \in Cases : Receive(a, c)) PROVE KeepsAccountCases
  BY <1>2, <1>11, Zenon DEF Upload, Receive, Reserve, Save, Finalize, UndoSave, Abandon, database
<1>12. ASSUME NEW c \in Cases, AskDeletion(c) \/ (\E u \in Users : AskTransfer(c, u)) PROVE KeepsAccountCases
  BY <1>2, <1>12 DEF AskDeletion, AskTransfer, database
<1>13. CASE WebCrash \/ (\E g \in Guests : Expire(g)) \/ UNCHANGED vars
  BY <1>2, <1>13, Zenon DEF WebCrash, Expire, database, vars
<1> QED BY <1>7, <1>8, <1>10, <1>11, <1>12, <1>13 DEF Next

\* An open case of an account leaves only through its owner's deletion: the
\* purge of the guest it came from passes it by, and so does every other run.
THEOREM AccountCasesStay == Spec => AccountCasesAreKept
<1>1. RetentionInv /\ [Next]_vars => KeepsAccountCases \/ UNCHANGED vars
  BY StepKeepsAccountCases
<1>2. Spec => [][KeepsAccountCases]_vars
  BY <1>1, RetentionInvariant, PTL DEF Spec
<1> QED BY <1>2 DEF AccountCasesAreKept, KeepsAccountCases

KeepsCompleted ==
  \A c \in Cases : requests[c].status = "completed" => requests'[c].status \in {"completed", "removed"}

LEMMA StepKeepsCompleted ==
  ASSUME RetentionInv, [Next]_vars
  PROVE  KeepsCompleted
<1>1. TypeOK /\ requests \in [Cases -> RequestRow]
  BY DEF RetentionInv, TypeOK
<1>2. CASE UNCHANGED requests
  BY <1>2 DEF KeepsCompleted
\* One request changes, which is not completed or becomes it.
<1>3. ASSUME NEW c \in Cases, \A d \in Cases : d # c => requests'[d] = requests[d],
             requests[c].status # "completed" \/ requests'[c].status = "completed"
      PROVE  KeepsCompleted
  BY <1>3 DEF KeepsCompleted
<1>4. ASSUME NEW c \in Cases, Deletion(c) PROVE KeepsCompleted
  <2>1. CASE cases[c].status = "open" /\ Marked(c)
    <3>1. requests[c].status = "none" /\ \A d \in Cases : d # c => requests'[d] = requests[d]
      BY <1>1, <2>1 DEF Marked, RetentionInv, CaseOK
    <3> QED BY <1>3, <3>1
  <2>2. CASE requests' = [requests EXCEPT ![c].status = "completed"]
    <3>1. requests'[c].status = "completed" /\ \A d \in Cases : d # c => requests'[d] = requests[d]
      BY <1>1, <2>2 DEF RequestRow
    <3> QED BY <1>3, <3>1
  <2> QED BY <1>2, <1>4, <2>1, <2>2
          DEF Deletion, MarkCase, RemoveCaseFiles, CompleteCaseDeletion, database
<1>5. ASSUME NEW r \in Workers, ClaimNext(r) PROVE KeepsCompleted
  <2>1. CASE ClaimRequest(r)
    <3> DEFINE c == Oldest(Waiting(r))
    <3>1. /\ Waiting(r) # {} /\ Waiting(r) \subseteq Cases
          /\ \A d \in Waiting(r) : requests[d].at \in Nat /\ requests[d].status # "completed"
      BY <1>1, <2>1, RetentionAssumption, FS_CardinalityType DEF ClaimRequest, Waiting, RequestRow
    <3>2. c \in Waiting(r)
      BY <3>1, OldestIsThere
    <3>3. \/ requests' = [requests EXCEPT ![c].status = "processing"]
          \/ requests' = [requests EXCEPT ![c].status = "failed"]
      BY <2>1 DEF ClaimRequest
    <3> HIDE DEF c
    <3> QED BY <1>1, <1>3, <3>1, <3>2, <3>3
  <2> QED BY <1>2, <1>5, <2>1 DEF ClaimNext, ClaimGuest, ClaimNothing
<1>6. ASSUME NEW r \in Workers, CompleteTarget(r) PROVE KeepsCompleted
  <2>1. CASE CanErase(r) /\ Erase(r) /\ workers[r].target \notin Guests
    <3> DEFINE t == workers[r].target
    <3>1. t \in Cases
      BY <1>1, <1>6, <2>1 DEF TypeOK, WorkerState, Coherent, CompleteTarget
    <3>2. requests' = [requests EXCEPT ![t].status = "completed"]
      BY <2>1 DEF Erase
    <3> HIDE DEF t
    <3>3. requests'[t].status = "completed" /\ \A d \in Cases : d # t => requests'[d] = requests[d]
      BY <1>1, <3>1, <3>2 DEF RequestRow
    <3> QED BY <1>3, <3>1, <3>3
  <2> QED BY <1>2, <1>6, <2>1 DEF CompleteTarget, Erase, database
<1>7. ASSUME NEW r \in Workers, FailTarget(r) PROVE KeepsCompleted
  <2>1. CASE requests' = [c \in Cases |->
            IF c = workers[r].target /\ requests[c].status = "processing"
            THEN [requests[c] EXCEPT !.status = "failed"] ELSE requests[c]]
    <3>1. \A c \in Cases : requests[c].status = "completed" => requests'[c] = requests[c]
      BY <2>1
    <3> QED BY <3>1 DEF KeepsCompleted
  <2> QED BY <1>2, <1>7, <2>1 DEF FailTarget, Failed
<1>8. ASSUME NEW r \in Workers, PurgeExpiredMetadata(r) PROVE KeepsCompleted
  <2>1. PICK old \in SUBSET {c \in Cases : requests[c].status = "completed"} :
          requests' = [c \in Cases |-> IF c \in old THEN [requests[c] EXCEPT !.status = "removed"]
                                                    ELSE requests[c]]
    BY <1>8 DEF PurgeExpiredMetadata
  <2>2. \A c \in Cases : [requests[c] EXCEPT !.status = "removed"].status = "removed"
    BY <1>1 DEF RequestRow
  <2> QED BY <2>1, <2>2 DEF KeepsCompleted
<1>9. ASSUME NEW r \in Workers, Worker(r) \/ WorkerCrash(r) PROVE KeepsCompleted
  BY <1>2, <1>5, <1>6, <1>7, <1>8, <1>9 DEF Worker, WorkerCrash, StartRun, RemoveFiles, database
<1>10. ASSUME NEW a \in Artifacts, Upload(a) \/ (\E c \in Cases : Receive(a, c)) PROVE KeepsCompleted
  BY <1>2, <1>10, Zenon DEF Upload, Receive, Reserve, Save, Finalize, UndoSave, Abandon, database
<1>11. ASSUME NEW c \in Cases,
              AskDeletion(c) \/ (\E u \in Users : AskTransfer(c, u)) \/ TransferGuestCase(c)
       PROVE  KeepsCompleted
  BY <1>2, <1>11 DEF AskDeletion, AskTransfer, TransferGuestCase, database
<1>12. CASE WebCrash \/ (\E g \in Guests : Expire(g)) \/ UNCHANGED vars
  BY <1>2, <1>12, Zenon DEF WebCrash, Expire, database, vars
<1> QED BY <1>4, <1>9, <1>10, <1>11, <1>12 DEF Next

\* No two runs of the worker hold the same request, and a completed one is not
\* failed by a report that comes late.
THEOREM RequestsHaveOneRun == Spec => OneRunPerRequest
<1> DEFINE A == /\ \A r, s \in Workers :
                     workers'[r].target \in Cases /\ workers'[r].target = workers'[s].target => r = s
                /\ \A c \in Cases : requests[c].status = "completed"
                                      => requests'[c].status \in {"completed", "removed"}
<1>1. RetentionInv /\ RetentionInv' /\ [Next]_vars => A
  <2>1. RetentionInv' => \A r, s \in Workers :
          workers'[r].target \in Cases /\ workers'[r].target = workers'[s].target => r = s
    BY DEF RetentionInv, OneHolder
  <2> QED BY <2>1, StepKeepsCompleted DEF KeepsCompleted
<1>2. Spec => [][A]_vars
  <2> HIDE DEF A
  <2> QED BY <1>1, RetentionInvariant, PTL DEF Spec
<1> QED BY <1>2 DEF OneRunPerRequest
=============================================================================
