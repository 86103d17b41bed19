---------------------------- MODULE ServicesProofs ----------------------------
(***************************************************************************)
(* Theorems about the services of MCServices, for every value of its       *)
(* constants: first the invariants of the services that ServicePartsProofs *)
(* does not have (the demo case and its pipeline, the intake of files, the *)
(* front, the videos); then, a step of a part keeps the invariant of its   *)
(* service, and the other parts keep still.                                *)
(***************************************************************************)
EXTENDS MCServices, ServicePartsProofs

-----------------------------------------------------------------------------
(* Confirmations of the demo case.  A confirmation is issued once for an   *)
(* offer, and used by the one click that found it pending; that click goes *)
(* on with it, or has ended, and no other click has it.                    *)
HasId(c) == "id" \in DOMAIN click[c]

IsClick(x) ==
  \/ x = [pc |-> "unsent"] \/ x = [pc |-> "done"]
  \/ x = [pc |-> "save", id |-> x.id, entry |-> x.entry, seen |-> x.seen]
  \/ x = [pc |-> "done", id |-> x.id]

ClicksTyped ==
  /\ DOMAIN offer = Offers /\ DOMAIN click = Clicks
  /\ \A c \in Clicks : IsClick(click[c])

IsEntry(x) ==
  x = [candidate |-> x.candidate, expires |-> x.expires, revision |-> x.revision,
       status |-> x.status]

IssuedOnce ==
  \A id \in DOMAIN confirmations :
    id \in Offers /\ offer[id].pc = "done" /\ IsEntry(confirmations[id])

UsedByTheirClick ==
  \A c \in Clicks : HasId(c) =>
    /\ click[c].id \in Offers /\ offer[click[c].id].pc = "done"
    /\ click[c].id \in DOMAIN confirmations => confirmations[click[c].id].status = "used"

ClicksAreApart ==
  \A c, d \in Clicks : HasId(c) /\ HasId(d) /\ click[c].id = click[d].id => c = d

ConfirmedInv == ClicksTyped /\ IssuedOnce /\ UsedByTheirClick /\ ClicksAreApart

LEMMA ConfirmedStarts ==
  ASSUME Confirmed!ConfirmationsInit
  PROVE  ConfirmedInv
<1>1. \A c \in Clicks : ~HasId(c)
  BY DEF Confirmed!ConfirmationsInit, HasId
<1>2. ClicksTyped
  BY DEF Confirmed!ConfirmationsInit, ClicksTyped, IsClick
<1>3. IssuedOnce
  BY DEF Confirmed!ConfirmationsInit, IssuedOnce
<1> QED
  BY <1>1, <1>2, <1>3 DEF ConfirmedInv, UsedByTheirClick, ClicksAreApart

LEMMA ClickShapes ==
  ASSUME NEW c \in Clicks, IsClick(click[c])
  PROVE  /\ click[c].pc = "unsent" => ~HasId(c)
         /\ click[c].pc = "save" => HasId(c)
  BY DEF IsClick, HasId

LEMMA ProposeKeeps ==
  ASSUME ConfirmedInv, NEW o \in Offers, NEW candidate \in Candidates,
         Confirmed!Propose(o, candidate)
  PROVE  ConfirmedInv'
<1>1. DOMAIN offer' = Offers /\ offer[o].pc = "unsent" /\ \A i \in Offers : i # o => offer'[i] = offer[i]
  BY DEF Confirmed!Propose, ConfirmedInv, ClicksTyped
<1>2. UNCHANGED <<confirmations, click>>
  BY DEF Confirmed!Propose
<1>3. \A c \in Clicks : HasId(c)' <=> HasId(c)
  BY <1>2 DEF HasId
<1>4. ClicksTyped' /\ ClicksAreApart'
  BY <1>1, <1>2, <1>3 DEF ConfirmedInv, ClicksTyped, ClicksAreApart
<1>5. IssuedOnce'
  BY <1>1, <1>2 DEF ConfirmedInv, IssuedOnce
<1>6. UsedByTheirClick'
  BY <1>1, <1>2, <1>3 DEF ConfirmedInv, UsedByTheirClick
<1> QED
  BY <1>4, <1>5, <1>6 DEF ConfirmedInv

LEMMA OpenAreConfirmations ==
  /\ DOMAIN Confirmed!ConfirmationsOpen \subseteq DOMAIN confirmations
  /\ \A id \in DOMAIN Confirmed!ConfirmationsOpen :
       Confirmed!ConfirmationsOpen[id] = confirmations[id]
  BY DEF Confirmed!ConfirmationsOpen, Confirmed!Open, Confirmed!Restrict

LEMMA IssueKeeps ==
  ASSUME ConfirmedInv, NEW o \in Offers, Confirmed!IssueConfirmation(o)
  PROVE  ConfirmedInv'
<1>1. /\ DOMAIN offer' = Offers /\ offer[o].pc = "issue" /\ offer'[o].pc = "done"
      /\ \A i \in Offers : i # o => offer'[i] = offer[i]
  BY DEF Confirmed!IssueConfirmation, ConfirmedInv, ClicksTyped
<1>2. UNCHANGED click
  BY DEF Confirmed!IssueConfirmation
<1>3. /\ DOMAIN confirmations' \subseteq DOMAIN confirmations \cup {o}
      /\ \A id \in DOMAIN confirmations' : id # o => confirmations'[id] = confirmations[id]
      /\ o \in DOMAIN confirmations' \ DOMAIN confirmations => IsEntry(confirmations'[o])
  <2>1. CASE Confirmed!CanIssue
    <3> DEFINE entry == [candidate |-> offer[o].candidate, expires |-> now + ConfirmationTtl,
                         revision |-> offer[o].revision, status |-> "pending"]
    <3>1. confirmations' = Confirmed!Put(Confirmed!ConfirmationsOpen, o, entry)
      BY <2>1 DEF Confirmed!IssueConfirmation
    <3>2. IsEntry(entry)
      BY DEF IsEntry
    <3> HIDE DEF entry
    <3>3. confirmations'[o] = entry
      BY <3>1 DEF Confirmed!Put
    <3>4. /\ DOMAIN confirmations' = {o} \cup DOMAIN Confirmed!ConfirmationsOpen
          /\ \A id \in DOMAIN confirmations' : id # o =>
               confirmations'[id] = Confirmed!ConfirmationsOpen[id]
      BY <3>1 DEF Confirmed!Put
    <3> QED
      BY <3>2, <3>3, <3>4, OpenAreConfirmations
  <2>2. CASE ~Confirmed!CanIssue
    <3>1. confirmations' = Confirmed!ConfirmationsOpen
      BY <2>2 DEF Confirmed!IssueConfirmation
    <3> QED
      BY <3>1, OpenAreConfirmations
  <2> QED
    BY <2>1, <2>2
<1>4. \A c \in Clicks : (HasId(c)' <=> HasId(c)) /\ (HasId(c) => click[c].id # o)
  BY <1>1, <1>2 DEF HasId, ConfirmedInv, UsedByTheirClick
<1>5. ClicksTyped' /\ ClicksAreApart'
  BY <1>1, <1>2, <1>4 DEF ConfirmedInv, ClicksTyped, ClicksAreApart
<1>6. IssuedOnce'
  <2>1. o \notin DOMAIN confirmations
    BY <1>1 DEF ConfirmedInv, IssuedOnce
  <2> QED
    BY <1>1, <1>3, <2>1 DEF ConfirmedInv, IssuedOnce
<1>7. UsedByTheirClick'
  BY <1>1, <1>2, <1>3, <1>4 DEF ConfirmedInv, UsedByTheirClick
<1> QED
  BY <1>5, <1>6, <1>7 DEF ConfirmedInv

LEMMA ClickKeeps ==
  ASSUME ConfirmedInv, NEW c \in Clicks, NEW id \in Offers, Confirmed!ClickConfirm(c, id)
  PROVE  ConfirmedInv'
<1>1. click[c].pc = "unsent" /\ UNCHANGED offer
  BY DEF Confirmed!ClickConfirm
<1>2. \A d \in Clicks : d # c => click'[d] = click[d] /\ (HasId(d)' <=> HasId(d))
  BY DEF Confirmed!ClickConfirm, HasId, ConfirmedInv, ClicksTyped
<1>3. CASE click' = [click EXCEPT ![c] = [pc |-> "done"]] /\ UNCHANGED confirmations
  <2>1. click'[c] = [pc |-> "done"] /\ DOMAIN click' = Clicks /\ ~HasId(c)'
    BY <1>3 DEF HasId, ConfirmedInv, ClicksTyped
  <2> QED
    BY <1>1, <1>2, <1>3, <2>1
       DEF ConfirmedInv, ClicksTyped, IsClick, IssuedOnce, UsedByTheirClick, ClicksAreApart
<1>4. CASE /\ Confirmed!Usable(id)
           /\ confirmations' = [confirmations EXCEPT ![id].status = "used"]
           /\ click' = [click EXCEPT ![c] =
                [pc |-> "save", id |-> id, entry |-> confirmations[id],
                 seen |-> aggregate.revision]]
  <2>1. /\ click'[c] = [pc |-> "save", id |-> id, entry |-> confirmations[id],
                        seen |-> aggregate.revision]
        /\ DOMAIN click' = Clicks
    BY <1>4 DEF ConfirmedInv, ClicksTyped
  <2>2. HasId(c)' /\ click'[c].id = id /\ IsClick(click'[c])
    BY <2>1 DEF HasId, IsClick
  <2>3. id \in DOMAIN confirmations /\ confirmations[id].status = "pending"
    BY <1>4 DEF Confirmed!Usable
  <2>4. /\ DOMAIN confirmations' = DOMAIN confirmations
        /\ \A i \in DOMAIN confirmations : i # id => confirmations'[i] = confirmations[i]
    BY <1>4
  <2>5. confirmations'[id].status = "used" /\ IsEntry(confirmations'[id])
    <3>1. IsEntry(confirmations[id])
      BY <2>3 DEF ConfirmedInv, IssuedOnce
    <3> QED
      BY <1>4, <2>3, <3>1 DEF IsEntry
  <2>6. \A d \in Clicks : d # c /\ HasId(d) => click[d].id # id
    BY <2>3 DEF ConfirmedInv, UsedByTheirClick
  <2>7. ClicksTyped' /\ IssuedOnce'
    BY <1>1, <1>2, <2>1, <2>2, <2>4, <2>5 DEF ConfirmedInv, ClicksTyped, IssuedOnce
  <2>8. ClicksAreApart'
    BY <1>2, <2>2, <2>6 DEF ConfirmedInv, ClicksAreApart
  <2>9. UsedByTheirClick'
    BY <1>1, <1>2, <2>2, <2>3, <2>4, <2>5, <2>6 DEF ConfirmedInv, UsedByTheirClick, IssuedOnce
  <2> QED
    BY <2>7, <2>8, <2>9 DEF ConfirmedInv
<1> QED
  BY <1>3, <1>4 DEF Confirmed!ClickConfirm

LEMMA SaveKeeps ==
  ASSUME ConfirmedInv, NEW c \in Clicks, Confirmed!SaveCandidate(c)
  PROVE  ConfirmedInv'
<1>1. click[c].pc = "save" /\ UNCHANGED <<offer, confirmations>> /\ HasId(c)
  BY ClickShapes DEF Confirmed!SaveCandidate, ConfirmedInv, ClicksTyped
<1>2. /\ DOMAIN click' = Clicks /\ click'[c] = [pc |-> "done", id |-> click[c].id]
      /\ \A d \in Clicks : d # c => click'[d] = click[d]
  BY DEF Confirmed!SaveCandidate, ConfirmedInv, ClicksTyped
<1>3. \A d \in Clicks : (HasId(d)' <=> HasId(d)) /\ click'[d].id = click[d].id
  BY <1>1, <1>2 DEF HasId
<1>4. IsClick(click'[c])
  BY <1>2 DEF IsClick
<1> QED
  BY <1>1, <1>2, <1>3, <1>4
     DEF ConfirmedInv, ClicksTyped, IssuedOnce, UsedByTheirClick, ClicksAreApart

LEMMA ConfirmedKeeps ==
  ASSUME ConfirmedInv, [Confirmed!ConfirmationsNext]_<<now, confirmationsVars>>
  PROVE  ConfirmedInv'
<1>1. CASE UNCHANGED confirmationsVars
  BY <1>1 DEF confirmationsVars, ConfirmedInv, ClicksTyped, IssuedOnce, UsedByTheirClick,
              ClicksAreApart, HasId
<1>2. CASE Confirmed!ConfirmationsTime
  BY <1>1, <1>2 DEF Confirmed!ConfirmationsTime, Confirmed!confirmationsVars, confirmationsVars
<1> QED
  BY <1>1, <1>2, ProposeKeeps, IssueKeeps, ClickKeeps, SaveKeeps DEF Confirmed!ConfirmationsNext

(* A change of the case is one that a click applies, to the revision it    *)
(* was issued for, and no other click has the confirmation.                *)
AppliedAsConfirmed ==
  aggregate' # aggregate =>
    \E c \in Clicks :
      /\ click[c].pc = "save" /\ click'[c].pc = "done"
      /\ click[c].entry.revision = aggregate.revision
      /\ aggregate' = Confirmed!Apply(aggregate, click[c].entry.candidate)
      /\ \A d \in Clicks \ {c} : "id" \in DOMAIN click[d] => click[d].id # click[c].id

LEMMA ChangesAreConfirmed ==
  ASSUME ConfirmedInv, [Confirmed!ConfirmationsNext]_<<now, confirmationsVars>>
  PROVE  AppliedAsConfirmed
<1> SUFFICES ASSUME aggregate' # aggregate PROVE AppliedAsConfirmed
  BY DEF AppliedAsConfirmed
<1>1. PICK c \in Clicks : Confirmed!SaveCandidate(c)
  BY DEF Confirmed!ConfirmationsNext, Confirmed!ConfirmationsTime, Confirmed!IssueConfirmation,
         Confirmed!Propose, Confirmed!ClickConfirm, Confirmed!confirmationsVars, confirmationsVars
<1>2. /\ click[c].pc = "save" /\ Confirmed!CanApply(c)
      /\ aggregate' = Confirmed!Apply(aggregate, click[c].entry.candidate)
  BY <1>1 DEF Confirmed!SaveCandidate
<1>3. click'[c].pc = "done"
  BY <1>1 DEF Confirmed!SaveCandidate, ConfirmedInv, ClicksTyped
<1>4. click[c].entry.revision = aggregate.revision
  BY <1>2 DEF Confirmed!CanApply
<1>5. HasId(c)
  BY <1>2, ClickShapes DEF ConfirmedInv, ClicksTyped
<1>6. \A d \in Clicks \ {c} : "id" \in DOMAIN click[d] => click[d].id # click[c].id
  BY <1>5 DEF ConfirmedInv, ClicksAreApart, HasId
<1> QED
  BY <1>2, <1>3, <1>4, <1>6 DEF AppliedAsConfirmed

-----------------------------------------------------------------------------
(* The pipeline.  A run that was accepted has its results so far one after *)
(* the other, each made from its own input and the result before; what is  *)
(* stored under a key was made from what the key names; and the keys taken *)
(* are those of the runs at work, one each, and of the runs that threw.    *)
Inputs == {inputs[s] : inputs \in Commands, s \in 1 .. 4}
StageRunSet == [input : Inputs, from : Outputs \cup {Null}, output : Outputs]

Chained(inputs, heads) ==
  \A s \in DOMAIN heads :
    /\ heads[s].input = inputs[s]
    /\ s > 1 => heads[s].from = heads[s - 1].output

(* Runs that have, or keep for good, the key of a stage.                   *)
Unfinished(x) == Len(x.heads) < 4
Holding(x) == x.pc \in {"execute", "release"} \/ (x.pc = "threw" /\ Unfinished(x))

IsRun(x) ==
  /\ x.pc \in {"unsent", "refused", "claim", "execute", "release", "commit", "succeeded",
               "failed", "threw"}
  /\ x.pc \notin {"unsent", "refused"} =>
       /\ x.inputs \in Commands /\ x.heads \in Seq(StageRunSet)
       /\ Len(x.heads) <= 4 /\ Chained(x.inputs, x.heads)
       /\ x = IF "key" \in DOMAIN x
              THEN [pc |-> x.pc, inputs |-> x.inputs, base |-> x.base, heads |-> x.heads, key |-> x.key]
              ELSE [pc |-> x.pc, inputs |-> x.inputs, base |-> x.base, heads |-> x.heads]
  /\ x.pc \in {"claim", "execute", "release"} => Len(x.heads) < 4
  /\ x.pc \in {"commit", "succeeded"} => Len(x.heads) = 4
  /\ Holding(x) => x.key = Pipeline!StageKey(x.inputs, x.heads)

RunsTyped == DOMAIN run = Runs /\ \A r \in Runs : IsRun(run[r])

StoredAsKeyed ==
  \A key \in DOMAIN stageRuns :
    /\ stageRuns[key] \in StageRunSet
    /\ stageRuns[key].input = key.input /\ stageRuns[key].from = key.dependency

KeysAreHeld ==
  /\ activeKeys = {run[r].key : r \in {q \in Runs : Holding(run[q])}}
  /\ \A r, q \in Runs : Holding(run[r]) /\ Holding(run[q]) /\ run[r].key = run[q].key => r = q
  /\ \A r \in Runs : run[r].pc = "execute" => run[r].key \notin DOMAIN stageRuns

SnapshotIsChained ==
  snapshot # Null =>
    snapshot.heads \in Seq(StageRunSet) /\ Len(snapshot.heads) = 4
    /\ Chained(snapshot.inputs, snapshot.heads)

PipelineInv == RunsTyped /\ StoredAsKeyed /\ KeysAreHeld /\ SnapshotIsChained

LEMMA HoldingByPlace ==
  ASSUME NEW x
  PROVE  /\ x.pc \in {"execute", "release"} => Holding(x)
         /\ x.pc \notin {"execute", "release", "threw"} => ~Holding(x)
BY DEF Holding

LEMMA PipelineStarts ==
  ASSUME Pipeline!PipelineInit
  PROVE  PipelineInv
<1>1. \A r \in Runs : run[r] = [pc |-> "unsent"]
  BY DEF Pipeline!PipelineInit
<1>2. \A r \in Runs : IsRun(run[r]) /\ ~Holding(run[r])
  BY <1>1 DEF IsRun, Holding
<1>3. RunsTyped
  BY <1>2 DEF Pipeline!PipelineInit, RunsTyped
<1>4. StoredAsKeyed
  <2>1. DOMAIN stageRuns = {}
    BY DEF Pipeline!PipelineInit
  <2> QED
    BY <2>1 DEF StoredAsKeyed
<1>5. KeysAreHeld
  BY <1>1, <1>2 DEF Pipeline!PipelineInit, KeysAreHeld
<1>6. SnapshotIsChained
  BY DEF Pipeline!PipelineInit, SnapshotIsChained
<1> QED
  BY <1>3, <1>4, <1>5, <1>6 DEF PipelineInv

(* A step of one run that neither takes nor gives back a key.              *)
LEMMA RunMoves ==
  ASSUME PipelineInv, NEW r \in Runs, NEW new, IsRun(new), run' = [run EXCEPT ![r] = new],
         UNCHANGED <<activeKeys, stageRuns>>, SnapshotIsChained',
         Holding(new) <=> Holding(run[r]),
         Holding(new) => new.key = run[r].key,
         new.pc # "execute"
  PROVE  PipelineInv'
<1>1. DOMAIN run' = Runs /\ run'[r] = new /\ \A q \in Runs : q # r => run'[q] = run[q]
  BY DEF PipelineInv, RunsTyped
<1>2. \A q \in Runs : Holding(run'[q]) <=> Holding(run[q])
  BY <1>1
<1>3. \A q \in Runs : Holding(run[q]) => run'[q].key = run[q].key
  BY <1>1
<1>4. RunsTyped'
  BY <1>1 DEF PipelineInv, RunsTyped
<1>5. activeKeys' = {run'[q].key : q \in {p \in Runs : Holding(run'[p])}}
  BY <1>2, <1>3 DEF PipelineInv, KeysAreHeld
<1>6. \A q \in Runs : run'[q].pc = "execute" => run'[q].key \notin DOMAIN stageRuns'
  BY <1>1 DEF PipelineInv, KeysAreHeld
<1>7. \A p, q \in Runs : Holding(run'[p]) /\ Holding(run'[q]) /\ run'[p].key = run'[q].key => p = q
  BY <1>2, <1>3 DEF PipelineInv, KeysAreHeld
<1>8. KeysAreHeld'
  BY <1>5, <1>6, <1>7 DEF KeysAreHeld
<1> QED
  BY <1>4, <1>8 DEF PipelineInv, StoredAsKeyed

(* A run whose place alone changes.                                        *)
LEMMA PlaceChanges ==
  ASSUME NEW x, IsRun(x), x.pc \notin {"unsent", "refused"},
         NEW pc \in {"failed", "threw", "succeeded", "release"},
         pc = "succeeded" => x.pc = "commit", pc = "release" => x.pc = "execute",
         pc = "threw" => x.pc \in {"execute", "commit"},
         NEW y, y = [x EXCEPT !.pc = pc]
  PROVE  /\ IsRun(y) /\ y.pc = pc /\ y.heads = x.heads /\ y.inputs = x.inputs
         /\ (pc = "threw" /\ x.pc = "execute") \/ pc = "release" => Holding(y) /\ y.key = x.key
         /\ pc \in {"failed", "succeeded"} \/ x.pc = "commit" => ~Holding(y)
<1>1. /\ y.pc = pc /\ y.heads = x.heads /\ y.inputs = x.inputs /\ y.base = x.base
      /\ DOMAIN y = DOMAIN x /\ ("key" \in DOMAIN x => y.key = x.key)
  BY DEF IsRun
<1>2. y = IF "key" \in DOMAIN y
          THEN [pc |-> y.pc, inputs |-> y.inputs, base |-> y.base, heads |-> y.heads, key |-> y.key]
          ELSE [pc |-> y.pc, inputs |-> y.inputs, base |-> y.base, heads |-> y.heads]
  BY <1>1 DEF IsRun
<1>3. x.pc = "execute" => y.key = x.key
  BY DEF IsRun
<1>4. /\ Len(x.heads) \in Nat
      /\ x.pc = "execute" => Len(x.heads) < 4
      /\ x.pc = "commit" => ~(Len(x.heads) < 4)
  <2>1. x.pc = "commit" => Len(x.heads) = 4
    BY DEF IsRun
  <2>2. Len(x.heads) \in Nat /\ (x.pc = "execute" => Len(x.heads) < 4)
    BY DEF IsRun
  <2> QED
    BY <2>1, <2>2
<1>5. /\ (pc = "threw" /\ x.pc = "execute") \/ pc = "release" => Holding(y)
      /\ pc \in {"failed", "succeeded"} \/ x.pc = "commit" => ~Holding(y)
  BY <1>1, <1>4 DEF Holding, Unfinished
<1>6. Holding(y) => Holding(x) /\ x.pc = "execute"
  BY <1>1, <1>4 DEF Holding, Unfinished
<1>7. Holding(y) => y.key = Pipeline!StageKey(y.inputs, y.heads)
  BY <1>1, <1>3, <1>6 DEF IsRun
<1>8. IsRun(y)
  BY <1>1, <1>2, <1>4, <1>7 DEF IsRun
<1> QED
  BY <1>1, <1>3, <1>5, <1>8

(* A run that takes over the result of its next stage.                     *)
LEMMA HeadFollows ==
  ASSUME PipelineInv, NEW r \in Runs, run[r].pc \in {"claim", "release"},
         NEW sr \in StageRunSet, LET key == Pipeline!StageKey(run[r].inputs, run[r].heads) IN
                                 sr.input = key.input /\ sr.from = key.dependency
  PROVE  LET new == Pipeline!WithHead(r, sr) IN
         IsRun(new) /\ ~Holding(new) /\ new.pc # "execute"
<1> DEFINE x == run[r]
           heads == Append(x.heads, sr)
           pc == IF Len(heads) = Len(Pipeline!Stages) THEN "commit" ELSE "claim"
           new == Pipeline!WithHead(r, sr)
<1>1. IsRun(x) /\ x.pc \in {"claim", "release"}
  BY DEF PipelineInv, RunsTyped
<1>2. /\ x.heads \in Seq(StageRunSet) /\ x.inputs \in Commands /\ Chained(x.inputs, x.heads)
      /\ Len(x.heads) \in Nat
  BY <1>1 DEF IsRun
<1>3. Len(x.heads) < 4
  BY <1>1 DEF IsRun
<1>4. Len(Pipeline!Stages) = 4
  BY DEF Pipeline!Stages
<1>5. /\ heads \in Seq(StageRunSet) /\ Len(heads) = Len(x.heads) + 1
      /\ \A s \in 1 .. Len(x.heads) : heads[s] = x.heads[s]
      /\ heads[Len(x.heads) + 1] = sr /\ DOMAIN heads = 1 .. Len(x.heads) + 1
  BY <1>2
<1>6. /\ sr.input = x.inputs[Len(x.heads) + 1]
      /\ x.heads # << >> => sr.from = x.heads[Len(x.heads)].output
  BY DEF Pipeline!StageKey, Pipeline!Dependency
<1>7. Chained(x.inputs, heads)
  <2> SUFFICES ASSUME NEW s \in 1 .. Len(x.heads) + 1
               PROVE  /\ heads[s].input = x.inputs[s]
                      /\ s > 1 => heads[s].from = heads[s - 1].output
    BY <1>5 DEF Chained
  <2>1. CASE s = Len(x.heads) + 1
    <3>1. heads[s].input = x.inputs[s]
      BY <1>5, <1>6, <2>1
    <3>2. ASSUME s > 1 PROVE heads[s].from = heads[s - 1].output
      <4>1. x.heads # << >> /\ s - 1 = Len(x.heads) /\ Len(x.heads) \in 1 .. Len(x.heads)
        BY <1>2, <2>1, <3>2
      <4> QED
        BY <1>5, <1>6, <2>1, <4>1
    <3> QED
      BY <3>1, <3>2
  <2>2. CASE s \in 1 .. Len(x.heads)
    <3>1. s \in DOMAIN x.heads /\ (s > 1 => s - 1 \in 1 .. Len(x.heads))
      BY <1>2, <2>2
    <3> QED
      BY <1>2, <1>5, <2>2, <3>1 DEF Chained
  <2> QED
    BY <1>2, <2>1, <2>2
<1>8. pc \in {"commit", "claim"} /\ Len(heads) <= 4 /\ Len(heads) \in Nat
      /\ (pc = "commit" => Len(heads) = 4) /\ (pc = "claim" => Len(heads) < 4)
  BY <1>2, <1>3, <1>4, <1>5
<1> HIDE DEF heads, pc
<1>9. new = [x EXCEPT !.heads = heads, !.pc = pc]
  BY DEF Pipeline!WithHead, heads, pc
<1>10. /\ new.pc = pc /\ new.heads = heads /\ new.inputs = x.inputs /\ new.base = x.base
       /\ DOMAIN new = DOMAIN x /\ ("key" \in DOMAIN x => new.key = x.key)
       /\ new = IF "key" \in DOMAIN new
                THEN [pc |-> new.pc, inputs |-> new.inputs, base |-> new.base, heads |-> new.heads,
                      key |-> new.key]
                ELSE [pc |-> new.pc, inputs |-> new.inputs, base |-> new.base, heads |-> new.heads]
  BY <1>1, <1>9 DEF IsRun
<1> HIDE DEF new
<1>11. ~Holding(new)
  BY <1>8, <1>10 DEF Holding
<1>12. IsRun(new)
  BY <1>2, <1>5, <1>7, <1>8, <1>10, <1>11 DEF IsRun
<1> QED
  BY <1>8, <1>10, <1>11, <1>12 DEF new

LEMMA AnalyzeKeeps ==
  ASSUME PipelineInv, NEW r \in Runs, NEW inputs, NEW base,
         (inputs \in Commands /\ Pipeline!Analyze(r, inputs, base)) \/ Pipeline!GatesReject(r)
  PROVE  PipelineInv'
<1>1. run[r].pc = "unsent" /\ UNCHANGED <<activeKeys, stageRuns, snapshot>> /\ ~Holding(run[r])
  BY DEF Pipeline!Analyze, Pipeline!GatesReject, Pipeline!Begins, Holding
<1>2. SnapshotIsChained'
  BY <1>1 DEF PipelineInv, SnapshotIsChained
<1>3. CASE run' = [run EXCEPT ![r] = [pc |-> "refused"]]
  <2> DEFINE new == [pc |-> "refused"]
  <2>1. IsRun(new) /\ ~Holding(new) /\ new.pc # "execute"
    BY DEF IsRun, Holding
  <2> HIDE DEF new
  <2> QED
    BY <1>1, <1>2, <1>3, <2>1, RunMoves DEF new
<1>4. CASE /\ inputs \in Commands
           /\ run' = [run EXCEPT ![r] =
                [pc |-> "claim", inputs |-> inputs, base |-> base, heads |-> << >>]]
  <2> DEFINE new == [pc |-> "claim", inputs |-> inputs, base |-> base, heads |-> << >>]
  <2>1. /\ << >> \in Seq(StageRunSet) /\ Len(<< >>) = 0 /\ DOMAIN << >> = {}
    OBVIOUS
  <2>2. Chained(inputs, << >>)
    BY <2>1 DEF Chained
  <2>3. ~Holding(new) /\ "key" \notin DOMAIN new
    BY DEF Holding
  <2>4. IsRun(new)
    BY <1>4, <2>1, <2>2, <2>3 DEF IsRun
  <2> HIDE DEF new
  <2>5. new.pc # "execute"
    BY DEF new
  <2> QED
    BY <1>1, <1>2, <1>4, <2>3, <2>4, <2>5, RunMoves DEF new
<1> QED
  BY <1>3, <1>4 DEF Pipeline!Analyze, Pipeline!GatesReject

LEMMA ClaimKeyKeeps ==
  ASSUME PipelineInv, NEW r \in Runs, Pipeline!ClaimStageKey(r)
  PROVE  PipelineInv'
<1> DEFINE key == Pipeline!StageKey(run[r].inputs, run[r].heads)
<1>1. /\ run[r].pc = "claim" /\ UNCHANGED <<stageRuns, snapshot>> /\ ~Holding(run[r])
      /\ IsRun(run[r])
  BY DEF Pipeline!ClaimStageKey, Holding, PipelineInv, RunsTyped
<1>2. SnapshotIsChained'
  BY <1>1 DEF PipelineInv, SnapshotIsChained
<1>3. CASE key \in DOMAIN stageRuns
  <2> DEFINE new == Pipeline!WithHead(r, stageRuns[key])
  <2>1. run' = [run EXCEPT ![r] = new] /\ UNCHANGED activeKeys
    BY <1>3 DEF Pipeline!ClaimStageKey
  <2>2. /\ stageRuns[key] \in StageRunSet
        /\ stageRuns[key].input = key.input /\ stageRuns[key].from = key.dependency
    BY <1>3 DEF PipelineInv, StoredAsKeyed
  <2>3. IsRun(new) /\ ~Holding(new) /\ new.pc # "execute"
    BY <1>1, <2>2, HeadFollows
  <2> HIDE DEF new
  <2> QED
    BY <1>1, <1>2, <2>1, <2>3, RunMoves
<1>4. CASE key \notin DOMAIN stageRuns /\ key \in activeKeys
  <2> DEFINE new == [run[r] EXCEPT !.pc = "failed"]
  <2>1. run' = [run EXCEPT ![r] = new] /\ UNCHANGED activeKeys
    BY <1>4 DEF Pipeline!ClaimStageKey
  <2>2. IsRun(new) /\ ~Holding(new) /\ new.pc # "execute"
    BY <1>1, PlaceChanges
  <2> HIDE DEF new
  <2> QED
    BY <1>1, <1>2, <2>1, <2>2, RunMoves
<1>5. CASE key \notin DOMAIN stageRuns /\ key \notin activeKeys
  <2> DEFINE new == [pc |-> "execute", inputs |-> run[r].inputs, base |-> run[r].base,
                     heads |-> run[r].heads, key |-> key]
  <2>1. run' = [run EXCEPT ![r] = new] /\ activeKeys' = activeKeys \cup {key}
    BY <1>5 DEF Pipeline!ClaimStageKey
  <2>2. "key" \in DOMAIN new /\ new.pc = "execute" /\ new.key = key /\ new.heads = run[r].heads
        /\ new.inputs = run[r].inputs
    OBVIOUS
  <2>3. IsRun(new) /\ Holding(new)
    BY <1>1, <2>2 DEF IsRun, Holding
  <2> HIDE DEF new, key
  <2>4. DOMAIN run' = Runs /\ run'[r] = new /\ \A q \in Runs : q # r => run'[q] = run[q]
    BY <2>1 DEF PipelineInv, RunsTyped
  <2>5. RunsTyped'
    BY <2>3, <2>4 DEF PipelineInv, RunsTyped
  <2>6. \A q \in Runs : Holding(run[q]) => run[q].key \in activeKeys
    BY DEF PipelineInv, KeysAreHeld
  <2>7. activeKeys' = {run'[q].key : q \in {p \in Runs : Holding(run'[p])}}
    BY <1>1, <2>1, <2>2, <2>3, <2>4 DEF PipelineInv, KeysAreHeld
  <2>8. \A p, q \in Runs : Holding(run'[p]) /\ Holding(run'[q]) /\ run'[p].key = run'[q].key => p = q
    BY <1>5, <2>2, <2>4, <2>6 DEF PipelineInv, KeysAreHeld
  <2>9. \A q \in Runs : run'[q].pc = "execute" => run'[q].key \notin DOMAIN stageRuns'
    BY <1>1, <1>5, <2>2, <2>4 DEF PipelineInv, KeysAreHeld
  <2> QED
    BY <1>1, <1>2, <2>5, <2>7, <2>8, <2>9 DEF PipelineInv, KeysAreHeld, StoredAsKeyed
<1> QED
  BY <1>3, <1>4, <1>5

LEMMA AppendKeeps ==
  ASSUME Pipeline!PipelineAssumption, PipelineInv, NEW r \in Runs,
         NEW output \in Outputs \cup {Null}, Pipeline!AppendStageRun(r, output)
  PROVE  PipelineInv'
<1> DEFINE x == run[r]
           sr == [input |-> x.inputs[Len(x.heads) + 1], from |-> Pipeline!Dependency(x.heads),
                  output |-> output]
           new == [x EXCEPT !.pc = "release"]
<1>1. /\ x.pc = "execute" /\ UNCHANGED <<activeKeys, snapshot>> /\ Holding(x) /\ IsRun(x)
      /\ run' = [run EXCEPT ![r] = new]
      /\ stageRuns' = IF output = Null THEN stageRuns ELSE Pipeline!Put(stageRuns, x.key, sr)
  <2>1. /\ x.pc = "execute" /\ UNCHANGED <<activeKeys, snapshot>>
        /\ run' = [run EXCEPT ![r] = new]
        /\ stageRuns' = IF output = Null THEN stageRuns ELSE Pipeline!Put(stageRuns, x.key, sr)
    BY DEF Pipeline!AppendStageRun
  <2>2. Holding(x)
    BY <2>1, HoldingByPlace
  <2> QED
    BY <2>1, <2>2 DEF PipelineInv, RunsTyped
<1>2. SnapshotIsChained'
  BY <1>1 DEF PipelineInv, SnapshotIsChained
<1>3. IsRun(new) /\ new.pc = "release" /\ Holding(new) /\ new.key = x.key
  BY <1>1, PlaceChanges
<1> HIDE DEF new
<1>4. DOMAIN run' = Runs /\ run'[r] = new /\ \A q \in Runs : q # r => run'[q] = run[q]
  BY <1>1 DEF PipelineInv, RunsTyped
<1>5. RunsTyped'
  BY <1>3, <1>4 DEF PipelineInv, RunsTyped
<1>6. x.key = Pipeline!StageKey(x.inputs, x.heads)
  BY <1>1 DEF IsRun
<1>7. sr.input = x.key.input /\ sr.from = x.key.dependency
  BY <1>6 DEF Pipeline!StageKey
<1>8. output # Null => sr \in StageRunSet
  <2>1. /\ x.inputs \in Commands /\ x.heads \in Seq(StageRunSet)
        /\ Len(x.heads) + 1 \in 1 .. 4 /\ Len(x.heads) \in Nat
    BY <1>1 DEF IsRun
  <2>2. x.inputs[Len(x.heads) + 1] \in Inputs
    BY <2>1 DEF Inputs
  <2>3. Pipeline!Dependency(x.heads) \in Outputs \cup {Null}
    <3>1. CASE x.heads = << >>
      BY <3>1 DEF Pipeline!Dependency
    <3>2. CASE x.heads # << >>
      <4>1. x.heads[Len(x.heads)] \in StageRunSet
        BY <2>1, <3>2
      <4> QED
        BY <3>2, <4>1 DEF Pipeline!Dependency, StageRunSet
    <3> QED
      BY <3>1, <3>2
  <2> QED
    BY <2>2, <2>3 DEF StageRunSet
<1> HIDE DEF sr
<1>9. /\ \A key \in DOMAIN stageRuns' :
           \/ key \in DOMAIN stageRuns /\ stageRuns'[key] = stageRuns[key]
           \/ output # Null /\ key = x.key /\ stageRuns'[key] = sr
  BY <1>1 DEF Pipeline!Put
<1>10. StoredAsKeyed'
  BY <1>7, <1>8, <1>9 DEF PipelineInv, StoredAsKeyed
<1> HIDE DEF x
<1>11. KeysAreHeld'
  <2>1. \A q \in Runs : (Holding(run'[q]) <=> Holding(run[q])) /\ (Holding(run[q]) => run'[q].key = run[q].key)
    BY <1>1, <1>3, <1>4 DEF x
  <2>2. activeKeys' = {run'[q].key : q \in {p \in Runs : Holding(run'[p])}}
    BY <1>1, <2>1 DEF PipelineInv, KeysAreHeld
  <2>3. \A p, q \in Runs : Holding(run'[p]) /\ Holding(run'[q]) /\ run'[p].key = run'[q].key => p = q
    BY <2>1 DEF PipelineInv, KeysAreHeld
  <2>4. ASSUME NEW q \in Runs, run'[q].pc = "execute" PROVE run'[q].key \notin DOMAIN stageRuns'
    <3>1. q # r /\ run'[q] = run[q] /\ run[q].pc = "execute"
      BY <1>3, <1>4, <2>4
    <3>2. Holding(run[q])
      BY <3>1, HoldingByPlace
    <3>3. run[q].key \notin DOMAIN stageRuns
      BY <3>1 DEF PipelineInv, KeysAreHeld
    <3>4. run[q].key # x.key
      BY <1>1, <3>1, <3>2 DEF PipelineInv, KeysAreHeld, x
    <3> QED
      BY <1>9, <3>1, <3>3, <3>4
  <2> QED
    BY <2>2, <2>3, <2>4 DEF KeysAreHeld
<1> QED
  BY <1>2, <1>5, <1>10, <1>11 DEF PipelineInv

LEMMA ThrowKeeps ==
  ASSUME PipelineInv, NEW r \in Runs,
         Pipeline!StageThrows(r) \/ Pipeline!SnapshotThrows(r)
  PROVE  PipelineInv'
<1> DEFINE new == [run[r] EXCEPT !.pc = "threw"]
<1>1. /\ run[r].pc \in {"execute", "commit"} /\ run' = [run EXCEPT ![r] = new]
      /\ UNCHANGED <<activeKeys, stageRuns, snapshot>> /\ IsRun(run[r])
  BY DEF Pipeline!StageThrows, Pipeline!SnapshotThrows, PipelineInv, RunsTyped
<1>2. /\ IsRun(new) /\ new.pc = "threw"
      /\ run[r].pc = "execute" => Holding(new) /\ new.key = run[r].key
      /\ run[r].pc = "commit" => ~Holding(new)
  BY <1>1, PlaceChanges
<1>3. Holding(run[r]) <=> run[r].pc = "execute"
  BY <1>1, HoldingByPlace
<1>4. SnapshotIsChained'
  BY <1>1 DEF PipelineInv, SnapshotIsChained
<1> HIDE DEF new
<1> QED
  BY <1>1, <1>2, <1>3, <1>4, RunMoves

LEMMA ReleaseStageKeeps ==
  ASSUME PipelineInv, NEW r \in Runs, Pipeline!ReleaseStageKey(r)
  PROVE  PipelineInv'
<1>1. /\ run[r].pc = "release" /\ UNCHANGED <<stageRuns, snapshot>> /\ IsRun(run[r])
      /\ activeKeys' = activeKeys \ {run[r].key}
  BY DEF Pipeline!ReleaseStageKey, Pipeline!KeysAfter, PipelineInv, RunsTyped
<1>2. SnapshotIsChained'
  BY <1>1 DEF PipelineInv, SnapshotIsChained
<1>3. Holding(run[r])
  BY <1>1, HoldingByPlace
<1>4. \E new : IsRun(new) /\ ~Holding(new) /\ new.pc # "execute" /\ run' = [run EXCEPT ![r] = new]
  <2>1. CASE run[r].key \in DOMAIN stageRuns
    <3>1. run[r].key = Pipeline!StageKey(run[r].inputs, run[r].heads)
      BY <1>1, <1>3 DEF IsRun
    <3>2. /\ stageRuns[run[r].key] \in StageRunSet
          /\ stageRuns[run[r].key].input = run[r].key.input
          /\ stageRuns[run[r].key].from = run[r].key.dependency
      BY <2>1 DEF PipelineInv, StoredAsKeyed
    <3> DEFINE new == Pipeline!WithHead(r, stageRuns[run[r].key])
    <3>3. IsRun(new) /\ ~Holding(new) /\ new.pc # "execute"
      BY <1>1, <3>1, <3>2, HeadFollows
    <3>4. run' = [run EXCEPT ![r] = new]
      BY <2>1 DEF Pipeline!ReleaseStageKey
    <3> HIDE DEF new
    <3> QED
      BY <3>3, <3>4
  <2>2. CASE run[r].key \notin DOMAIN stageRuns
    <3> DEFINE new == [run[r] EXCEPT !.pc = "failed"]
    <3>1. IsRun(new) /\ ~Holding(new) /\ new.pc # "execute"
      BY <1>1, PlaceChanges
    <3>2. run' = [run EXCEPT ![r] = new]
      BY <2>2 DEF Pipeline!ReleaseStageKey
    <3> HIDE DEF new
    <3> QED
      BY <3>1, <3>2
  <2> QED
    BY <2>1, <2>2
<1>5. PICK new : IsRun(new) /\ ~Holding(new) /\ new.pc # "execute" /\ run' = [run EXCEPT ![r] = new]
  BY <1>4
<1>6. DOMAIN run' = Runs /\ run'[r] = new /\ \A q \in Runs : q # r => run'[q] = run[q]
  BY <1>5 DEF PipelineInv, RunsTyped
<1>7. RunsTyped'
  BY <1>5, <1>6 DEF PipelineInv, RunsTyped
<1>8. \A q \in Runs : Holding(run[q]) /\ q # r => run[q].key # run[r].key
  BY <1>3 DEF PipelineInv, KeysAreHeld
<1>9. activeKeys' = {run'[q].key : q \in {p \in Runs : Holding(run'[p])}}
  BY <1>1, <1>5, <1>6, <1>8 DEF PipelineInv, KeysAreHeld
<1>10. \A p, q \in Runs : Holding(run'[p]) /\ Holding(run'[q]) /\ run'[p].key = run'[q].key => p = q
  BY <1>5, <1>6 DEF PipelineInv, KeysAreHeld
<1>11. \A q \in Runs : run'[q].pc = "execute" => run'[q].key \notin DOMAIN stageRuns'
  BY <1>1, <1>5, <1>6 DEF PipelineInv, KeysAreHeld
<1> QED
  BY <1>1, <1>2, <1>7, <1>9, <1>10, <1>11 DEF PipelineInv, KeysAreHeld, StoredAsKeyed

LEMMA CommitKeeps ==
  ASSUME PipelineInv, NEW r \in Runs, Pipeline!CommitSnapshot(r)
  PROVE  PipelineInv'
<1>1. run[r].pc = "commit" /\ UNCHANGED <<activeKeys, stageRuns>> /\ IsRun(run[r])
  BY DEF Pipeline!CommitSnapshot, PipelineInv, RunsTyped
<1>2. /\ run[r].heads \in Seq(StageRunSet) /\ Len(run[r].heads) = 4
      /\ Chained(run[r].inputs, run[r].heads)
  BY <1>1 DEF IsRun
<1>3. ~Holding(run[r])
  BY <1>1, HoldingByPlace
<1>4. CASE revision = run[r].base
  <2> DEFINE new == [run[r] EXCEPT !.pc = "succeeded"]
             shot == [base |-> run[r].base, inputs |-> run[r].inputs, heads |-> run[r].heads]
  <2>1. run' = [run EXCEPT ![r] = new] /\ snapshot' = shot
    BY <1>4 DEF Pipeline!CommitSnapshot
  <2>2. IsRun(new) /\ ~Holding(new) /\ new.pc # "execute"
    BY <1>1, PlaceChanges
  <2>3. SnapshotIsChained'
    BY <1>2, <2>1 DEF SnapshotIsChained
  <2> HIDE DEF new, shot
  <2> QED
    BY <1>1, <1>3, <2>1, <2>2, <2>3, RunMoves
<1>5. CASE revision # run[r].base
  <2> DEFINE new == [run[r] EXCEPT !.pc = "failed"]
  <2>1. run' = [run EXCEPT ![r] = new] /\ UNCHANGED snapshot
    BY <1>5 DEF Pipeline!CommitSnapshot
  <2>2. IsRun(new) /\ ~Holding(new) /\ new.pc # "execute"
    BY <1>1, PlaceChanges
  <2>3. SnapshotIsChained'
    BY <2>1 DEF PipelineInv, SnapshotIsChained
  <2> HIDE DEF new
  <2> QED
    BY <1>1, <1>3, <2>1, <2>2, <2>3, RunMoves
<1> QED
  BY <1>4, <1>5

LEMMA PipelineKeeps ==
  ASSUME Pipeline!PipelineAssumption, PipelineInv, [Pipeline!PipelineNext]_pipelineVars
  PROVE  PipelineInv'
<1>1. CASE UNCHANGED <<run, activeKeys, stageRuns, snapshot>>
  BY <1>1 DEF PipelineInv, RunsTyped, StoredAsKeyed, KeysAreHeld, SnapshotIsChained
<1>2. CASE Pipeline!SetCaseRevision \/ UNCHANGED pipelineVars
  BY <1>1, <1>2 DEF Pipeline!SetCaseRevision, pipelineVars, Pipeline!pipelineVars
<1>3. ASSUME NEW r \in Runs, NEW inputs \in Commands, NEW base \in 0 .. MaxRevision,
             Pipeline!Analyze(r, inputs, base)
      PROVE  PipelineInv'
  BY <1>3, AnalyzeKeeps
<1>4. ASSUME NEW r \in Runs,
             \/ Pipeline!GatesReject(r) \/ Pipeline!ClaimStageKey(r) \/ Pipeline!StageThrows(r)
             \/ Pipeline!ReleaseStageKey(r) \/ Pipeline!CommitSnapshot(r)
             \/ Pipeline!SnapshotThrows(r)
      PROVE  PipelineInv'
  BY <1>4, AnalyzeKeeps, ClaimKeyKeeps, ThrowKeeps, ReleaseStageKeeps, CommitKeeps
<1>5. ASSUME NEW r \in Runs, NEW output \in Outputs \cup {Null}, Pipeline!AppendStageRun(r, output)
      PROVE  PipelineInv'
  BY <1>5, AppendKeeps
<1> QED
  BY <1>2, <1>3, <1>4, <1>5 DEF Pipeline!PipelineNext

LEMMA KeysAreWorkedOnOnce ==
  ASSUME PipelineInv
  PROVE  Pipeline!KeyIsWorkedOnOnce
<1>1. Len(Pipeline!Stages) = 4
  BY DEF Pipeline!Stages
<1>2. {q \in Runs : Holding(run[q])} =
        Pipeline!Executing \cup
          {q \in Runs : run[q].pc = "threw" /\ Len(run[q].heads) < Len(Pipeline!Stages)}
  <2>1. \A q \in Runs : Holding(run[q]) <=>
          \/ run[q].pc \in {"execute", "release"}
          \/ run[q].pc = "threw" /\ Len(run[q].heads) < Len(Pipeline!Stages)
    BY <1>1 DEF Holding, Unfinished
  <2> QED
    BY <2>1 DEF Pipeline!Executing
<1> QED
  BY <1>2 DEF PipelineInv, KeysAreHeld, Pipeline!KeyIsWorkedOnOnce

LEMMA SnapshotsHangTogether ==
  ASSUME PipelineInv
  PROVE  Pipeline!SnapshotHangsTogether
<1>1. DOMAIN Pipeline!Stages = 1 .. 4
  BY DEF Pipeline!Stages
<1>2. snapshot # Null => DOMAIN snapshot.heads = 1 .. 4
  BY DEF PipelineInv, SnapshotIsChained
<1> QED
  BY <1>1, <1>2 DEF PipelineInv, SnapshotIsChained, Chained, Pipeline!SnapshotHangsTogether

(* A stage key is worked on by one run at a time and never again once it   *)
(* has succeeded, and the four results of a snapshot were made from each   *)
(* other, whichever runs made them.                                        *)
THEOREM PipelineIsSafe ==
  ASSUME Pipeline!PipelineAssumption
  PROVE  Pipeline!PipelineSpec => [](Pipeline!KeyIsWorkedOnOnce /\ Pipeline!SnapshotHangsTogether)
<1>1. Pipeline!PipelineInit => PipelineInv
  BY PipelineStarts
<1>2. PipelineInv /\ [Pipeline!PipelineNext]_(Pipeline!pipelineVars) => PipelineInv'
  BY PipelineKeeps DEF Pipeline!pipelineVars, pipelineVars
<1>3. PipelineInv => Pipeline!KeyIsWorkedOnOnce /\ Pipeline!SnapshotHangsTogether
  BY KeysAreWorkedOnOnce, SnapshotsHangTogether
<1> QED
  BY <1>1, <1>2, <1>3, PTL DEF Pipeline!PipelineSpec

-----------------------------------------------------------------------------
(* The uploads of the demo case.  The case is marked while its one upload  *)
(* is at work.                                                             *)
GoldenInv ==
  /\ activeCase \in BOOLEAN
  /\ activeCase <=> uploading # {}
  /\ \A u, v \in uploading : u = v

LEMMA GoldenStarts ==
  ASSUME Golden!GoldenInit
  PROVE  GoldenInv
  BY DEF GoldenInv, Golden!GoldenInit

(* A page that no longer waits leaves its upload at work.                  *)
LEMMA ForgottenUploads ==
  ASSUME GoldenInv, NEW t, uploading' = Golden!Forgotten(uploading, t), UNCHANGED activeCase
  PROVE  GoldenInv'
<1> DEFINE waits(r) == IF r.tab = t THEN [r EXCEPT !.waits = FALSE] ELSE r
<1>1. uploading' = {waits(r) : r \in uploading}
  BY DEF Golden!Forgotten
<1> HIDE DEF waits
<1> QED
  BY <1>1 DEF GoldenInv

LEMMA GoldenKeeps ==
  ASSUME GoldenInv, [Golden!GoldenNext]_goldenVars
  PROVE  GoldenInv'
<1>1. CASE UNCHANGED <<activeCase, uploading>>
  BY <1>1 DEF GoldenInv
<1>2. CASE UNCHANGED goldenVars
  BY <1>2, <1>1 DEF goldenVars
<1>3. ASSUME NEW t \in Tabs, NEW a \in Golden!Artifacts, Golden!LoadArtifact(t, a)
      PROVE  GoldenInv'
  BY <1>1, <1>3 DEF Golden!LoadArtifact
<1>4. ASSUME NEW t \in Tabs, NEW arrives \in BOOLEAN, Golden!UploadLost(t, arrives)
      PROVE  GoldenInv'
  BY <1>4, ForgottenUploads DEF Golden!UploadLost
<1>5. ASSUME NEW t \in Tabs, Golden!Reload(t)
      PROVE  GoldenInv'
  BY <1>5, ForgottenUploads DEF Golden!Reload
<1>6. ASSUME NEW t \in Tabs,
             Golden!RunAnalysis(t) \/ Golden!AnalysisLost(t) \/ Golden!ApplyFollowUp(t)
      PROVE  GoldenInv'
  BY <1>1, <1>6 DEF Golden!RunAnalysis, Golden!AnalysisLost, Golden!ApplyFollowUp
<1>7. ASSUME NEW request \in sent, NEW refused \in BOOLEAN, Golden!UploadArrives(request, refused)
      PROVE  GoldenInv'
  <2>1. CASE Golden!Acquires /\ activeCase' = TRUE /\ \E u : uploading' = uploading \cup {u}
    BY <2>1 DEF GoldenInv, Golden!Acquires
  <2> QED
    BY <1>1, <1>7, <2>1 DEF Golden!UploadArrives
<1>8. ASSUME NEW upload \in uploading, NEW given, Golden!UploadEnds(upload, given)
      PROVE  GoldenInv'
  <2>1. uploading' = {} /\ activeCase' = FALSE
    BY <1>8 DEF Golden!UploadEnds, GoldenInv
  <2> QED
    BY <2>1 DEF GoldenInv
<1>9. ASSUME NEW t \in analysing, NEW ok \in BOOLEAN, Golden!AnalysisEnds(t, ok)
      PROVE  GoldenInv'
  BY <1>1, <1>9 DEF Golden!AnalysisEnds
<1>10. ASSUME NEW t \in Tabs, NEW arrives \in BOOLEAN, NEW answered \in BOOLEAN,
              Golden!FollowUpEnds(t, arrives, answered)
       PROVE  GoldenInv'
  BY <1>1, <1>10 DEF Golden!FollowUpEnds
<1> QED
  BY <1>2, <1>3, <1>4, <1>5, <1>6, <1>7, <1>8, <1>9, <1>10 DEF Golden!GoldenNext

-----------------------------------------------------------------------------
(* The reading of an upload.  A page is open only while it is looked at,   *)
(* and whatever is open after a clean-up is stuck.                         *)
IntakeInv ==
  /\ "at" \in DOMAIN intake
  /\ session = [open |-> session.open, document |-> session.document, page |-> session.page]
  /\ intake.at \in {"ready", "reading", "open", "image"} =>
       ~session.open /\ ~session.document /\ ~session.page
  /\ intake.at = "page" => ~session.page
  /\ intake.at \in {"close", "closed", "answered"} /\ session.page => "page" \in stuck
  /\ intake.at \in {"closed", "answered"} =>
       /\ session.document => "document" \in stuck
       /\ session.open => "session" \in stuck

LEMMA IntakeStarts ==
  ASSUME Taking!IntakeInit
  PROVE  IntakeInv
  BY DEF Taking!IntakeInit, Taking!ReadyIntake, Taking!Shut, IntakeInv

LEMMA ResponseKeeps ==
  ASSUME IntakeInv, intake.at \in {"ready", "reading", "image", "closed"},
         NEW status, NEW code, NEW kept, Taking!Answer(status, code, kept),
         UNCHANGED <<session, stuck>>
  PROVE  IntakeInv'
  BY DEF IntakeInv, Taking!Answer

LEMMA IntakeKeeps ==
  ASSUME IntakeInv, [Taking!IntakeNext]_intakeVars
  PROVE  IntakeInv'
<1>1. CASE UNCHANGED intakeVars
  BY <1>1 DEF intakeVars, IntakeInv
<1>2. ASSUME NEW r \in Bodies, Taking!Receive(r)
      PROVE  IntakeInv'
  BY <1>2 DEF Taking!Receive, IntakeInv
<1>3. CASE Taking!ReadPiece
  <2>1. CASE \E code : Taking!Refuse(400, code)
    BY <1>3, <2>1, ResponseKeeps DEF Taking!ReadPiece, Taking!Refuse
  <2>2. CASE ~\E code : Taking!Refuse(400, code)
    BY <1>3, <2>2 DEF Taking!ReadPiece, IntakeInv
  <2> QED
    BY <2>1, <2>2
<1>4. CASE Taking!BodyEnds
  <2>1. CASE \E status, code, kept : Taking!Answer(status, code, kept)
    BY <1>4, <2>1, ResponseKeeps DEF Taking!BodyEnds
  <2>2. CASE ~\E status, code, kept : Taking!Answer(status, code, kept)
    BY <1>4, <2>2 DEF Taking!BodyEnds, Taking!Refuse, IntakeInv
  <2> QED
    BY <2>1, <2>2
<1>5. CASE Taking!OpenPdf
  BY <1>5 DEF Taking!OpenPdf, Taking!Fail, Taking!Shut, IntakeInv
<1>6. CASE Taking!OpenPage
  BY <1>6 DEF Taking!OpenPage, Taking!Fail, IntakeInv
<1>7. CASE Taking!LookAtPage
  BY <1>7 DEF Taking!LookAtPage, IntakeInv
<1>8. CASE Taking!TidyPage
  BY <1>8 DEF Taking!TidyPage, Taking!Fail, IntakeInv
<1>9. CASE Taking!PagesEnd
  BY <1>9 DEF Taking!PagesEnd, Taking!Fail, IntakeInv
<1>10. CASE Taking!ClosePdf
  <2>1. PICK ofDocument \in BOOLEAN, ofSession \in BOOLEAN :
          LET untried == ofDocument /\ intake.scanning
              left == ofSession \/ untried IN
          /\ ofDocument => session.document
          /\ untried => ~ofSession
          /\ session' = [open |-> left, document |-> ofDocument,
                         page |-> session.page /\ (ofDocument \/ left)]
          /\ stuck' = stuck \cup (IF ofDocument THEN {"document"} ELSE {})
                            \cup (IF left THEN {"session"} ELSE {})
          /\ intake' = [intake EXCEPT
               !.at = "closed",
               !.failure = IF ofDocument \/ left THEN "PDF_RESOURCE_CLEANUP_FAILED" ELSE @]
    BY <1>10 DEF Taking!ClosePdf
  <2> DEFINE left == ofSession \/ (ofDocument /\ intake.scanning)
  <2>2. /\ session' = [open |-> left, document |-> ofDocument,
                       page |-> session.page /\ (ofDocument \/ left)]
        /\ stuck' = stuck \cup (IF ofDocument THEN {"document"} ELSE {})
                          \cup (IF left THEN {"session"} ELSE {})
    BY <2>1
  <2>3. "at" \in DOMAIN intake' /\ intake'.at = "closed"
    BY <2>1 DEF IntakeInv
  <2>4. session.page => "page" \in stuck
    BY <1>10 DEF IntakeInv, Taking!ClosePdf
  <2> HIDE DEF left
  <2>5. /\ session'.open = left /\ session'.document = ofDocument
        /\ session'.page = (session.page /\ (ofDocument \/ left))
        /\ session' = [open |-> session'.open, document |-> session'.document,
                       page |-> session'.page]
    BY <2>2
  <2> QED
    BY <2>2, <2>3, <2>4, <2>5 DEF IntakeInv
<1>11. CASE Taking!AfterPdf
  <2> DEFINE again == intake.failure = "PDF_LOCATOR_INSUFFICIENT" /\ ~intake.scanning
  <2>1. CASE again
    BY <1>11, <2>1 DEF Taking!AfterPdf, Taking!Shut, IntakeInv
  <2>2. CASE ~again
    <3>1. UNCHANGED <<session, stuck>> /\ intake.at = "closed"
      BY <1>11, <2>2 DEF Taking!AfterPdf
    <3>2. \E status, code, kept : Taking!Answer(status, code, kept)
      BY <1>11, <2>2 DEF Taking!AfterPdf, Taking!Refuse
    <3> QED
      BY <3>1, <3>2, ResponseKeeps
  <2> QED
    BY <2>1, <2>2
<1>12. CASE Taking!SanitizeImage
  <2>1. \E status, code, kept : Taking!Answer(status, code, kept)
    BY <1>12 DEF Taking!SanitizeImage, Taking!Refuse
  <2> QED
    BY <1>12, <2>1, ResponseKeeps DEF Taking!SanitizeImage
<1> QED
  BY <1>1, <1>2, <1>3, <1>4, <1>5, <1>6, <1>7, <1>8, <1>9, <1>10, <1>11, <1>12
     DEF Taking!IntakeNext

LEMMA PdfCloses ==
  ASSUME IntakeInv
  PROVE  Taking!PdfIsClosed
  BY DEF IntakeInv, Taking!PdfIsClosed

-----------------------------------------------------------------------------
(* The operator of the firewall rule.  An operation that reports success   *)
(* was told so by an elevated process that has ended; a result that is     *)
(* written after the clean-up is one of an operation reported as blocked.  *)
OperatorFields ==
  {"action", "stage", "elevated", "dir", "result", "exit", "report", "met"}

IsOperation(op) ==
  /\ OperatorFields \subseteq DOMAIN op
  /\ op.exit = 0 => op.elevated = "exited0" /\ op.stage \notin {"new", "asking", "waiting"}
  /\ op.stage \in {"new", "asking", "waiting", "returned"} => op.report = "none"
  /\ op.stage \in {"new", "asking"} => op.elevated = "none"
  /\ op.report \notin {"none", "BLOCKED"} => op.report = "PASS" /\ op.exit = 0
  /\ op.stage \in {"cleaning", "unlinked", "ended"} => op.report # "none"
  /\ op.stage = "unlinked" /\ op.result # "none" =>
       op.elevated \in {"exited0", "exited1"} /\ op.report = "BLOCKED"
  /\ op.dir = "left" =>
       /\ op.stage = "ended" /\ op.report = "BLOCKED"
       /\ op.elevated \in {"none", "exited0", "exited1"}

LanInv ==
  /\ DOMAIN operator = Tabs
  /\ \A o \in Tabs : IsOperation(operator[o])

LEMMA LanStarts ==
  ASSUME Lan!LanInit
  PROVE  LanInv
<1>1. IsOperation(Lan!NewOperator)
  BY DEF Lan!NewOperator, IsOperation, OperatorFields
<1>2. operator = [o \in Tabs |-> Lan!NewOperator]
  BY DEF Lan!LanInit
<1> QED
  BY <1>1, <1>2 DEF LanInv

(* One operation moves, and of the others only what they met.              *)
LEMMA OperationMoves ==
  ASSUME LanInv, NEW next, NEW o \in Tabs, NEW op, IsOperation(op),
         Lan!Noting(next, [operator EXCEPT ![o] = op])
  PROVE  LanInv'
<1> DEFINE moved == [operator EXCEPT ![o] = op]
           met(x) == \/ moved[x].met
                     \/ /\ moved[x].stage \notin {"new", "ended"}
                        /\ Lan!Meets(moved[x].action, next)
<1>1. operator' = [x \in Tabs |-> [moved[x] EXCEPT !.met = met(x)]]
  BY DEF Lan!Noting
<1>2. \A x \in Tabs : IsOperation(moved[x])
  BY DEF LanInv
<1> HIDE DEF moved, met
<1>3. ASSUME NEW x \in Tabs
      PROVE  IsOperation(operator'[x])
  <2> DEFINE old == moved[x]
             new == operator'[x]
  <2>1. new = [old EXCEPT !.met = met(x)]
    BY <1>1
  <2>2. IsOperation(old)
    BY <1>2
  <2> HIDE DEF old, new
  <2>3. /\ DOMAIN new = DOMAIN old
        /\ new.stage = old.stage /\ new.elevated = old.elevated /\ new.dir = old.dir
        /\ new.result = old.result /\ new.exit = old.exit /\ new.report = old.report
    BY <2>1, <2>2 DEF IsOperation, OperatorFields
  <2>4. IsOperation(new)
    BY <2>2, <2>3 DEF IsOperation
  <2> QED
    BY <2>4 DEF new
<1> QED
  BY <1>1, <1>3 DEF LanInv

LEMMA LanKeeps ==
  ASSUME LanInv, [Lan!LanNext]_lanVars
  PROVE  LanInv'
<1>1. CASE UNCHANGED lanVars
  BY <1>1 DEF lanVars, LanInv
<1>2. CASE Lan!FrontNext
  BY <1>2 DEF Lan!FrontNext
<1>3. ASSUME NEW o \in Tabs, NEW action, Lan!Begin(o, action)
      PROVE  LanInv'
  <2> DEFINE op == operator[o]
             begun == [op EXCEPT !.action = action]
  <2>1. IsOperation(op) /\ op.stage = "new"
    BY <1>3 DEF LanInv, Lan!Begin
  <2>2. CASE Lan!Noting(rule, [operator EXCEPT ![o] =
                               [begun EXCEPT !.stage = "asking", !.dir = "made"]])
    <3>1. IsOperation([begun EXCEPT !.stage = "asking", !.dir = "made"])
      <4> HIDE DEF op
      <4> QED
        BY <2>1 DEF IsOperation, OperatorFields
    <3> QED
      BY <2>2, <3>1, OperationMoves
  <2>3. CASE \E dir \in {"none", "left"} :
               Lan!Noting(rule, [operator EXCEPT ![o] =
                 [begun EXCEPT !.stage = "ended", !.dir = dir, !.report = "BLOCKED"]])
    <3>1. ASSUME NEW dir \in {"none", "left"}
          PROVE  IsOperation([begun EXCEPT !.stage = "ended", !.dir = dir, !.report = "BLOCKED"])
      <4> HIDE DEF op
      <4> QED
        BY <2>1 DEF IsOperation, OperatorFields
    <3> QED
      BY <2>3, <3>1, OperationMoves
  <2> QED
    BY <1>3, <2>2, <2>3 DEF Lan!Begin, Lan!Goes
<1>4. ASSUME NEW o \in Tabs, Lan!Consent(o)
      PROVE  LanInv'
  <2> DEFINE op == operator[o]
  <2>1. IsOperation(op) /\ op.stage = "asking"
    BY <1>4 DEF LanInv, Lan!Consent
  <2>2. /\ IsOperation([op EXCEPT !.stage = "waiting", !.elevated = "started"])
        /\ IsOperation([op EXCEPT !.stage = "returned"])
    <3> HIDE DEF op
    <3> QED
      BY <2>1 DEF IsOperation, OperatorFields
  <2> QED
    BY <1>4, <2>2, OperationMoves DEF Lan!Consent, Lan!Goes
<1>5. ASSUME NEW o \in Tabs, Lan!Switch(o)
      PROVE  LanInv'
  <2> DEFINE op == operator[o]
  <2>1. IsOperation(op) /\ op.elevated = "started"
    BY <1>5 DEF LanInv, Lan!Switch
  <2>2. /\ IsOperation([op EXCEPT !.elevated = "switched"])
        /\ IsOperation([op EXCEPT !.elevated = "failing"])
    <3> HIDE DEF op
    <3> QED
      BY <2>1 DEF IsOperation, OperatorFields
  <2>3. [operator EXCEPT ![o].elevated = "switched"] =
          [operator EXCEPT ![o] = [op EXCEPT !.elevated = "switched"]]
    OBVIOUS
  <2>4. \E next, new : IsOperation(new) /\ Lan!Noting(next, [operator EXCEPT ![o] = new])
    BY <1>5, <2>2, <2>3 DEF Lan!Switch, Lan!Goes
  <2> QED
    BY <2>4, OperationMoves
<1>6. ASSUME NEW o \in Tabs, Lan!ReadBack(o)
      PROVE  LanInv'
  <2> DEFINE op == operator[o]
  <2>1. IsOperation(op) /\ op.elevated = "switched"
    BY <1>6 DEF LanInv, Lan!ReadBack
  <2>2. \A found \in {"passing", "failing"} : IsOperation([op EXCEPT !.elevated = found])
    <3> HIDE DEF op
    <3> QED
      BY <2>1 DEF IsOperation, OperatorFields
  <2> QED
    BY <1>6, <2>2, OperationMoves DEF Lan!ReadBack, Lan!Goes
<1>7. ASSUME NEW o \in Tabs, Lan!WriteResult(o)
      PROVE  LanInv'
  <2> DEFINE op == operator[o]
             wrote == [op EXCEPT
               !.result = IF op.dir = "made" THEN IF op.elevated = "passing" THEN "PASS" ELSE "BLOCKED" ELSE @,
               !.elevated = IF op.elevated = "passing" /\ op.dir = "made" THEN "exited0" ELSE "exited1"]
  <2>1. IsOperation(op) /\ op.elevated \in {"passing", "failing"}
    BY <1>7 DEF LanInv, Lan!WriteResult
  <2>2. IsOperation(wrote)
    <3> HIDE DEF op
    <3> QED
      BY <2>1 DEF IsOperation, OperatorFields
  <2> QED
    BY <1>7, <2>2, OperationMoves DEF Lan!WriteResult, Lan!Goes
<1>8. ASSUME NEW o \in Tabs, Lan!BrokerReturns(o)
      PROVE  LanInv'
  <2> DEFINE op == operator[o]
             returned == [op EXCEPT !.stage = "returned",
                                    !.exit = IF op.elevated = "exited0" THEN 0 ELSE 1]
  <2>1. IsOperation(op) /\ op.stage = "waiting"
    BY <1>8 DEF LanInv, Lan!BrokerReturns
  <2>2. IsOperation(returned)
    <3> HIDE DEF op
    <3> QED
      BY <2>1 DEF IsOperation, OperatorFields
  <2> QED
    BY <1>8, <2>2, OperationMoves DEF Lan!BrokerReturns, Lan!Goes
<1>9. ASSUME NEW o \in Tabs, Lan!BrokerTimesOut(o)
      PROVE  LanInv'
  <2> DEFINE op == operator[o]
  <2>1. IsOperation(op) /\ op.stage = "waiting"
    BY <1>9 DEF LanInv, Lan!BrokerTimesOut
  <2>2. ASSUME NEW killed \in BOOLEAN
        PROVE  IsOperation([op EXCEPT !.stage = "returned",
                                      !.elevated = IF killed THEN "killed" ELSE @])
    <3> HIDE DEF op
    <3> QED
      BY <2>1 DEF IsOperation, OperatorFields
  <2> QED
    BY <1>9, <2>2, OperationMoves DEF Lan!BrokerTimesOut, Lan!Goes
<1>10. ASSUME NEW o \in Tabs, Lan!OperatorTimesOut(o)
       PROVE  LanInv'
  <2> DEFINE op == operator[o]
  <2>1. IsOperation(op) /\ op.stage \in {"asking", "waiting"}
    BY <1>10 DEF LanInv, Lan!OperatorTimesOut
  <2>2. IsOperation([op EXCEPT !.stage = "cleaning", !.report = "BLOCKED"])
    <3> HIDE DEF op
    <3> QED
      BY <2>1 DEF IsOperation, OperatorFields
  <2> QED
    BY <1>10, <2>2, OperationMoves DEF Lan!OperatorTimesOut, Lan!Goes
<1>11. ASSUME NEW o \in Tabs, Lan!ReadResult(o)
       PROVE  LanInv'
  <2> DEFINE op == operator[o]
             told == [op EXCEPT !.stage = "cleaning",
                                !.report = IF Lan!Passes(op) THEN "PASS" ELSE "BLOCKED"]
  <2>1. IsOperation(op) /\ op.stage = "returned"
    BY <1>11 DEF LanInv, Lan!ReadResult
  <2>2. IsOperation(told)
    <3> HIDE DEF op
    <3> QED
      BY <2>1 DEF IsOperation, OperatorFields, Lan!Passes
  <2> QED
    BY <1>11, <2>2, OperationMoves DEF Lan!ReadResult, Lan!Goes
<1>12. ASSUME NEW o \in Tabs, Lan!Unlink(o)
       PROVE  LanInv'
  <2> DEFINE op == operator[o]
  <2>1. IsOperation(op) /\ op.stage = "cleaning"
    BY <1>12 DEF LanInv, Lan!Unlink
  <2>2. IsOperation([op EXCEPT !.stage = "unlinked", !.result = "none"])
    <3> HIDE DEF op
    <3> QED
      BY <2>1 DEF IsOperation, OperatorFields
  <2> QED
    BY <1>12, <2>2, OperationMoves DEF Lan!Unlink, Lan!Goes
<1>13. ASSUME NEW o \in Tabs, Lan!Rmdir(o)
       PROVE  LanInv'
  <2> DEFINE op == operator[o]
             left == [op EXCEPT !.stage = "ended",
                                !.dir = IF op.result = "none" THEN "removed" ELSE "left"]
  <2>1. IsOperation(op) /\ op.stage = "unlinked"
    BY <1>13 DEF LanInv, Lan!Rmdir
  <2>2. IsOperation(left)
    <3> HIDE DEF op
    <3> QED
      BY <2>1 DEF IsOperation, OperatorFields
  <2> QED
    BY <1>13, <2>2, OperationMoves DEF Lan!Rmdir, Lan!Goes
<1> QED
  BY <1>1, <1>2, <1>3, <1>4, <1>5, <1>6, <1>7, <1>8, <1>9, <1>10, <1>11, <1>12, <1>13
     DEF Lan!LanNext, Lan!OperatorNext

LEMMA ResultsGo ==
  ASSUME LanInv
  PROVE  Lan!ResultsAreRemoved
  BY DEF LanInv, IsOperation, Lan!ResultsAreRemoved

-----------------------------------------------------------------------------
(* The front.  One that was stopped has ended its child and given up the   *)
(* port; one that serves passed the preflight, and has not heard of the    *)
(* end of its child.                                                       *)
FrontFields == {"stage", "child", "exit", "open", "cut", "ended", "facts"}

IsFront(new) ==
  /\ FrontFields \subseteq DOMAIN new
  /\ ~new.cut
  /\ new.stage = "new" => new.child = "none"
  /\ new.stage = "ended" /\ new.ended = "stop" => new.child = "dead"
  /\ new.facts # Null => Fronting!PreflightAllows(new.facts)
  /\ new.exit = "heard" => new.stage \in {"closing", "ended"}

FrontsInv ==
  /\ DOMAIN front = Tabs
  /\ \A f \in Tabs : IsFront(front[f])
  /\ port \in Tabs => front[port].child = "bound"

LEMMA FrontsStart ==
  ASSUME Fronting!SecureLanAssumption, Fronting!LanInit
  PROVE  FrontsInv
<1>1. IsFront(Fronting!NewFront)
  BY DEF Fronting!NewFront, IsFront, FrontFields
<1>2. front = [f \in Tabs |-> Fronting!NewFront] /\ port = Null
  BY DEF Fronting!LanInit
<1> QED
  BY <1>1, <1>2 DEF FrontsInv, Fronting!SecureLanAssumption

LEMMA FrontMoves ==
  ASSUME FrontsInv, NEW f \in Tabs, NEW new, IsFront(new), front' = [front EXCEPT ![f] = new],
         port' \in Tabs => (IF port' = f THEN new.child = "bound" ELSE port' = port)
  PROVE  FrontsInv'
  BY DEF FrontsInv

(* Nothing else is told of the child of the front that has the port.       *)
LEMMA FrontStays ==
  ASSUME FrontsInv, NEW f \in Tabs, NEW new, IsFront(new),
         front[f].child \in {new.child, "none", "up", "dead"}, Fronting!Same(f, new)
  PROVE  FrontsInv'
BY FrontMoves DEF FrontsInv, Fronting!Same, Fronting!Moves

(* A front without a port moves on.                                        *)
LEMMA PortIsFreed ==
  ASSUME FrontsInv, Fronting!SecureLanAssumption, NEW f \in Tabs, NEW new, IsFront(new),
         front' = [front EXCEPT ![f] = new], Fronting!Freed(f)
  PROVE  FrontsInv'
<1>1. port' # f
  BY DEF Fronting!Freed, Fronting!SecureLanAssumption
<1> QED
  BY <1>1, FrontMoves DEF Fronting!Freed, Fronting!SecureLanAssumption

LEMMA FrontsKeep ==
  ASSUME FrontsInv, Fronting!SecureLanAssumption, [Fronting!LanNext]_lanVars
  PROVE  FrontsInv'
<1>1. CASE UNCHANGED lanVars
  BY <1>1 DEF lanVars, FrontsInv
<1>2. CASE Fronting!OperatorNext
  BY <1>2 DEF Fronting!OperatorNext
<1>3. ASSUME NEW f \in Tabs, Fronting!Start(f)
      PROVE  FrontsInv'
  <2> DEFINE up == [Fronting!NewFront EXCEPT !.stage = "starting", !.child = "up",
                                             !.facts = Fronting!Facts]
             refused == [Fronting!NewFront EXCEPT !.stage = "ended", !.ended = "error"]
  <2>1. IsFront(front[f]) /\ front[f].stage = "new"
    BY <1>3 DEF FrontsInv, Fronting!Start
  <2>2. front[f].child = "none"
    BY <2>1 DEF IsFront
  <2>3. Fronting!ValidFirewallState(Fronting!Facts) => Fronting!PreflightAllows(Fronting!Facts)
    BY DEF Fronting!ValidFirewallState, Fronting!PreflightAllows
  <2>4. Fronting!ValidFirewallState(Fronting!Facts) => IsFront(up)
    BY <2>3 DEF IsFront, FrontFields, Fronting!NewFront
  <2>5. IsFront(refused)
    BY DEF IsFront, FrontFields, Fronting!NewFront
  <2> QED
    BY <1>3, <2>2, <2>4, <2>5, FrontStays DEF Fronting!Start
<1>4. ASSUME NEW f \in Tabs, Fronting!ChildBinds(f)
      PROVE  FrontsInv'
  <2> DEFINE old == front[f]
  <2>1. IsFront(old) /\ old.child = "up"
    BY <1>4 DEF FrontsInv, Fronting!ChildBinds
  <2>2. /\ IsFront([old EXCEPT !.child = "bound"])
        /\ \A told \in {"told", "unheard"} :
             IsFront([old EXCEPT !.child = "dead", !.exit = told])
    <3> HIDE DEF old
    <3> QED
      BY <2>1 DEF IsFront, FrontFields
  <2>3. CASE port = Null
    <3> DEFINE new == [old EXCEPT !.child = "bound"]
    <3>1. front' = [front EXCEPT ![f] = new] /\ port' = f
      BY <1>4, <2>3 DEF Fronting!ChildBinds, Fronting!Moves
    <3>2. new.child = "bound"
      <4> HIDE DEF old
      <4> QED
        BY <2>1 DEF IsFront, FrontFields
    <3> HIDE DEF new
    <3> QED
      BY <2>2, <3>1, <3>2, FrontMoves DEF new
  <2>4. CASE port # Null
    BY <1>4, <2>1, <2>2, <2>4, FrontStays DEF Fronting!ChildBinds, Fronting!ChildExits
  <2> QED
    BY <2>3, <2>4
<1>5. ASSUME NEW f \in Tabs, Fronting!ChildEnds(f)
      PROVE  FrontsInv'
  <2> DEFINE old == front[f]
  <2>1. IsFront(old) /\ old.child = "bound"
    BY <1>5 DEF FrontsInv, Fronting!ChildEnds
  <2>2. \A told \in {"told", "unheard"} :
             IsFront([old EXCEPT !.child = "dead", !.exit = told])
    <3> HIDE DEF old
    <3> QED
      BY <2>1 DEF IsFront, FrontFields
  <2> QED
    BY <1>5, <2>1, <2>2, PortIsFreed DEF Fronting!ChildEnds, Fronting!ChildExits, Fronting!Moves
<1>6. ASSUME NEW f \in Tabs, Fronting!Probe(f)
      PROVE  FrontsInv'
  <2> DEFINE old == front[f]
  <2>1. IsFront(old) /\ old.stage = "starting"
    BY <1>6 DEF FrontsInv, Fronting!Probe
  <2>2. /\ IsFront([old EXCEPT !.stage = "ended", !.ended = "error"])
        /\ IsFront([old EXCEPT !.stage = "probing"])
        /\ old.child = [old EXCEPT !.stage = "ended", !.ended = "error"].child
        /\ old.child = [old EXCEPT !.stage = "probing"].child
    <3> HIDE DEF old
    <3> QED
      BY <2>1 DEF IsFront, FrontFields
  <2> QED
    BY <1>6, <2>1, <2>2, FrontStays DEF Fronting!Probe
<1>7. ASSUME NEW f \in Tabs, Fronting!ProbeEnds(f)
      PROVE  FrontsInv'
  <2> DEFINE old == front[f]
  <2>1. IsFront(old) /\ old.stage = "probing"
    BY <1>7 DEF FrontsInv, Fronting!ProbeEnds
  <2>2. \A next \in {"starting", "ready"} :
          /\ IsFront([old EXCEPT !.stage = next])
          /\ old.child = [old EXCEPT !.stage = next].child
    <3> HIDE DEF old
    <3> QED
      BY <2>1 DEF IsFront, FrontFields
  <2> QED
    BY <1>7, <2>1, <2>2, FrontStays DEF Fronting!ProbeEnds
<1>8. ASSUME NEW f \in Tabs, Fronting!StartTimesOut(f)
      PROVE  FrontsInv'
  <2> DEFINE old == front[f]
  <2>1. IsFront(old) /\ old.stage = "starting"
    BY <1>8 DEF FrontsInv, Fronting!StartTimesOut
  <2>2. IsFront([old EXCEPT !.stage = "ended", !.ended = "timeout", !.child = "dead"])
    <3> HIDE DEF old
    <3> QED
      BY <2>1 DEF IsFront, FrontFields
  <2> QED
    BY <1>8, <2>1, <2>2, PortIsFreed DEF Fronting!StartTimesOut, Fronting!Moves
<1>9. ASSUME NEW f \in Tabs, Fronting!Listen(f)
      PROVE  FrontsInv'
  <2> DEFINE old == front[f]
  <2>1. IsFront(old) /\ old.stage = "ready"
    BY <1>9 DEF FrontsInv, Fronting!Listen
  <2>2. /\ IsFront([old EXCEPT !.stage = "ended", !.ended = "error"])
        /\ IsFront([old EXCEPT !.stage = "serving"])
        /\ old.child = [old EXCEPT !.stage = "ended", !.ended = "error"].child
        /\ old.child = [old EXCEPT !.stage = "serving"].child
    <3> HIDE DEF old
    <3> QED
      BY <2>1 DEF IsFront, FrontFields
  <2> QED
    BY <1>9, <2>1, <2>2, FrontStays DEF Fronting!Listen
<1>10. ASSUME NEW f \in Tabs, Fronting!Request(f)
      PROVE  FrontsInv'
  <2> DEFINE old == front[f]
  <2>1. IsFront(old) /\ old.stage = "serving"
    BY <1>10 DEF FrontsInv, Fronting!Request, Fronting!Listening
  <2>2. \A n : /\ IsFront([old EXCEPT !.open = n])
             /\ old.child = [old EXCEPT !.open = n].child
    <3> HIDE DEF old
    <3> QED
      BY <2>1 DEF IsFront, FrontFields
  <2> QED
    BY <1>10, <2>1, <2>2, FrontStays DEF Fronting!Request
<1>11. ASSUME NEW f \in Tabs, Fronting!Answer(f)
      PROVE  FrontsInv'
  <2> DEFINE old == front[f]
  <2>1. IsFront(old) /\ TRUE
    BY <1>11 DEF FrontsInv, Fronting!Answer
  <2>2. \A n : /\ IsFront([old EXCEPT !.open = n])
             /\ old.child = [old EXCEPT !.open = n].child
    <3> HIDE DEF old
    <3> QED
      BY <2>1 DEF IsFront, FrontFields
  <2> QED
    BY <1>11, <2>1, <2>2, FrontStays DEF Fronting!Answer
<1>12. ASSUME NEW f \in Tabs, Fronting!HearsExit(f)
      PROVE  FrontsInv'
  <2> DEFINE old == front[f]
  <2>1. IsFront(old) /\ old.stage \in {"serving", "closing"}
    BY <1>12 DEF FrontsInv, Fronting!HearsExit, Fronting!Busy
  <2>2. \A e : e = "error" \/ e = old.ended =>
           LET new == [old EXCEPT !.stage = "closing", !.exit = "heard", !.ended = e] IN
           IsFront(new) /\ old.child = new.child
    <3> HIDE DEF old
    <3> QED
      BY <2>1 DEF IsFront, FrontFields
  <2> QED
    BY <1>12, <2>1, <2>2, FrontStays DEF Fronting!HearsExit
<1>13. ASSUME NEW f \in Tabs, Fronting!Signal(f)
      PROVE  FrontsInv'
  <2> DEFINE old == front[f]
  <2>1. IsFront(old) /\ old.stage = "serving"
    BY <1>13 DEF FrontsInv, Fronting!Signal, Fronting!Listening
  <2>2. LET new == [old EXCEPT !.stage = "closing", !.ended = "stop"] IN
        IsFront(new) /\ old.child = new.child
    <3> HIDE DEF old
    <3> QED
      BY <2>1 DEF IsFront, FrontFields
  <2> QED
    BY <1>13, <2>1, <2>2, FrontStays DEF Fronting!Signal
<1>14. ASSUME NEW f \in Tabs, Fronting!Closed(f)
      PROVE  FrontsInv'
  <2> DEFINE old == front[f]
             stops == old.ended = "stop"
             new == [old EXCEPT !.stage = "ended", !.child = IF stops THEN "dead" ELSE @,
                                !.cut = stops /\ port = f /\ old.open > 0]
  <2>1. IsFront(old) /\ old.stage = "closing" /\ ~(old.open > 0)
    BY <1>14 DEF FrontsInv, Fronting!Closed, Fronting!Drained
  <2>2. IsFront(new) /\ (~stops => new.child = old.child)
    <3> HIDE DEF old
    <3> QED
      BY <2>1 DEF IsFront, FrontFields
  <2>3. front' = [front EXCEPT ![f] = new] /\ IF stops THEN Fronting!Freed(f) ELSE UNCHANGED port
    BY <1>14 DEF Fronting!Closed, Fronting!Moves
  <2> HIDE DEF new, stops
  <2>4. CASE stops
    BY <2>2, <2>3, <2>4, PortIsFreed
  <2>5. CASE ~stops
    BY <2>2, <2>3, <2>5, FrontMoves DEF FrontsInv
  <2> QED
    BY <2>4, <2>5
<1>15. ASSUME NEW f \in Tabs, Fronting!Killed(f)
      PROVE  FrontsInv'
  <2> DEFINE old == front[f]
             new(console) == [old EXCEPT !.stage = "ended", !.ended = "killed", !.open = 0,
                                         !.child = IF console THEN "dead" ELSE @]
  <2>1. IsFront(old)
    BY <1>15 DEF FrontsInv
  <2>2. \A console \in BOOLEAN :
          IsFront(new(console)) /\ (~console => new(console).child = old.child)
    <3> HIDE DEF old
    <3> QED
      BY <2>1 DEF IsFront, FrontFields
  <2>3. PICK console \in BOOLEAN :
          /\ front' = [front EXCEPT ![f] = new(console)]
          /\ IF console THEN Fronting!Freed(f) ELSE UNCHANGED port
    BY <1>15 DEF Fronting!Killed, Fronting!Moves
  <2> HIDE DEF new
  <2>4. CASE console
    BY <2>2, <2>3, <2>4, PortIsFreed
  <2>5. CASE ~console
    BY <2>2, <2>3, <2>5, FrontMoves DEF FrontsInv
  <2> QED
    BY <2>4, <2>5
<1> QED
  BY <1>1, <1>2, <1>3, <1>4, <1>5, <1>6, <1>7, <1>8, <1>9, <1>10, <1>11, <1>12, <1>13, <1>14,
     <1>15
     DEF Fronting!LanNext, Fronting!FrontNext

LEMMA FrontsEnd ==
  ASSUME FrontsInv
  PROVE  Fronting!FrontsEndCleanly
<1> SUFFICES ASSUME NEW f \in Tabs
             PROVE  /\ ~front[f].cut
                    /\ front[f].stage = "ended" /\ front[f].ended = "stop" =>
                         front[f].child = "dead" /\ port # f
                    /\ front[f].facts # Null => Fronting!PreflightAllows(front[f].facts)
                    /\ Fronting!Listening(f) /\ front[f].child = "dead" => front[f].exit # "heard"
  BY DEF Fronting!FrontsEndCleanly
<1>1. IsFront(front[f]) /\ (port = f => front[f].child = "bound")
  BY DEF FrontsInv
<1> QED
  BY <1>1 DEF IsFront, Fronting!Listening

-----------------------------------------------------------------------------
(* The private directories of the video workers E with the videos V.  A    *)
(* directory on the disk is of one attempt that works in it, or nobody's.  *)
AttemptFields == {"at", "video", "stage", "space", "failed", "frames", "code", "bundle"}
WorkRoot == {"s1", "s2"}
Contents(V) == [source : {v.id : v \in V} \cup {Null}, frames : SUBSET (0 .. 3)]

IsAttempt(a, V) ==
  /\ AttemptFields \subseteq DOMAIN a
  /\ IF a.at \in {"write", "tool", "close"} THEN a.space \in WorkRoot ELSE a.space = Null
  /\ a.at # "idle" => a.video \in V

SpacesInv(E, V) ==
  /\ DOMAIN attempt = E /\ DOMAIN spaces = WorkRoot
  /\ \A w \in E : IsAttempt(attempt[w], V)
  /\ \A s \in WorkRoot : spaces[s] # Null => spaces[s] \in Contents(V)
  /\ \A w \in E : attempt[w].space # Null => spaces[attempt[w].space] # Null
  /\ \A s \in WorkRoot : spaces[s] # Null =>
       s \in orphans \/ \E w \in E : attempt[w].space = s
  /\ \A w, x \in E :
       w # x /\ attempt[w].space # Null => attempt[w].space # attempt[x].space

SpacesAssumption(V) == Null \notin WorkRoot /\ Null \notin Contents(V)

LEMMA SpaceStays ==
  ASSUME NEW E, NEW V, SpacesAssumption(V), SpacesInv(E, V), NEW w \in E, NEW a, IsAttempt(a, V),
         a.space = attempt[w].space, attempt' = [attempt EXCEPT ![w] = a],
         UNCHANGED <<spaces, orphans>>
  PROVE  SpacesInv(E, V)'
  BY DEF SpacesInv

LEMMA SpaceFills ==
  ASSUME NEW E, NEW V, SpacesAssumption(V), SpacesInv(E, V), NEW w \in E, NEW a, IsAttempt(a, V),
         a.space = attempt[w].space, attempt' = [attempt EXCEPT ![w] = a],
         a.space # Null, NEW held \in Contents(V),
         spaces' = [spaces EXCEPT ![a.space] = held], UNCHANGED orphans
  PROVE  SpacesInv(E, V)'
  BY DEF SpacesInv, SpacesAssumption

LEMMA SpaceOpens ==
  ASSUME NEW E, NEW V, SpacesAssumption(V), SpacesInv(E, V), NEW w \in E, NEW a, IsAttempt(a, V),
         attempt' = [attempt EXCEPT ![w] = a],
         NEW s \in WorkRoot, spaces[s] = Null, a.space = s, NEW held \in Contents(V),
         spaces' = [spaces EXCEPT ![s] = held], UNCHANGED orphans, attempt[w].space = Null
  PROVE  SpacesInv(E, V)'
  BY DEF SpacesInv, SpacesAssumption

LEMMA SpaceCloses ==
  ASSUME NEW E, NEW V, SpacesAssumption(V), SpacesInv(E, V), NEW w \in E, NEW a, IsAttempt(a, V),
         a.space = Null, attempt' = [attempt EXCEPT ![w] = a], attempt[w].space \in WorkRoot,
         spaces' = [spaces EXCEPT ![attempt[w].space] = Null], UNCHANGED orphans
  PROVE  SpacesInv(E, V)'
  BY DEF SpacesInv, SpacesAssumption

LEMMA SpaceIsLeft ==
  ASSUME NEW E, NEW V, SpacesAssumption(V), SpacesInv(E, V), NEW w \in E, NEW a, IsAttempt(a, V),
         a.space = Null, attempt' = [attempt EXCEPT ![w] = a],
         orphans' = orphans \cup {attempt[w].space}, UNCHANGED spaces
  PROVE  SpacesInv(E, V)'
  BY DEF SpacesInv, SpacesAssumption

LEMMA WorkersDie ==
  ASSUME NEW E, NEW V, SpacesAssumption(V), SpacesInv(E, V),
         NEW a, IsAttempt(a, V), a.space = Null, attempt' = [w \in E |-> a],
         orphans' = orphans \cup ({attempt[w].space : w \in E} \ {Null}), UNCHANGED spaces
  PROVE  SpacesInv(E, V)'
  BY DEF SpacesInv, SpacesAssumption

-----------------------------------------------------------------------------
(* One worker with any of the videos.                                      *)
Framers == {"e1"}
FramingInv == SpacesInv(Framers, Clips)

LEMMA FramingMayBeNamed ==
  ASSUME Framing!VideoAssumption
  PROVE  SpacesAssumption(Clips)
  BY DEF Framing!VideoAssumption, SpacesAssumption, WorkRoot, Contents

LEMMA FramingIdleIsAttempt == IsAttempt(Framing!Idle, Clips) /\ Framing!Idle.space = Null
  BY DEF Framing!Idle, IsAttempt, AttemptFields

LEMMA FramingStarts ==
  ASSUME Framing!VideoInit
  PROVE  FramingInv
<1>1. attempt = [w \in Framers |-> Framing!Idle] /\ spaces = [s \in WorkRoot |-> Null]
  BY DEF Framing!VideoInit, WorkRoot, Framers
<1> QED
  BY <1>1, FramingIdleIsAttempt DEF FramingInv, SpacesInv

LEMMA FramingAnswered ==
  ASSUME NEW a, IsAttempt(a, Clips), a.at # "idle", NEW code, NEW bundle
  PROVE  /\ IsAttempt(Framing!Answered(a, code, bundle), Clips)
         /\ Framing!Answered(a, code, bundle).space = Null
  BY DEF Framing!Answered, IsAttempt, AttemptFields

LEMMA FramingAfterSpace ==
  ASSUME NEW a, IsAttempt(a, Clips), a.at # "idle", NEW verified \in BOOLEAN
  PROVE  /\ IsAttempt(Framing!AfterSpace(a, verified), Clips)
         /\ Framing!AfterSpace(a, verified).space = Null
<1> DEFINE new == [a EXCEPT !.at = "open", !.stage = "extract", !.space = Null]
<1>1. IsAttempt(new, Clips) /\ new.space = Null
  BY DEF IsAttempt, AttemptFields
<1>2. Framing!AfterSpace(a, verified) = new
        \/ \E code, bundle : Framing!AfterSpace(a, verified) = Framing!Answered(a, code, bundle)
  BY DEF Framing!AfterSpace, Framing!BundleAnswer
<1>3. CASE Framing!AfterSpace(a, verified) = new
  BY <1>1, <1>3
<1>4. CASE \E code, bundle : Framing!AfterSpace(a, verified) = Framing!Answered(a, code, bundle)
  <2>1. PICK code, bundle : Framing!AfterSpace(a, verified) = Framing!Answered(a, code, bundle)
    BY <1>4
  <2> QED
    BY <2>1, FramingAnswered
<1> QED
  BY <1>2, <1>3, <1>4

LEMMA FramingClosing ==
  ASSUME NEW a, IsAttempt(a, Clips), a.at = "write" \/ a.at = "tool", NEW failed
  PROVE  IsAttempt(Framing!Closing(a, failed), Clips) /\ Framing!Closing(a, failed).space = a.space
  BY DEF Framing!Closing, IsAttempt, AttemptFields

LEMMA FramingKeeps ==
  ASSUME Framing!VideoAssumption, FramingInv, [Framing!VideoNext]_videoVars
  PROVE  FramingInv'
<1>1. /\ SpacesInv(Framers, Clips) /\ SpacesAssumption(Clips)
      /\ \A w \in Framers : IsAttempt(attempt[w], Clips)
  BY FramingMayBeNamed DEF FramingInv, SpacesInv
<1>2. CASE UNCHANGED videoVars
  BY <1>1, <1>2 DEF videoVars, FramingInv, SpacesInv
<1>3. ASSUME NEW w \in Framers, NEW v \in Clips, Framing!BeginVideo(w, v)
      PROVE  FramingInv'
  <2> DEFINE a == [Framing!Idle EXCEPT !.video = v]
  <2>1. /\ IsAttempt([a EXCEPT !.at = "gate"], Clips) /\ [a EXCEPT !.at = "gate"].space = Null
        /\ \A code : /\ IsAttempt(Framing!Answered(a, code, Null), Clips)
                      /\ Framing!Answered(a, code, Null).space = Null
    BY DEF Framing!Idle, Framing!Answered, IsAttempt, AttemptFields
  <2>2. attempt[w].space = Null /\ UNCHANGED <<spaces, orphans>>
    BY <1>1, <1>3 DEF Framing!BeginVideo, IsAttempt
  <2>3. \E new : IsAttempt(new, Clips) /\ new.space = Null /\ attempt' = [attempt EXCEPT ![w] = new]
    BY <1>3, <2>1 DEF Framing!BeginVideo, Framing!Step
  <2> QED
    BY <1>1, <2>2, <2>3, SpaceStays DEF FramingInv
<1>4. ASSUME NEW w \in Framers, Framing!CheckTools(w)
      PROVE  FramingInv'
  <2> DEFINE a == attempt[w]
  <2>1. IsAttempt(a, Clips) /\ a.at = "gate" /\ a.space = Null
    BY <1>1, <1>4 DEF Framing!CheckTools, IsAttempt
  <2>2. IsAttempt([a EXCEPT !.at = "open"], Clips) /\ [a EXCEPT !.at = "open"].space = Null
    <3> HIDE DEF a
    <3> QED
      BY <2>1 DEF IsAttempt, AttemptFields
  <2>3. \/ attempt' = [attempt EXCEPT ![w] = [a EXCEPT !.at = "open"]]
        \/ attempt' = [attempt EXCEPT ![w] = Framing!Answered(a, "VIDEO_RUNTIME_UNAVAILABLE", Null)]
        \/ attempt' = [attempt EXCEPT ![w] = Framing!Answered(a, "VIDEO_RUNTIME_UNVERIFIED", Null)]
    BY <1>4 DEF Framing!CheckTools, Framing!Step
  <2>4. /\ IsAttempt(Framing!Answered(a, "VIDEO_RUNTIME_UNAVAILABLE", Null), Clips)
        /\ Framing!Answered(a, "VIDEO_RUNTIME_UNAVAILABLE", Null).space = Null
        /\ IsAttempt(Framing!Answered(a, "VIDEO_RUNTIME_UNVERIFIED", Null), Clips)
        /\ Framing!Answered(a, "VIDEO_RUNTIME_UNVERIFIED", Null).space = Null
    BY <2>1, FramingAnswered
  <2>5. UNCHANGED <<spaces, orphans>>
    BY <1>4 DEF Framing!CheckTools
  <2> HIDE DEF a
  <2>6. attempt[w].space = Null
    BY <2>1 DEF a
  <2> QED
    BY <1>1, <2>2, <2>3, <2>4, <2>5, <2>6, SpaceStays DEF FramingInv
<1>5. ASSUME NEW w \in Framers, Framing!OpenSpace(w)
      PROVE  FramingInv'
  <2> DEFINE a == attempt[w]
  <2>1. IsAttempt(a, Clips) /\ a.at = "open" /\ a.space = Null /\ UNCHANGED orphans
    BY <1>1, <1>5 DEF Framing!OpenSpace, IsAttempt
  <2>2. ASSUME NEW s \in Framing!FreeSpaces, spaces' = [spaces EXCEPT ![s] = Framing!EmptySpace],
               attempt' = [attempt EXCEPT ![w] = [a EXCEPT !.at = "write", !.space = s]]
        PROVE  FramingInv'
    <3> DEFINE new == [a EXCEPT !.at = "write", !.space = s]
    <3>1. s \in WorkRoot /\ spaces[s] = Null
      BY DEF Framing!FreeSpaces, WorkRoot
    <3>2. IsAttempt(new, Clips) /\ new.space = s
      <4> HIDE DEF a
      <4> QED
        BY <2>1, <3>1 DEF IsAttempt, AttemptFields
    <3>3. Framing!EmptySpace \in Contents(Clips)
      BY DEF Framing!EmptySpace, Contents
    <3> HIDE DEF new
    <3> QED
      BY <1>1, <2>1, <2>2, <3>1, <3>2, <3>3, SpaceOpens DEF FramingInv, new
  <2>3. CASE UNCHANGED spaces /\
             attempt' = [attempt EXCEPT ![w] = Framing!Answered(a, Framing!StageCode(a.stage), Null)]
    BY <1>1, <2>1, <2>3, SpaceStays, FramingAnswered DEF FramingInv
  <2> QED
    BY <1>5, <2>2, <2>3 DEF Framing!OpenSpace, Framing!Step
<1>6. ASSUME NEW w \in Framers, Framing!WriteSource(w)
      PROVE  FramingInv'
  <2> DEFINE a == attempt[w]
  <2>1. /\ IsAttempt(a, Clips) /\ a.at = "write" /\ a.space \in WorkRoot /\ UNCHANGED orphans
        /\ a.video \in Clips /\ spaces[a.space] \in Contents(Clips)
    BY <1>1, <1>6 DEF Framing!WriteSource, IsAttempt, SpacesInv, SpacesAssumption
  <2>2. CASE UNCHANGED spaces /\ attempt' = [attempt EXCEPT ![w] = Framing!Closing(a, TRUE)]
    BY <1>1, <2>1, <2>2, SpaceStays, FramingClosing DEF FramingInv
  <2>3. CASE /\ spaces' = [spaces EXCEPT ![a.space].source = a.video.id]
             /\ attempt' = [attempt EXCEPT ![w] = [a EXCEPT !.at = "tool"]]
    <3> DEFINE held == [spaces[a.space] EXCEPT !.source = a.video.id]
               new == [a EXCEPT !.at = "tool"]
    <3>1. IsAttempt(new, Clips) /\ new.space = a.space
      <4> HIDE DEF a
      <4> QED
        BY <2>1 DEF IsAttempt, AttemptFields
    <3>2. held \in Contents(Clips)
      BY <2>1 DEF Contents
    <3>3. spaces' = [spaces EXCEPT ![new.space] = held] /\ new.space # Null
      BY <1>1, <2>1, <2>3, <3>1 DEF SpacesAssumption
    <3> HIDE DEF new, held
    <3> QED
      BY <1>1, <2>1, <2>3, <3>1, <3>2, <3>3, SpaceFills DEF FramingInv, new
  <2> QED
    BY <1>6, <2>2, <2>3 DEF Framing!WriteSource, Framing!Step
<1>7. ASSUME NEW w \in Framers, Framing!ToolFails(w) \/ Framing!ProbeAnswers(w) \/ Framing!ListSpace(w)
      PROVE  FramingInv'
  <2> DEFINE a == attempt[w]
  <2>1. IsAttempt(a, Clips) /\ a.at = "tool" /\ UNCHANGED <<spaces, orphans>>
    BY <1>1, <1>7 DEF Framing!ToolFails, Framing!ProbeAnswers, Framing!ListSpace
  <2>2. PICK failed : attempt' = [attempt EXCEPT ![w] = Framing!Closing(a, failed)]
    BY <1>7 DEF Framing!ToolFails, Framing!ProbeAnswers, Framing!ListSpace, Framing!Step
  <2> QED
    BY <1>1, <2>1, <2>2, SpaceStays, FramingClosing DEF FramingInv
<1>8. ASSUME NEW w \in Framers, Framing!ExtractFrame(w)
      PROVE  FramingInv'
  <2> DEFINE a == attempt[w]
             item == Framing!NextItem(a)
             held == [spaces[a.space] EXCEPT !.frames = @ \cup {item.no}]
             more == [a EXCEPT !.frames = Append(@, Framing!Frame(a.video, item))]
  <2>1. /\ IsAttempt(a, Clips) /\ a.at = "tool" /\ a.space \in WorkRoot /\ UNCHANGED orphans
        /\ spaces[a.space] \in Contents(Clips) /\ a.space # Null
    BY <1>1, <1>8 DEF Framing!ExtractFrame, IsAttempt, SpacesInv, SpacesAssumption
  <2>2. item.no \in 0 .. 3
    <3> DEFINE d == a.video.inspection.duration
               n == Len(a.frames) + 1
    <3>1. n \in DOMAIN Framing!Plan(d) /\ item = Framing!Plan(d)[n]
      BY <1>8 DEF Framing!ExtractFrame, Framing!NextItem
    <3> HIDE DEF d, n, item
    <3>2. DOMAIN Framing!Plan(d) # {} /\ d \in 1 .. 6
      <4>1. DOMAIN << >> = {}
        OBVIOUS
      <4> QED
        BY <3>1, <4>1 DEF Framing!Plan
    <3>3. Framing!Plan(d) = [i \in {m \in 1 .. 3 : (m - 1) * 2 < d} |-> [no |-> i - 1, at |-> (i - 1) * 2]]
      BY <3>2 DEF Framing!Plan
    <3>4. n \in 1 .. 3 /\ item.no = n - 1
      BY <3>1, <3>3
    <3> QED
      BY <3>4
  <2>3. held \in Contents(Clips)
    BY <2>1, <2>2 DEF Contents
  <2>4. IsAttempt(more, Clips) /\ more.space = a.space
    <3> HIDE DEF a, item
    <3> QED
      BY <2>1 DEF IsAttempt, AttemptFields
  <2>5. IsAttempt(Framing!Closing(a, TRUE), Clips) /\ Framing!Closing(a, TRUE).space = a.space
    BY <2>1, FramingClosing
  <2>6. \/ UNCHANGED spaces
        \/ spaces' = [spaces EXCEPT ![a.space] = held]
    BY <1>8 DEF Framing!ExtractFrame
  <2>7. \/ attempt' = [attempt EXCEPT ![w] = more]
        \/ attempt' = [attempt EXCEPT ![w] = Framing!Closing(a, TRUE)]
    BY <1>8 DEF Framing!ExtractFrame, Framing!Step
  <2>8. PICK new : IsAttempt(new, Clips) /\ new.space = a.space /\ attempt' = [attempt EXCEPT ![w] = new]
    BY <2>4, <2>5, <2>7
  <2> HIDE DEF item, held, more
  <2> QED
    BY <1>1, <2>1, <2>3, <2>6, <2>8, SpaceStays, SpaceFills DEF FramingInv
<1>9. ASSUME NEW w \in Framers, Framing!CloseSpace(w)
      PROVE  FramingInv'
  <2> DEFINE a == attempt[w]
  <2>1. /\ IsAttempt(a, Clips) /\ a.at = "close" /\ a.space \in WorkRoot /\ UNCHANGED orphans
        /\ spaces' = [spaces EXCEPT ![a.space] = Null]
    BY <1>1, <1>9 DEF Framing!CloseSpace, IsAttempt
  <2>2. \E verified \in BOOLEAN : attempt' = [attempt EXCEPT ![w] = Framing!AfterSpace(a, verified)]
    BY <1>9 DEF Framing!CloseSpace, Framing!Step
  <2> QED
    BY <1>1, <2>1, <2>2, SpaceCloses, FramingAfterSpace DEF FramingInv
<1>10. ASSUME NEW w \in Framers, Framing!CloseFails(w)
       PROVE  FramingInv'
  <2> DEFINE a == attempt[w]
  <2>1. /\ IsAttempt(a, Clips) /\ a.at = "close" /\ UNCHANGED spaces
        /\ orphans' = orphans \cup {a.space}
    BY <1>1, <1>10 DEF Framing!CloseFails
  <2>2. \/ attempt' = [attempt EXCEPT ![w] = Framing!AfterSpace(a, TRUE)]
        \/ \E code : attempt' = [attempt EXCEPT ![w] = Framing!Answered(a, code, Null)]
    BY <1>10 DEF Framing!CloseFails, Framing!Step
  <2>3. CASE attempt' = [attempt EXCEPT ![w] = Framing!AfterSpace(a, TRUE)]
    BY <1>1, <2>1, <2>3, SpaceIsLeft, FramingAfterSpace DEF FramingInv
  <2>4. CASE \E code : attempt' = [attempt EXCEPT ![w] = Framing!Answered(a, code, Null)]
    <3>1. PICK code : attempt' = [attempt EXCEPT ![w] = Framing!Answered(a, code, Null)]
      BY <2>4
    <3> QED
      BY <1>1, <2>1, <3>1, SpaceIsLeft, FramingAnswered DEF FramingInv
  <2> QED
    BY <2>2, <2>3, <2>4
<1>11. CASE Framing!Crash
  <2>1. /\ attempt' = [w \in Framers |-> Framing!Idle] /\ UNCHANGED spaces
        /\ orphans' = orphans \cup ({attempt[w].space : w \in Framers} \ {Null})
    BY <1>11 DEF Framing!Crash, Framers
  <2> QED
    BY <1>1, <2>1, FramingIdleIsAttempt, WorkersDie DEF FramingInv
<1> QED
  BY <1>2, <1>3, <1>4, <1>5, <1>6, <1>7, <1>8, <1>9, <1>10, <1>11 DEF Framing!VideoNext, Framers

LEMMA FramingBelong ==
  ASSUME FramingInv
  PROVE  Framing!SpacesBelongToWork
  BY DEF FramingInv, SpacesInv, WorkRoot, Framers, Framing!SpacesBelongToWork

-----------------------------------------------------------------------------
(* Two workers of one process.                                             *)
Sharers == {"e1", "e2"}
Shared == {Clip("whole", 3, <<1, 2>>), Clip("no picture", 1, << >>)}
SharingInv == SpacesInv(Sharers, Shared)

LEMMA SharingMayBeNamed ==
  ASSUME Sharing!VideoAssumption
  PROVE  SpacesAssumption(Shared)
  BY DEF Sharing!VideoAssumption, SpacesAssumption, WorkRoot, Contents, Shared

LEMMA SharingIdleIsAttempt == IsAttempt(Sharing!Idle, Shared) /\ Sharing!Idle.space = Null
  BY DEF Sharing!Idle, IsAttempt, AttemptFields

LEMMA SharingStarts ==
  ASSUME Sharing!VideoInit
  PROVE  SharingInv
<1>1. attempt = [w \in Sharers |-> Sharing!Idle] /\ spaces = [s \in WorkRoot |-> Null]
  BY DEF Sharing!VideoInit, WorkRoot, Sharers
<1> QED
  BY <1>1, SharingIdleIsAttempt DEF SharingInv, SpacesInv

LEMMA SharingAnswered ==
  ASSUME NEW a, IsAttempt(a, Shared), a.at # "idle", NEW code, NEW bundle
  PROVE  /\ IsAttempt(Sharing!Answered(a, code, bundle), Shared)
         /\ Sharing!Answered(a, code, bundle).space = Null
  BY DEF Sharing!Answered, IsAttempt, AttemptFields

LEMMA SharingAfterSpace ==
  ASSUME NEW a, IsAttempt(a, Shared), a.at # "idle", NEW verified \in BOOLEAN
  PROVE  /\ IsAttempt(Sharing!AfterSpace(a, verified), Shared)
         /\ Sharing!AfterSpace(a, verified).space = Null
<1> DEFINE new == [a EXCEPT !.at = "open", !.stage = "extract", !.space = Null]
<1>1. IsAttempt(new, Shared) /\ new.space = Null
  BY DEF IsAttempt, AttemptFields
<1>2. Sharing!AfterSpace(a, verified) = new
        \/ \E code, bundle : Sharing!AfterSpace(a, verified) = Sharing!Answered(a, code, bundle)
  BY DEF Sharing!AfterSpace, Sharing!BundleAnswer
<1>3. CASE Sharing!AfterSpace(a, verified) = new
  BY <1>1, <1>3
<1>4. CASE \E code, bundle : Sharing!AfterSpace(a, verified) = Sharing!Answered(a, code, bundle)
  <2>1. PICK code, bundle : Sharing!AfterSpace(a, verified) = Sharing!Answered(a, code, bundle)
    BY <1>4
  <2> QED
    BY <2>1, SharingAnswered
<1> QED
  BY <1>2, <1>3, <1>4

LEMMA SharingClosing ==
  ASSUME NEW a, IsAttempt(a, Shared), a.at = "write" \/ a.at = "tool", NEW failed
  PROVE  IsAttempt(Sharing!Closing(a, failed), Shared) /\ Sharing!Closing(a, failed).space = a.space
  BY DEF Sharing!Closing, IsAttempt, AttemptFields

LEMMA SharingKeeps ==
  ASSUME Sharing!VideoAssumption, SharingInv, [Sharing!VideoNext]_videoVars
  PROVE  SharingInv'
<1>1. /\ SpacesInv(Sharers, Shared) /\ SpacesAssumption(Shared)
      /\ \A w \in Sharers : IsAttempt(attempt[w], Shared)
  BY SharingMayBeNamed DEF SharingInv, SpacesInv
<1>2. CASE UNCHANGED videoVars
  BY <1>1, <1>2 DEF videoVars, SharingInv, SpacesInv
<1>3. ASSUME NEW w \in Sharers, NEW v \in Shared, Sharing!BeginVideo(w, v)
      PROVE  SharingInv'
  <2> DEFINE a == [Sharing!Idle EXCEPT !.video = v]
  <2>1. /\ IsAttempt([a EXCEPT !.at = "gate"], Shared) /\ [a EXCEPT !.at = "gate"].space = Null
        /\ \A code : /\ IsAttempt(Sharing!Answered(a, code, Null), Shared)
                      /\ Sharing!Answered(a, code, Null).space = Null
    BY DEF Sharing!Idle, Sharing!Answered, IsAttempt, AttemptFields
  <2>2. attempt[w].space = Null /\ UNCHANGED <<spaces, orphans>>
    BY <1>1, <1>3 DEF Sharing!BeginVideo, IsAttempt
  <2>3. \E new : IsAttempt(new, Shared) /\ new.space = Null /\ attempt' = [attempt EXCEPT ![w] = new]
    BY <1>3, <2>1 DEF Sharing!BeginVideo, Sharing!Step
  <2> QED
    BY <1>1, <2>2, <2>3, SpaceStays DEF SharingInv
<1>4. ASSUME NEW w \in Sharers, Sharing!CheckTools(w)
      PROVE  SharingInv'
  <2> DEFINE a == attempt[w]
  <2>1. IsAttempt(a, Shared) /\ a.at = "gate" /\ a.space = Null
    BY <1>1, <1>4 DEF Sharing!CheckTools, IsAttempt
  <2>2. IsAttempt([a EXCEPT !.at = "open"], Shared) /\ [a EXCEPT !.at = "open"].space = Null
    <3> HIDE DEF a
    <3> QED
      BY <2>1 DEF IsAttempt, AttemptFields
  <2>3. \/ attempt' = [attempt EXCEPT ![w] = [a EXCEPT !.at = "open"]]
        \/ attempt' = [attempt EXCEPT ![w] = Sharing!Answered(a, "VIDEO_RUNTIME_UNAVAILABLE", Null)]
        \/ attempt' = [attempt EXCEPT ![w] = Sharing!Answered(a, "VIDEO_RUNTIME_UNVERIFIED", Null)]
    BY <1>4 DEF Sharing!CheckTools, Sharing!Step
  <2>4. /\ IsAttempt(Sharing!Answered(a, "VIDEO_RUNTIME_UNAVAILABLE", Null), Shared)
        /\ Sharing!Answered(a, "VIDEO_RUNTIME_UNAVAILABLE", Null).space = Null
        /\ IsAttempt(Sharing!Answered(a, "VIDEO_RUNTIME_UNVERIFIED", Null), Shared)
        /\ Sharing!Answered(a, "VIDEO_RUNTIME_UNVERIFIED", Null).space = Null
    BY <2>1, SharingAnswered
  <2>5. UNCHANGED <<spaces, orphans>>
    BY <1>4 DEF Sharing!CheckTools
  <2> HIDE DEF a
  <2>6. attempt[w].space = Null
    BY <2>1 DEF a
  <2> QED
    BY <1>1, <2>2, <2>3, <2>4, <2>5, <2>6, SpaceStays DEF SharingInv
<1>5. ASSUME NEW w \in Sharers, Sharing!OpenSpace(w)
      PROVE  SharingInv'
  <2> DEFINE a == attempt[w]
  <2>1. IsAttempt(a, Shared) /\ a.at = "open" /\ a.space = Null /\ UNCHANGED orphans
    BY <1>1, <1>5 DEF Sharing!OpenSpace, IsAttempt
  <2>2. ASSUME NEW s \in Sharing!FreeSpaces, spaces' = [spaces EXCEPT ![s] = Sharing!EmptySpace],
               attempt' = [attempt EXCEPT ![w] = [a EXCEPT !.at = "write", !.space = s]]
        PROVE  SharingInv'
    <3> DEFINE new == [a EXCEPT !.at = "write", !.space = s]
    <3>1. s \in WorkRoot /\ spaces[s] = Null
      BY DEF Sharing!FreeSpaces, WorkRoot
    <3>2. IsAttempt(new, Shared) /\ new.space = s
      <4> HIDE DEF a
      <4> QED
        BY <2>1, <3>1 DEF IsAttempt, AttemptFields
    <3>3. Sharing!EmptySpace \in Contents(Shared)
      BY DEF Sharing!EmptySpace, Contents
    <3> HIDE DEF new
    <3> QED
      BY <1>1, <2>1, <2>2, <3>1, <3>2, <3>3, SpaceOpens DEF SharingInv, new
  <2>3. CASE UNCHANGED spaces /\
             attempt' = [attempt EXCEPT ![w] = Sharing!Answered(a, Sharing!StageCode(a.stage), Null)]
    BY <1>1, <2>1, <2>3, SpaceStays, SharingAnswered DEF SharingInv
  <2> QED
    BY <1>5, <2>2, <2>3 DEF Sharing!OpenSpace, Sharing!Step
<1>6. ASSUME NEW w \in Sharers, Sharing!WriteSource(w)
      PROVE  SharingInv'
  <2> DEFINE a == attempt[w]
  <2>1. /\ IsAttempt(a, Shared) /\ a.at = "write" /\ a.space \in WorkRoot /\ UNCHANGED orphans
        /\ a.video \in Shared /\ spaces[a.space] \in Contents(Shared)
    BY <1>1, <1>6 DEF Sharing!WriteSource, IsAttempt, SpacesInv, SpacesAssumption
  <2>2. CASE UNCHANGED spaces /\ attempt' = [attempt EXCEPT ![w] = Sharing!Closing(a, TRUE)]
    BY <1>1, <2>1, <2>2, SpaceStays, SharingClosing DEF SharingInv
  <2>3. CASE /\ spaces' = [spaces EXCEPT ![a.space].source = a.video.id]
             /\ attempt' = [attempt EXCEPT ![w] = [a EXCEPT !.at = "tool"]]
    <3> DEFINE held == [spaces[a.space] EXCEPT !.source = a.video.id]
               new == [a EXCEPT !.at = "tool"]
    <3>1. IsAttempt(new, Shared) /\ new.space = a.space
      <4> HIDE DEF a
      <4> QED
        BY <2>1 DEF IsAttempt, AttemptFields
    <3>2. held \in Contents(Shared)
      BY <2>1 DEF Contents
    <3>3. spaces' = [spaces EXCEPT ![new.space] = held] /\ new.space # Null
      BY <1>1, <2>1, <2>3, <3>1 DEF SpacesAssumption
    <3> HIDE DEF new, held
    <3> QED
      BY <1>1, <2>1, <2>3, <3>1, <3>2, <3>3, SpaceFills DEF SharingInv, new
  <2> QED
    BY <1>6, <2>2, <2>3 DEF Sharing!WriteSource, Sharing!Step
<1>7. ASSUME NEW w \in Sharers, Sharing!ToolFails(w) \/ Sharing!ProbeAnswers(w) \/ Sharing!ListSpace(w)
      PROVE  SharingInv'
  <2> DEFINE a == attempt[w]
  <2>1. IsAttempt(a, Shared) /\ a.at = "tool" /\ UNCHANGED <<spaces, orphans>>
    BY <1>1, <1>7 DEF Sharing!ToolFails, Sharing!ProbeAnswers, Sharing!ListSpace
  <2>2. PICK failed : attempt' = [attempt EXCEPT ![w] = Sharing!Closing(a, failed)]
    BY <1>7 DEF Sharing!ToolFails, Sharing!ProbeAnswers, Sharing!ListSpace, Sharing!Step
  <2> QED
    BY <1>1, <2>1, <2>2, SpaceStays, SharingClosing DEF SharingInv
<1>8. ASSUME NEW w \in Sharers, Sharing!ExtractFrame(w)
      PROVE  SharingInv'
  <2> DEFINE a == attempt[w]
             item == Sharing!NextItem(a)
             held == [spaces[a.space] EXCEPT !.frames = @ \cup {item.no}]
             more == [a EXCEPT !.frames = Append(@, Sharing!Frame(a.video, item))]
  <2>1. /\ IsAttempt(a, Shared) /\ a.at = "tool" /\ a.space \in WorkRoot /\ UNCHANGED orphans
        /\ spaces[a.space] \in Contents(Shared) /\ a.space # Null
    BY <1>1, <1>8 DEF Sharing!ExtractFrame, IsAttempt, SpacesInv, SpacesAssumption
  <2>2. item.no \in 0 .. 3
    <3> DEFINE d == a.video.inspection.duration
               n == Len(a.frames) + 1
    <3>1. n \in DOMAIN Sharing!Plan(d) /\ item = Sharing!Plan(d)[n]
      BY <1>8 DEF Sharing!ExtractFrame, Sharing!NextItem
    <3> HIDE DEF d, n, item
    <3>2. DOMAIN Sharing!Plan(d) # {} /\ d \in 1 .. 6
      <4>1. DOMAIN << >> = {}
        OBVIOUS
      <4> QED
        BY <3>1, <4>1 DEF Sharing!Plan
    <3>3. Sharing!Plan(d) = [i \in {m \in 1 .. 3 : (m - 1) * 2 < d} |-> [no |-> i - 1, at |-> (i - 1) * 2]]
      BY <3>2 DEF Sharing!Plan
    <3>4. n \in 1 .. 3 /\ item.no = n - 1
      BY <3>1, <3>3
    <3> QED
      BY <3>4
  <2>3. held \in Contents(Shared)
    BY <2>1, <2>2 DEF Contents
  <2>4. IsAttempt(more, Shared) /\ more.space = a.space
    <3> HIDE DEF a, item
    <3> QED
      BY <2>1 DEF IsAttempt, AttemptFields
  <2>5. IsAttempt(Sharing!Closing(a, TRUE), Shared) /\ Sharing!Closing(a, TRUE).space = a.space
    BY <2>1, SharingClosing
  <2>6. \/ UNCHANGED spaces
        \/ spaces' = [spaces EXCEPT ![a.space] = held]
    BY <1>8 DEF Sharing!ExtractFrame
  <2>7. \/ attempt' = [attempt EXCEPT ![w] = more]
        \/ attempt' = [attempt EXCEPT ![w] = Sharing!Closing(a, TRUE)]
    BY <1>8 DEF Sharing!ExtractFrame, Sharing!Step
  <2>8. PICK new : IsAttempt(new, Shared) /\ new.space = a.space /\ attempt' = [attempt EXCEPT ![w] = new]
    BY <2>4, <2>5, <2>7
  <2> HIDE DEF item, held, more
  <2> QED
    BY <1>1, <2>1, <2>3, <2>6, <2>8, SpaceStays, SpaceFills DEF SharingInv
<1>9. ASSUME NEW w \in Sharers, Sharing!CloseSpace(w)
      PROVE  SharingInv'
  <2> DEFINE a == attempt[w]
  <2>1. /\ IsAttempt(a, Shared) /\ a.at = "close" /\ a.space \in WorkRoot /\ UNCHANGED orphans
        /\ spaces' = [spaces EXCEPT ![a.space] = Null]
    BY <1>1, <1>9 DEF Sharing!CloseSpace, IsAttempt
  <2>2. \E verified \in BOOLEAN : attempt' = [attempt EXCEPT ![w] = Sharing!AfterSpace(a, verified)]
    BY <1>9 DEF Sharing!CloseSpace, Sharing!Step
  <2> QED
    BY <1>1, <2>1, <2>2, SpaceCloses, SharingAfterSpace DEF SharingInv
<1>10. ASSUME NEW w \in Sharers, Sharing!CloseFails(w)
       PROVE  SharingInv'
  <2> DEFINE a == attempt[w]
  <2>1. /\ IsAttempt(a, Shared) /\ a.at = "close" /\ UNCHANGED spaces
        /\ orphans' = orphans \cup {a.space}
    BY <1>1, <1>10 DEF Sharing!CloseFails
  <2>2. \/ attempt' = [attempt EXCEPT ![w] = Sharing!AfterSpace(a, TRUE)]
        \/ \E code : attempt' = [attempt EXCEPT ![w] = Sharing!Answered(a, code, Null)]
    BY <1>10 DEF Sharing!CloseFails, Sharing!Step
  <2>3. CASE attempt' = [attempt EXCEPT ![w] = Sharing!AfterSpace(a, TRUE)]
    BY <1>1, <2>1, <2>3, SpaceIsLeft, SharingAfterSpace DEF SharingInv
  <2>4. CASE \E code : attempt' = [attempt EXCEPT ![w] = Sharing!Answered(a, code, Null)]
    <3>1. PICK code : attempt' = [attempt EXCEPT ![w] = Sharing!Answered(a, code, Null)]
      BY <2>4
    <3> QED
      BY <1>1, <2>1, <3>1, SpaceIsLeft, SharingAnswered DEF SharingInv
  <2> QED
    BY <2>2, <2>3, <2>4
<1>11. CASE Sharing!Crash
  <2>1. /\ attempt' = [w \in Sharers |-> Sharing!Idle] /\ UNCHANGED spaces
        /\ orphans' = orphans \cup ({attempt[w].space : w \in Sharers} \ {Null})
    BY <1>11 DEF Sharing!Crash, Sharers
  <2> QED
    BY <1>1, <2>1, SharingIdleIsAttempt, WorkersDie DEF SharingInv
<1> QED
  BY <1>2, <1>3, <1>4, <1>5, <1>6, <1>7, <1>8, <1>9, <1>10, <1>11 DEF Sharing!VideoNext, Sharers, Shared

LEMMA SharingBelong ==
  ASSUME SharingInv
  PROVE  Sharing!SpacesBelongToWork
  BY DEF SharingInv, SpacesInv, WorkRoot, Sharers, Sharing!SpacesBelongToWork

-----------------------------------------------------------------------------
(* What the parts have in common: a step is of the part that runs, and the *)
(* variables of the other parts rest.                                      *)
LEMMA StepIsOfThePart ==
  ASSUME Next
  PROVE  /\ OthersRest
         /\ part = "turns" => Guided!TurnsNext
         /\ part = "confirmations" => Confirmed!ConfirmationsNext
         /\ part = "tokens" => Rates!TokensNext
         /\ part = "counters" => Rates!CountersNext
         /\ part = "talk" => Real!TalkNext
         /\ part = "accounts" => Auth!AccountsNext
         /\ part = "pipeline" => Pipeline!PipelineNext
         /\ part = "golden" => Golden!GoldenNext
         /\ part = "live" => Paid!LiveNext
         /\ part = "disk" => Disk!RuntimeNext
         /\ part = "store" => Store!RuntimeNext
         /\ part = "memory" => Memory!MemoryNext
         /\ part = "lan" => Lan!LanNext
         /\ part = "front" => Fronting!LanNext
         /\ part = "video" => Framing!VideoNext
         /\ part = "sharing" => Sharing!VideoNext
         /\ part = "intake" => Taking!IntakeNext
         /\ part = "records" => Cases!RecordsNext
  BY DEF Next, TurnsPart, ConfirmationsPart, TokensPart, CountersPart, TalkPart,
         AccountsPart, PipelinePart, GoldenPart, LivePart, HomePart, LatePart, DiskPart,
         StorePart, PrecheckPart, MemoryPart, ShellPart, CardsPart, LanPart, FrontPart,
         AnswersPart, RiskPart, VideoPart, SharingPart, IntakePart, RecordsPart

-----------------------------------------------------------------------------
(* The invariants of the services, each while its part runs.              *)
AccountsPartInv == part = "accounts" => AccountsInv
RecordsPartInv == part = "records" => RecordsInv
StorePartInv == part = "store" => StoreInv /\ StoreRuns /\ LateIsAfter
LivePartInv == part = "live" => LiveInv
TalkPartInv == part = "talk" => TalkInv
GuidedPartInv == part = "turns" => GuidedInv /\ MarksInv
ConfirmedPartInv == part = "confirmations" => ConfirmedInv
PipelinePartInv == part = "pipeline" => PipelineInv
GoldenPartInv == part = "golden" => GoldenInv
DiskPartInv == part = "disk" => DiskInv
LanPartInv == part = "lan" => LanInv
FrontPartInv == part = "front" => FrontsInv
VideoPartInv == part = "video" => FramingInv
SharingPartInv == part = "sharing" => SharingInv
IntakePartInv == part = "intake" => IntakeInv

LEMMA AccountsPartStarts ==
  ASSUME Init
  PROVE  AccountsPartInv
  BY AccountsStart, PartsAssumption DEF Init, AccountsPartInv

LEMMA AccountsPartKeeps ==
  ASSUME AccountsPartInv, [Next]_vars
  PROVE  AccountsPartInv' /\ (part = "accounts" => AccountsInv /\ [Auth!AccountsNext]_accountsVars)
<1>1. CASE UNCHANGED vars
  <2>1. UNCHANGED <<part, accountsVars>>
    BY <1>1 DEF vars
  <2> QED
    BY <2>1, AccountsKeep, PartsAssumption DEF AccountsPartInv
<1>2. CASE Next
  <2>1. UNCHANGED part
    BY <1>2, StepIsOfThePart DEF OthersRest
  <2> QED
    BY <1>2, <2>1, StepIsOfThePart, AccountsKeep, PartsAssumption DEF AccountsPartInv
<1> QED
  BY <1>1, <1>2

(* A password reset takes hold, and only the last code of an account works *)
(* (completePasswordReset, and the unique digests of the challenges): in   *)
(* every state of the services, for any users, passwords, codes and number *)
(* of calls under way.                                                     *)
THEOREM ResetsTakeHold == Spec => []AccountsHold
<1>1. Init => AccountsPartInv
  BY AccountsPartStarts
<1>2. AccountsPartInv /\ [Next]_vars => AccountsPartInv'
  BY AccountsPartKeeps
<1>3. AccountsPartInv => AccountsHold
  BY ResetsHold DEF AccountsPartInv, AccountsHold
<1> QED
  BY <1>1, <1>2, <1>3, PTL DEF Spec

(* Reverifying replaces a session that can still be used by one session:   *)
(* no step of the services makes a second one of it.                       *)
THEOREM ReverifyHandsOn == Spec => Auth!SessionIsHandedOn
<1>1. Init => AccountsPartInv
  BY AccountsPartStarts
<1>2. AccountsPartInv /\ [Next]_vars => AccountsPartInv'
  BY AccountsPartKeeps
<1>3. AccountsPartInv /\ [Next]_vars => [HandedOn]_(Auth!accountsVars)
  <2> SUFFICES ASSUME AccountsPartInv, [Next]_vars, ~UNCHANGED Auth!accountsVars
               PROVE  HandedOn
    OBVIOUS
  <2>1. part = "accounts"
    BY StepIsOfThePart DEF OthersRest, vars, accountsVars, Auth!accountsVars
  <2> QED
    BY <2>1, AccountsPartKeeps, SessionsAreHandedOn, PartsAssumption
<1> QED
  BY <1>1, <1>2, <1>3, PTL DEF Spec, HandedOn, Auth!SessionIsHandedOn

-----------------------------------------------------------------------------
LEMMA RecordsPartStarts ==
  ASSUME Init
  PROVE  RecordsPartInv
  BY RecordsStart, PartsAssumption DEF Init, RecordsPartInv, PartsAssumption

LEMMA RecordsPartKeeps ==
  ASSUME RecordsPartInv, [Next]_vars
  PROVE  RecordsPartInv'
<1>1. part' = part /\ (part = "records" => [Cases!RecordsNext]_recordsVars)
  BY StepIsOfThePart DEF OthersRest, vars
<1> QED
  BY <1>1, RecordsKeep, PartsAssumption DEF RecordsPartInv, PartsAssumption

LEMMA StorePartStarts ==
  ASSUME Init
  PROVE  StorePartInv
  BY StoreStarts, StoreRunsStart DEF Init, StorePartInv

LEMMA StorePartKeeps ==
  ASSUME StorePartInv, [Next]_vars
  PROVE  StorePartInv'
<1>1. part' = part /\ (part = "store" => [Store!RuntimeNext]_runtimeVars)
  BY StepIsOfThePart DEF OthersRest, vars
<1>2. StoreInv => rootMarker \in {"none", "torn", "whole"}
  BY DEF StoreInv, StoreTyped
<1> QED
  BY <1>1, <1>2, StoreKeeps, StoreRunsKeep, LateKeeps DEF StorePartInv

LEMMA LivePartStarts ==
  ASSUME Paid!LiveAnalysisAssumption, Init
  PROVE  LivePartInv
  BY LiveStarts DEF Init, LivePartInv

LEMMA LivePartKeeps ==
  ASSUME Paid!LiveAnalysisAssumption, LivePartInv, [Next]_vars
  PROVE  LivePartInv'
<1>1. part' = part /\ (part = "live" => [Paid!LiveNext]_liveVars)
  BY StepIsOfThePart DEF OthersRest, vars
<1> QED
  BY <1>1, LiveKeeps DEF LivePartInv

LEMMA TalkPartStarts ==
  ASSUME Real!RealConversationAssumption, Init
  PROVE  TalkPartInv
  BY TalkStarts DEF Init, TalkPartInv

LEMMA TalkPartKeeps ==
  ASSUME Real!RealConversationAssumption, TalkPartInv, [Next]_vars
  PROVE  TalkPartInv'
<1>1. part' = part /\ (part = "talk" => [Real!TalkNext]_<<now, talkVars>>)
  BY StepIsOfThePart DEF OthersRest, vars
<1> QED
  BY <1>1, TalkKeeps DEF TalkPartInv

(* The listing of a case is the page its owner was last shown, added once, *)
(* at the revision for which it was offered.                               *)
THEOREM ListingsAreAsOffered == Spec => Real!ListingIsAsOffered
<1>1. Init => TalkPartInv
  BY PartsAssumption, TalkPartStarts
<1>2. TalkPartInv /\ [Next]_vars => TalkPartInv'
  BY PartsAssumption, TalkPartKeeps
<1>3. TalkPartInv /\ [Next]_vars => [AddedAsOffered]_(Real!talkVars)
  <2> SUFFICES ASSUME TalkPartInv, [Next]_vars PROVE [AddedAsOffered]_(Real!talkVars)
    OBVIOUS
  <2>1. CASE UNCHANGED Real!talkVars
    BY <2>1
  <2>2. CASE ~UNCHANGED Real!talkVars
    <3>1. part = "talk" /\ [Real!TalkNext]_<<now, talkVars>>
      BY <2>2, StepIsOfThePart DEF OthersRest, vars, talkVars, Real!talkVars
    <3> QED
      BY <3>1, ListingsAreAdded DEF TalkPartInv
  <2> QED
    BY <2>1, <2>2
<1> QED
  BY <1>1, <1>2, <1>3, PTL DEF Spec, Real!ListingIsAsOffered, AddedAsOffered

LEMMA GuidedPartStarts ==
  ASSUME Guided!TurnsAssumption, Init
  PROVE  GuidedPartInv
  BY GuidedStarts, MarksStart DEF Init, GuidedPartInv

LEMMA GuidedPartKeeps ==
  ASSUME Guided!TurnsAssumption, Guided!StoreOptionsAssumption, GuidedPartInv, [Next]_vars
  PROVE  GuidedPartInv'
<1>1. part' = part /\ (part = "turns" => [Guided!TurnsNext]_<<now, turnsVars>>)
  BY StepIsOfThePart DEF OthersRest, vars
<1> QED
  BY <1>1, GuidedAndMarksKeep DEF GuidedPartInv

-----------------------------------------------------------------------------
(* What is asked twice is answered once: by the turns of both              *)
(* conversations and by the live analysis, and no two saves of a case are  *)
(* at one revision.                                                        *)
THEOREM AnswersAreOne == Spec => []OneAnswer
<1> DEFINE AnswersInv == /\ GuidedPartInv /\ TalkPartInv /\ LivePartInv
                         /\ StorePartInv /\ RecordsPartInv
<1>1. Init => AnswersInv
  BY PartsAssumption, GuidedPartStarts, TalkPartStarts, LivePartStarts, StorePartStarts,
     RecordsPartStarts
<1>2. AnswersInv /\ [Next]_vars => AnswersInv'
  BY PartsAssumption, GuidedPartKeeps, TalkPartKeeps, LivePartKeeps, StorePartKeeps,
     RecordsPartKeeps
<1>3. AnswersInv => OneAnswer
  <2>1. GuidedInv => Guided!OneAnswerPerKey /\ Guided!OneTurnPerAck
    BY PartsAssumption, GuidedAnswersAreOne DEF GuidedInv, AcksAreSpent, Guided!OneTurnPerAck
  <2>2. TalkInv => Real!OneReplyPerKey
    BY RepliesAreOne
  <2>3. LiveInv => Paid!ResultsArePaidOnce
    BY PartsAssumption, ResultsArePaid
  <2>4. StoreInv => Store!OneSavePerRevision
    BY RevisionsAreSavedOnce
  <2>5. RecordsInv => Cases!SavesBuildOnEachOther
    BY RecordsAreKept
  <2> QED
    BY <2>1, <2>2, <2>3, <2>4, <2>5
       DEF GuidedPartInv, TalkPartInv, LivePartInv, StorePartInv, RecordsPartInv, OneAnswer
<1> QED
  BY <1>1, <1>2, <1>3, PTL DEF Spec

-----------------------------------------------------------------------------
LEMMA ConfirmedPartStarts ==
  ASSUME Init
  PROVE  ConfirmedPartInv
  BY ConfirmedStarts DEF Init, ConfirmedPartInv

LEMMA ConfirmedPartKeeps ==
  ASSUME ConfirmedPartInv, [Next]_vars
  PROVE  ConfirmedPartInv'
<1>1. part' = part /\ (part = "confirmations" => [Confirmed!ConfirmationsNext]_<<now, confirmationsVars>>)
  BY StepIsOfThePart DEF OthersRest, vars
<1> QED
  BY <1>1, ConfirmedKeeps DEF ConfirmedPartInv

(* A case changes only as its owner confirmed: the effect of a             *)
(* confirmation that was offered for just the state the case was in, and   *)
(* that no click used before.                                              *)
THEOREM ChangesAreAsConfirmed == Spec => Confirmed!CaseChangesAsConfirmed
<1>1. Init => ConfirmedPartInv
  BY ConfirmedPartStarts
<1>2. ConfirmedPartInv /\ [Next]_vars => ConfirmedPartInv'
  BY ConfirmedPartKeeps
<1>3. ConfirmedPartInv /\ [Next]_vars => [AppliedAsConfirmed]_(Confirmed!confirmationsVars)
  <2> SUFFICES ASSUME ConfirmedPartInv, [Next]_vars
               PROVE  [AppliedAsConfirmed]_(Confirmed!confirmationsVars)
    OBVIOUS
  <2>1. CASE UNCHANGED Confirmed!confirmationsVars
    BY <2>1
  <2>2. CASE ~UNCHANGED Confirmed!confirmationsVars
    <3>1. /\ part = "confirmations"
          /\ [Confirmed!ConfirmationsNext]_<<now, confirmationsVars>>
      BY <2>2, StepIsOfThePart
         DEF OthersRest, vars, confirmationsVars, Confirmed!confirmationsVars
    <3> QED
      BY <3>1, ChangesAreConfirmed DEF ConfirmedPartInv
  <2> QED
    BY <2>1, <2>2
<1> QED
  BY <1>1, <1>2, <1>3, PTL DEF Spec, Confirmed!CaseChangesAsConfirmed, AppliedAsConfirmed

-----------------------------------------------------------------------------
LEMMA PipelinePartStarts ==
  ASSUME Init
  PROVE  PipelinePartInv
  BY PipelineStarts DEF Init, PipelinePartInv

LEMMA PipelinePartKeeps ==
  ASSUME Pipeline!PipelineAssumption, PipelinePartInv, [Next]_vars
  PROVE  PipelinePartInv'
<1>1. part' = part /\ (part = "pipeline" => [Pipeline!PipelineNext]_pipelineVars)
  BY StepIsOfThePart DEF OthersRest, vars
<1> QED
  BY <1>1, PipelineKeeps DEF PipelinePartInv

LEMMA GoldenPartStarts ==
  ASSUME Init
  PROVE  GoldenPartInv
  BY GoldenStarts DEF Init, GoldenPartInv

LEMMA GoldenPartKeeps ==
  ASSUME GoldenPartInv, [Next]_vars
  PROVE  GoldenPartInv'
<1>1. part' = part /\ (part = "golden" => [Golden!GoldenNext]_goldenVars)
  BY StepIsOfThePart DEF OthersRest, vars
<1> QED
  BY <1>1, GoldenKeeps DEF GoldenPartInv

LEMMA DiskPartStarts ==
  ASSUME Init
  PROVE  DiskPartInv
  BY DiskStarts DEF Init, DiskPartInv

LEMMA DiskPartKeeps ==
  ASSUME DiskPartInv, [Next]_vars
  PROVE  DiskPartInv'
<1>1. part' = part /\ (part = "disk" => [Disk!RuntimeNext]_runtimeVars)
  BY StepIsOfThePart DEF OthersRest, vars
<1> QED
  BY <1>1, DiskKeeps DEF DiskPartInv

LEMMA LanPartStarts ==
  ASSUME Init
  PROVE  LanPartInv
  BY LanStarts DEF Init, LanPartInv

LEMMA LanPartKeeps ==
  ASSUME LanPartInv, [Next]_vars
  PROVE  LanPartInv'
<1>1. part' = part /\ (part = "lan" => [Lan!LanNext]_lanVars)
  BY StepIsOfThePart DEF OthersRest, vars
<1> QED
  BY <1>1, LanKeeps DEF LanPartInv

LEMMA FrontPartStarts ==
  ASSUME Fronting!SecureLanAssumption, Init
  PROVE  FrontPartInv
  BY FrontsStart DEF Init, FrontPartInv

LEMMA FrontPartKeeps ==
  ASSUME Fronting!SecureLanAssumption, FrontPartInv, [Next]_vars
  PROVE  FrontPartInv'
<1>1. part' = part /\ (part = "front" => [Fronting!LanNext]_lanVars)
  BY StepIsOfThePart DEF OthersRest, vars
<1> QED
  BY <1>1, FrontsKeep DEF FrontPartInv

LEMMA VideoPartStarts ==
  ASSUME Init
  PROVE  VideoPartInv
  BY FramingStarts DEF Init, VideoPartInv

LEMMA VideoPartKeeps ==
  ASSUME Framing!VideoAssumption, VideoPartInv, [Next]_vars
  PROVE  VideoPartInv'
<1>1. part' = part /\ (part = "video" => [Framing!VideoNext]_videoVars)
  BY StepIsOfThePart DEF OthersRest, vars
<1> QED
  BY <1>1, FramingKeeps DEF VideoPartInv

LEMMA SharingPartStarts ==
  ASSUME Init
  PROVE  SharingPartInv
  BY SharingStarts DEF Init, SharingPartInv

LEMMA SharingPartKeeps ==
  ASSUME Sharing!VideoAssumption, SharingPartInv, [Next]_vars
  PROVE  SharingPartInv'
<1>1. part' = part /\ (part = "sharing" => [Sharing!VideoNext]_videoVars)
  BY StepIsOfThePart DEF OthersRest, vars
<1> QED
  BY <1>1, SharingKeeps DEF SharingPartInv

LEMMA IntakePartStarts ==
  ASSUME Init
  PROVE  IntakePartInv
  BY IntakeStarts DEF Init, IntakePartInv

LEMMA IntakePartKeeps ==
  ASSUME IntakePartInv, [Next]_vars
  PROVE  IntakePartInv'
<1>1. part' = part /\ (part = "intake" => [Taking!IntakeNext]_intakeVars)
  BY StepIsOfThePart DEF OthersRest, vars
<1> QED
  BY <1>1, IntakeKeeps DEF IntakePartInv

-----------------------------------------------------------------------------
(* The queue in memory: JobQueueProofs with the values of this instance.   *)
Queue == INSTANCE JobQueueProofs WITH
  records <- jobs, index <- keyIndex, leases <- jobLeases, clock <- now, MaxClock <- MaxTime,
  JobIds <- Tabs, Workers <- {"w"}, Requests <- JobRequests,
  MaxRecords <- 2, MaxRunning <- 1, MaxAttempts <- 2, LeaseMs <- 1, RetryDelayMs <- 1,
  TerminalRetentionMs <- 1, MaxClaims <- 2, ClaimTypes <- {}, Skew <- 0

(* The constants of this instance are such as the proofs of the queue ask. *)
LEMMA QueueFits ==
  /\ Queue!QueueOptionsAssumption /\ Queue!ClockAssumption
  /\ Queue!Memory!MemoryAssumption
  BY ServicesAssumption
     DEF ServicesAssumption, Memory!MemoryAssumption, Memory!QueueOptionsAssumption,
         Queue!QueueOptionsAssumption, Queue!ClockAssumption, Queue!Memory!MemoryAssumption,
         Queue!Memory!QueueOptionsAssumption

(* The instance of the queue that is part of the services is the one that *)
(* the proofs are about.                                                   *)
LEMMA QueueInitIs == Memory!MemoryInit => Queue!Memory!MemoryInit
  BY DEF Queue!Memory!MemoryInit, Memory!MemoryInit, Queue!Memory!Empty, Memory!Empty

LEMMA QueueStepIs == Memory!MemoryNext => Queue!Memory!MemoryNext
<1>k. Memory!Kept = Queue!Memory!Kept /\ Memory!IndexKept = Queue!Memory!IndexKept
  BY DEF Memory!Kept, Queue!Memory!Kept, Memory!IndexKept, Queue!Memory!IndexKept,
         Memory!Without, Queue!Memory!Without,
         Memory!Maintained, Queue!Memory!Maintained, Memory!RetentionOver,
         Queue!Memory!RetentionOver, Memory!IsTerminal, Queue!Memory!IsTerminal,
         Memory!LeaseExpired, Queue!Memory!LeaseExpired, Memory!Reclaimed,
         Queue!Memory!Reclaimed, Memory!Unleased, Queue!Memory!Unleased
<1>c. \A S : Memory!Cardinality(S) = Queue!Memory!Cardinality(S)
  BY DEF Memory!Cardinality, Queue!Memory!Cardinality, Memory!IsFiniteSet, Queue!Memory!IsFiniteSet
<1>1. \A q, id : Memory!Enqueue(q, id) => Queue!Memory!Enqueue(q, id)
  BY <1>k, <1>c DEF Memory!Enqueue, Queue!Memory!Enqueue, Memory!NewRecord, Queue!Memory!NewRecord
<1>m. \A rs, t : Memory!Maintained(rs, t) = Queue!Memory!Maintained(rs, t)
  BY DEF Memory!Maintained, Queue!Memory!Maintained, Memory!RetentionOver,
         Queue!Memory!RetentionOver, Memory!IsTerminal, Queue!Memory!IsTerminal,
         Memory!LeaseExpired, Queue!Memory!LeaseExpired, Memory!Reclaimed,
         Queue!Memory!Reclaimed, Memory!Unleased, Queue!Memory!Unleased
<1>2. \A w, types : Memory!ClaimJob(w, types) => Queue!Memory!ClaimJob(w, types)
  <2>1. \A rs, t, types : Memory!Candidates(rs, t, types) = Queue!Memory!Candidates(rs, t, types)
    BY <1>c DEF Memory!Candidates, Queue!Memory!Candidates, Memory!Claimable,
       Queue!Memory!Claimable, Memory!IdleCase, Queue!Memory!IdleCase, Memory!RunningJobs,
       Queue!Memory!RunningJobs, Memory!Before, Queue!Memory!Before
  <2>2. \A rs, t, id, w, l : Memory!AfterClaim(rs, t, id, w, l) = Queue!Memory!AfterClaim(rs, t, id, w, l)
    BY <1>m DEF Memory!AfterClaim, Queue!Memory!AfterClaim, Memory!Leased, Queue!Memory!Leased
  <2> QED
    BY <1>k, <2>1, <2>2 DEF Memory!ClaimJob, Queue!Memory!ClaimJob
<1>h. \A ss, c : Memory!HoldsLease(ss, c) <=> Queue!Memory!HoldsLease(ss, c)
  BY DEF Memory!HoldsLease, Queue!Memory!HoldsLease
<1>f. \A r, t, retryable :
        /\ Memory!Completed(r, t) = Queue!Memory!Completed(r, t)
        /\ Memory!Failed(r, t, retryable) = Queue!Memory!Failed(r, t, retryable)
  BY DEF Memory!Completed, Queue!Memory!Completed, Memory!Failed, Queue!Memory!Failed,
         Memory!Unleased, Queue!Memory!Unleased
<1>3. \A c, retryable :
        /\ Memory!Complete(c) => Queue!Memory!Complete(c)
        /\ Memory!Fail(c, retryable) => Queue!Memory!Fail(c, retryable)
  <2>1. \A rs, t, c : Memory!AfterComplete(rs, t, c) = Queue!Memory!AfterComplete(rs, t, c)
    BY <1>m, <1>h, <1>f DEF Memory!AfterComplete, Queue!Memory!AfterComplete
  <2>2. \A rs, t, c, retryable :
          Memory!AfterFail(rs, t, c, retryable) = Queue!Memory!AfterFail(rs, t, c, retryable)
    BY <1>m, <1>h, <1>f DEF Memory!AfterFail, Queue!Memory!AfterFail
  <2> QED
    BY <1>k, <2>1, <2>2 DEF Memory!Complete, Queue!Memory!Complete, Memory!Fail, Queue!Memory!Fail,
       Memory!Finish, Queue!Memory!Finish
<1>4. Memory!Time => Queue!Memory!Time
  BY DEF Memory!Time, Queue!Memory!Time
<1> QED
  BY <1>1, <1>2, <1>3, <1>4 DEF Memory!MemoryNext, Queue!Memory!MemoryNext

LEMMA QueueLivesIs == Queue!Memory!MemoryLife!Next => Memory!MemoryLife!Next
  BY DEF Queue!Memory!MemoryLife!Next, Memory!MemoryLife!Next,
     Queue!Memory!MemoryLife!Move, Queue!Memory!MemoryLife!Stay, Queue!Memory!MemoryLife!Submit,
     Queue!Memory!MemoryLife!Grant, Queue!Memory!MemoryLife!Requeue, Queue!Memory!MemoryLife!Succeed,
     Queue!Memory!MemoryLife!HeldByWorker, Queue!Memory!MemoryLife!Break, Queue!Memory!MemoryLife!Cancel,
     Queue!Memory!MemoryLife!Forget,
     Memory!MemoryLife!Move, Memory!MemoryLife!Stay, Memory!MemoryLife!Submit,
     Memory!MemoryLife!Grant, Memory!MemoryLife!Requeue, Memory!MemoryLife!Succeed,
     Memory!MemoryLife!HeldByWorker, Memory!MemoryLife!Break, Memory!MemoryLife!Cancel,
     Memory!MemoryLife!Forget

MemoryPartInv == part = "memory" => Queue!MemoryInv

LEMMA MemoryPartStarts ==
  ASSUME Init
  PROVE  MemoryPartInv
  BY QueueFits, QueueInitIs, Queue!MemoryStarts DEF Init, MemoryPartInv

LEMMA MemoryPartKeeps ==
  ASSUME MemoryPartInv, [Next]_vars
  PROVE  MemoryPartInv' /\ [Memory!MemoryLife!Next]_(Memory!MemoryLife!vars)
<1>1. part' = part /\ (part = "memory" => [Memory!MemoryNext]_<<now, memoryVars>>)
  BY StepIsOfThePart DEF OthersRest, vars
<1>2. CASE part = "memory"
  <2>1. Queue!MemoryInv /\ [Queue!Memory!MemoryNext]_(Queue!Memory!memoryVars)
    BY <1>1, <1>2, QueueStepIs DEF MemoryPartInv, memoryVars, Queue!Memory!memoryVars
  <2>2. Queue!MemoryInv'
    BY <2>1, QueueFits, Queue!MemoryStep
  <2>3. Queue!Memory!MemoryLife!Next
    BY <2>1, QueueFits, Queue!MemoryLives
  <2> QED
    BY <1>1, <2>2, <2>3, QueueLivesIs DEF MemoryPartInv
<1>3. CASE part # "memory"
  <2>1. UNCHANGED memoryVars
    BY <1>3, StepIsOfThePart DEF OthersRest, vars
  <2>2. UNCHANGED Memory!MemoryLife!vars
    BY <2>1 DEF memoryVars, Memory!MemoryLife!vars
  <2> QED
    BY <1>1, <1>3, <2>2 DEF MemoryPartInv
<1> QED
  BY <1>2, <1>3

(* The life of a job in the memory of the process is that of LeasedJobs.   *)
THEOREM MemoryJobsLive == Spec => Memory!MemoryLifeSpec
<1>1. Init => MemoryPartInv /\ Memory!MemoryLife!Init
  <2>1. Init => Memory!MemoryLife!Init
    BY DEF Init, Memory!MemoryInit, Memory!Empty, Memory!MemoryLife!Init
  <2> QED
    BY <2>1, MemoryPartStarts
<1>2. MemoryPartInv /\ [Next]_vars
        => MemoryPartInv' /\ [Memory!MemoryLife!Next]_(Memory!MemoryLife!vars)
  BY MemoryPartKeeps
<1> QED
  BY <1>1, <1>2, PTL DEF Spec, Memory!MemoryLifeSpec, Memory!MemoryLife!Spec

(* A case, a listing, a session or a job changes only by the step that its *)
(* owner took for just the state it was in.                                *)
THEOREM StepsAreTheOwners == Spec => StepsAreAuthorized
  BY ChangesAreAsConfirmed, ListingsAreAsOffered, ReverifyHandsOn, MemoryJobsLive
     DEF StepsAreAuthorized

-----------------------------------------------------------------------------
(* Whatever marks work in progress is there exactly while the work runs,  *)
(* on every way out of it: the leases and responses of the turns, the      *)
(* turns and stage keys of a case, the reservation of a live analysis, the *)
(* cleanup lock and the run directories, the rule's result files, the      *)
(* front's port and child, the work directories of the videos, the pages   *)
(* of a document and the marked cases.                                     *)
THEOREM MarksAreOfTheWork == Spec => []MarksFollowWork
<1> DEFINE WorkInv == /\ GuidedPartInv /\ TalkPartInv /\ PipelinePartInv /\ GoldenPartInv
                      /\ LivePartInv /\ DiskPartInv /\ StorePartInv /\ LanPartInv
                      /\ FrontPartInv /\ VideoPartInv /\ SharingPartInv /\ IntakePartInv
                      /\ RecordsPartInv
<1>1. Init => WorkInv
  <2>1. Init => /\ GuidedPartInv /\ TalkPartInv /\ PipelinePartInv /\ GoldenPartInv
                /\ LivePartInv /\ DiskPartInv /\ StorePartInv
    BY PartsAssumption, GuidedPartStarts, TalkPartStarts, PipelinePartStarts, GoldenPartStarts,
       LivePartStarts, DiskPartStarts, StorePartStarts
  <2>2. Init => /\ LanPartInv /\ FrontPartInv /\ VideoPartInv /\ SharingPartInv
                /\ IntakePartInv /\ RecordsPartInv
    BY PartsAssumption, LanPartStarts, FrontPartStarts, VideoPartStarts, SharingPartStarts,
       IntakePartStarts, RecordsPartStarts
  <2> QED
    BY <2>1, <2>2
<1>2. WorkInv /\ [Next]_vars => WorkInv'
  <2> SUFFICES ASSUME WorkInv, [Next]_vars PROVE WorkInv'
    OBVIOUS
  <2>1. GuidedPartInv' /\ TalkPartInv' /\ PipelinePartInv' /\ LivePartInv'
    BY PartsAssumption, GuidedPartKeeps, TalkPartKeeps, PipelinePartKeeps, LivePartKeeps
  <2>2. GoldenPartInv' /\ DiskPartInv' /\ StorePartInv' /\ LanPartInv' /\ IntakePartInv'
    BY GoldenPartKeeps, DiskPartKeeps, StorePartKeeps, LanPartKeeps, IntakePartKeeps
  <2>3. FrontPartInv' /\ VideoPartInv' /\ SharingPartInv' /\ RecordsPartInv'
    BY PartsAssumption, ServicesAssumption, FrontPartKeeps, VideoPartKeeps, SharingPartKeeps,
       RecordsPartKeeps
  <2> QED
    BY <2>1, <2>2, <2>3
<1>3. WorkInv => MarksFollowWork
  <2>1. GuidedInv /\ MarksInv => Guided!LeaseIsTheCall /\ Guided!StoresAgree
    BY LeasesAreTheCalls, MarksAgree
  <2>2. TalkInv => Real!TurnHoldsItsCase
    BY TurnHolds
  <2>3. PipelineInv => Pipeline!KeyIsWorkedOnOnce
    BY KeysAreWorkedOnOnce
  <2>4. GoldenInv => Golden!UploadsKeepTheCase
    BY DEF GoldenInv, Golden!UploadsKeepTheCase
  <2>5. LiveInv => Paid!RunHoldsItsReservation
    BY RunHolds
  <2>6. DiskInv => Disk!LockIsTheCleanup /\ Disk!RunInUseIsKept /\ Disk!LeftoversAreOwned
    BY DiskIsKept
  <2>7. StoreInv /\ StoreRuns /\ LateIsAfter => Store!RunInUseIsKept
    BY StoreRunIsKept
  <2>8. (LanInv => Lan!ResultsAreRemoved) /\ (FrontsInv => Fronting!FrontsEndCleanly)
    BY ResultsGo, FrontsEnd
  <2>9. /\ FramingInv => Framing!SpacesBelongToWork
        /\ SharingInv => Sharing!SpacesBelongToWork
    BY FramingBelong, SharingBelong
  <2>10. (IntakeInv => Taking!PdfIsClosed) /\ (RecordsInv => Cases!DeletionIsMarked)
    BY PdfCloses, RecordsAreKept
  <2> QED
    BY <2>1, <2>2, <2>3, <2>4, <2>5, <2>6, <2>7, <2>8, <2>9, <2>10
       DEF GuidedPartInv, TalkPartInv, PipelinePartInv, GoldenPartInv, LivePartInv, DiskPartInv,
           StorePartInv, LanPartInv, FrontPartInv, VideoPartInv, SharingPartInv, IntakePartInv,
           RecordsPartInv, MarksFollowWork
<1> QED
  BY <1>1, <1>2, <1>3, PTL DEF Spec
===============================================================================
