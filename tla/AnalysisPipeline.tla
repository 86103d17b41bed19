-------------------------- MODULE AnalysisPipeline --------------------------
(* StageOrchestrator over InMemoryPipelineRepository: runs of one case go  *)
(* through the four stages, reuse what a stage with the same key has       *)
(* produced, and commit a snapshot of the four results.  What a run does   *)
(* between two awaits is one action.                                       *)
EXTENDS Maps, Naturals, Sequences

CONSTANTS
  None,
  Runs,              \* calls of analyze, numbered as they begin
  Commands,          \* inputs of the four stages: input, configuration and mode, as hashed
  Outputs,           \* output hashes
  MaxRevision

PipelineAssumption ==
  /\ Runs \subseteq Nat
  /\ \A inputs \in Commands : Len(inputs) = 4
  /\ MaxRevision \in Nat /\ None \notin Outputs

VARIABLES
  run,               \* run[r]: the call r and where it is
  revision,          \* #caseRevisions of the case
  activeKeys,        \* #activeStageKeys
  attempts,          \* #attemptsByKey
  stageRuns,         \* #successfulByKey
  snapshot           \* #activeSnapshots of the case

pipelineVars == <<run, revision, activeKeys, attempts, stageRuns, snapshot>>

Stages == <<"listing", "evidence", "contract", "report">>

PipelineInit ==
  /\ run = [r \in Runs |-> [pc |-> "unsent"]]
  /\ revision = 0
  /\ activeKeys = {}
  /\ attempts = << >>
  /\ stageRuns = << >>
  /\ snapshot = None

-----------------------------------------------------------------------------
(* Every stage depends on the one before (PIPELINE_STAGE_DEPENDENCIES).    *)
Dependency(heads) == IF heads = << >> THEN None ELSE heads[Len(heads)].output

\* FAULT: the key forgets what the stage depends on.
KeyOfInput(inputs, heads) ==
  [stage |-> Len(heads) + 1, input |-> inputs[Len(heads) + 1], dependency |-> None]

(* createStageKey of the stage after heads.                                *)
StageKey(inputs, heads) ==
  [stage |-> Len(heads) + 1, input |-> inputs[Len(heads) + 1], dependency |-> Dependency(heads)]

Begins(r) == run[r].pc = "unsent" /\ \A q \in Runs : q < r => run[q].pc # "unsent"

(* The gates and the revision; a run that is not refused is stored.        *)
Analyze(r, inputs, base) ==
  /\ Begins(r)
  /\ run' = [run EXCEPT ![r] =
       IF base = revision
       THEN [pc |-> "claim", inputs |-> inputs, base |-> base, heads |-> << >>]
       ELSE [pc |-> "refused"]]
  /\ UNCHANGED <<revision, activeKeys, attempts, stageRuns, snapshot>>

GatesReject(r) ==
  /\ Begins(r)
  /\ run' = [run EXCEPT ![r] = [pc |-> "refused"]]
  /\ UNCHANGED <<revision, activeKeys, attempts, stageRuns, snapshot>>

(* The next stage: the result of the last one is among the heads.          *)
WithHead(r, stageRun) ==
  LET heads == Append(run[r].heads, stageRun) IN
  [run[r] EXCEPT !.heads = heads, !.pc = IF Len(heads) = Len(Stages) THEN "commit" ELSE "claim"]

ClaimStageKey(r) ==
  LET key == StageKey(run[r].inputs, run[r].heads) IN
  /\ run[r].pc = "claim"
  /\ IF key \in DOMAIN stageRuns
     THEN run' = [run EXCEPT ![r] = WithHead(r, stageRuns[key])] /\ UNCHANGED <<activeKeys, attempts>>
     ELSE IF key \in activeKeys
     THEN run' = [run EXCEPT ![r].pc = "failed"] /\ UNCHANGED <<activeKeys, attempts>>
     ELSE /\ activeKeys' = activeKeys \cup {key}
          /\ attempts' = Put(attempts, key, 1 + IF key \in DOMAIN attempts THEN attempts[key] ELSE 0)
          /\ run' = [run EXCEPT ![r] =
               [pc |-> "execute", inputs |-> @.inputs, base |-> @.base, heads |-> @.heads, key |-> key]]
  /\ UNCHANGED <<revision, stageRuns, snapshot>>

(* The executor answers, fails or throws, and the result is stored; a      *)
(* failed one only in the log of stage runs.                               *)
AppendStageRun(r, output) ==
  /\ run[r].pc = "execute"
  /\ stageRuns' = IF output = None THEN stageRuns
                  ELSE Put(stageRuns, run[r].key,
                         [input |-> run[r].inputs[Len(run[r].heads) + 1],
                          from |-> Dependency(run[r].heads), output |-> output])
  /\ run' = [run EXCEPT ![r].pc = "release"]
  /\ UNCHANGED <<revision, activeKeys, attempts, snapshot>>

(* A result that the schemas of the stage run or its provenance refuse     *)
(* (more than 100 source references: the stage's own and those of its      *)
(* dependency) is thrown, and nothing is released.                         *)
StageThrows(r) ==
  /\ run[r].pc = "execute"
  /\ run' = [run EXCEPT ![r].pc = "threw"]
  /\ UNCHANGED <<revision, activeKeys, attempts, stageRuns, snapshot>>

\* FAULT: the key stays taken when the stage has failed.
KeysAfterSuccess(r) ==
  IF run[r].key \in DOMAIN stageRuns THEN activeKeys \ {run[r].key} ELSE activeKeys

KeysAfter(r) == activeKeys \ {run[r].key}

ReleaseStageKey(r) ==
  /\ run[r].pc = "release"
  /\ activeKeys' = KeysAfter(r)
  /\ run' = [run EXCEPT ![r] =
       IF run[r].key \in DOMAIN stageRuns THEN WithHead(r, stageRuns[run[r].key])
       ELSE [@ EXCEPT !.pc = "failed"]]
  /\ UNCHANGED <<revision, attempts, stageRuns, snapshot>>

CommitSnapshot(r) ==
  /\ run[r].pc = "commit"
  /\ IF revision = run[r].base
     THEN /\ snapshot' = [base |-> run[r].base, inputs |-> run[r].inputs, heads |-> run[r].heads]
          /\ run' = [run EXCEPT ![r].pc = "succeeded"]
     ELSE run' = [run EXCEPT ![r].pc = "failed"] /\ UNCHANGED snapshot
  /\ UNCHANGED <<revision, activeKeys, attempts, stageRuns>>

(* The source references of the four stages together are more than 100.    *)
SnapshotThrows(r) ==
  /\ run[r].pc = "commit"
  /\ run' = [run EXCEPT ![r].pc = "threw"]
  /\ UNCHANGED <<revision, activeKeys, attempts, stageRuns, snapshot>>

SetCaseRevision ==
  /\ revision < MaxRevision
  /\ revision' = revision + 1
  /\ UNCHANGED <<run, activeKeys, attempts, stageRuns, snapshot>>

-----------------------------------------------------------------------------
PipelineNext ==
  \/ \E r \in Runs, inputs \in Commands, base \in 0 .. MaxRevision :
       Analyze(r, inputs, base)
  \/ \E r \in Runs : GatesReject(r) \/ ClaimStageKey(r) \/ StageThrows(r)
  \/ \E r \in Runs, output \in Outputs \cup {None} : AppendStageRun(r, output)
  \/ \E r \in Runs : ReleaseStageKey(r) \/ CommitSnapshot(r) \/ SnapshotThrows(r)
  \/ SetCaseRevision

PipelineSpec == PipelineInit /\ [][PipelineNext]_pipelineVars

-----------------------------------------------------------------------------
PipelineTypeOK ==
  /\ \A r \in Runs : run[r].pc \in
       {"unsent", "refused", "claim", "execute", "release", "commit", "succeeded", "failed", "threw"}
  /\ revision \in 0 .. MaxRevision
  /\ activeKeys \subseteq DOMAIN attempts
  /\ DOMAIN stageRuns \subseteq DOMAIN attempts

Executing == {r \in Runs : run[r].pc \in {"execute", "release"}}

(* A key is worked on by one run at a time, never again once it has        *)
(* succeeded, and stays taken for good only after a throw.                 *)
KeyIsWorkedOnOnce ==
  /\ \A r, q \in Executing : run[r].key = run[q].key => r = q
  /\ \A r \in Runs : run[r].pc = "execute" => run[r].key \notin DOMAIN stageRuns
  /\ activeKeys =
       {run[r].key : r \in Executing \cup
          {q \in Runs : run[q].pc = "threw" /\ Len(run[q].heads) < Len(Stages)}}

(* The four results of a snapshot hang together: each was made from the    *)
(* run's own input and from the very result of the stage before, also when *)
(* other runs made them, long ago or meanwhile.                            *)
SnapshotHangsTogether ==
  snapshot # None =>
    \A s \in DOMAIN Stages :
      /\ snapshot.heads[s].input = snapshot.inputs[s]
      /\ s > 1 => snapshot.heads[s].from = snapshot.heads[s - 1].output
=============================================================================
