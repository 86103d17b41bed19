--------------------------- MODULE WindowsRuntime ---------------------------
(* The JSON runtime on Windows: every process that serves keeps its cases  *)
(* in a run directory of its own below one root, and removes what earlier  *)
(* processes left there when it starts (and a formal demo when it stops).  *)
(* Paths, volumes and reparse points are taken to pass the policy.         *)
EXTENDS Naturals, FiniteSets

CONSTANTS
  Processes,   \* numbered as they start; each has at most one run directory
  Pids,        \* process ids; one is given again when its process is gone
  Savers,      \* calls that create or save the case
  Mishaps      \* of {"crash", "error"}: one of these may happen, once

RuntimeAssumption ==
  /\ Processes \subseteq Nat
  /\ Cardinality(Pids) > 1
  /\ Mishaps \subseteq {"crash", "error"}

VARIABLES
  rootMarker,  \* "none", "torn" or "whole"
  lockFile,    \* the file of the cleanup lock exists
  dirs,        \* process -> [files, status, aged, revision] on the disk
  proc,        \* process -> [pc, kind, pid, status, todo, target, tree]
  save,        \* saver -> [pc, by, base]
  blame        \* history: the mishaps so far, and a save that came late

runtimeVars == <<rootMarker, lockFile, dirs, proc, save, blame>>

RuntimeInit ==
  /\ rootMarker = "none"
  /\ lockFile = FALSE
  /\ dirs = << >>
  /\ proc = [p \in Processes |-> [pc |-> "new"]]
  /\ save = [w \in Savers |-> [pc |-> "idle"]]
  /\ blame = {}

Alive(p) == proc[p].pc \notin {"new", "gone"}
PidAlive(pid) == \E p \in Processes : Alive(p) /\ proc[p].pid = pid
Goes(p, pc) ==
  proc' = [proc EXCEPT ![p] = [@ EXCEPT !.pc = pc, !.target = p, !.tree = {}]]

(* A cleanup belongs to a start until the process has made its run.        *)
Starting(p) == proc[p].status = "none"

-----------------------------------------------------------------------------
(* ensureRootMarker: a marker that cannot be read refuses the start.       *)
Start(p, kind, pid) ==
  /\ proc[p].pc = "new" /\ \A q \in Processes : q < p => proc[q].pc # "new"
  /\ ~PidAlive(pid)
  /\ proc' = [proc EXCEPT ![p] =
       [pc |-> [none |-> "root", torn |-> "gone", whole |-> "lock"][rootMarker],
        kind |-> kind, pid |-> pid, status |-> "none",
        todo |-> {}, target |-> p, tree |-> {}]]
  /\ rootMarker' = IF rootMarker = "none" THEN "torn" ELSE rootMarker
  /\ UNCHANGED <<lockFile, dirs, save, blame>>

WriteRootMarker(p) ==
  /\ proc[p].pc = "root"
  /\ rootMarker' = "whole"
  /\ Goes(p, "lock")
  /\ UNCHANGED <<lockFile, dirs, save, blame>>

NoCleanup(p) == Goes(p, IF Starting(p) THEN "gone" ELSE "stopped")

\* FAULT: the lock file is opened even if it exists.
TakeLockAnyway(p) ==
  /\ proc[p].pc = "lock"
  /\ lockFile' = TRUE
  /\ proc' = [proc EXCEPT ![p].pc = "clean", ![p].todo = DOMAIN dirs]
  /\ UNCHANGED <<rootMarker, dirs, save, blame>>

TakeLock(p) ==
  /\ proc[p].pc = "lock"
  /\ lockFile' = TRUE
  /\ IF lockFile THEN NoCleanup(p)
     ELSE proc' = [proc EXCEPT ![p].pc = "clean", ![p].todo = DOMAIN dirs]
  /\ UNCHANGED <<rootMarker, dirs, save, blame>>

Owned(d) == {"marker", "manifest"} \subseteq dirs[d].files

\* FAULT: a run in use expires like any other.
ExpiresUnseen(p, d) ==
  \/ proc[d].kind = "development" /\ Starting(p) /\ dirs[d].aged
  \/ proc[d].kind = "formal_demo" /\ dirs[d].status # "active"

(* The manifest's process is looked up once; a run that is in use is       *)
(* either not expired or refused by validateCleanupTarget.                 *)
Expires(p, d) ==
  /\ ~(dirs[d].status = "active" /\ PidAlive(proc[d].pid))
  /\ \/ proc[d].kind = "development" /\ Starting(p) /\ dirs[d].aged
     \/ proc[d].kind = "formal_demo"

Examine(p, d) ==
  /\ proc[p].pc = "clean" /\ d \in proc[p].todo
  /\ proc' = [proc EXCEPT ![p] =
       IF d \in DOMAIN dirs /\ Owned(d) /\ Expires(p, d)
       THEN [@ EXCEPT !.todo = proc[p].todo \ {d}, !.pc = "collect", !.target = d]
       ELSE [@ EXCEPT !.todo = proc[p].todo \ {d}]]
  /\ UNCHANGED <<rootMarker, lockFile, dirs, save, blame>>

(* collectSafeTree: what to unlink, ...                                    *)
CollectTree(p) ==
  /\ proc[p].pc = "collect"
  /\ IF proc[p].target \in DOMAIN dirs
     THEN proc' = [proc EXCEPT ![p].pc = "remove",
                               ![p].tree = dirs[proc[p].target].files \cup {"directory"}]
     ELSE Goes(p, "clean")
  /\ UNCHANGED <<rootMarker, lockFile, dirs, save, blame>>

First(order, entries) ==
  order[CHOOSE i \in DOMAIN order :
          order[i] \in entries /\ \A j \in 1 .. i - 1 : order[j] \notin entries]

(* ... children before their directory.                                    *)
Removal == <<"manifest", "marker", "doc", "state", "directory">>

(* Entries that must not be there when an entry is removed.                *)
Inside(entry) == CASE entry = "state" -> {"doc"}
                   [] entry = "directory" -> {"manifest", "marker", "doc", "state"}
                   [] OTHER -> {}

(* One unlink or rmdir; when it fails the rest of this tree stays.         *)
RemoveEntry(p) ==
  LET d == proc[p].target
      entry == First(Removal, proc[p].tree)
      works == /\ d \in DOMAIN dirs
               /\ entry \in dirs[d].files \cup {"directory"}
               /\ Inside(entry) \cap dirs[d].files = {}
  IN
  /\ proc[p].pc = "remove"
  /\ IF ~works THEN UNCHANGED dirs
     ELSE IF entry = "directory" THEN dirs' = [q \in DOMAIN dirs \ {d} |-> dirs[q]]
     ELSE dirs' = [dirs EXCEPT ![d].files = @ \ {entry}]
  /\ IF works /\ entry # "directory"
     THEN proc' = [proc EXCEPT ![p].tree = @ \ {entry}]
     ELSE Goes(p, "clean")
  /\ UNCHANGED <<rootMarker, lockFile, save, blame>>

Unlock(p) ==
  /\ proc[p].pc = "clean" /\ proc[p].todo = {}
  /\ lockFile' = FALSE
  /\ Goes(p, IF Starting(p) THEN "make" ELSE "stopped")
  /\ UNCHANGED <<rootMarker, dirs, save, blame>>

-----------------------------------------------------------------------------
Control == <<"marker", "manifest", "state">>
Missing(p) == {"marker", "manifest", "state"} \ dirs[p].files

(* createWindowsRuntimeRun: the directory, then its files one by one.      *)
MakeRun(p) ==
  /\ proc[p].pc = "make"
  /\ IF p \notin DOMAIN dirs
     THEN /\ dirs' = [q \in DOMAIN dirs \cup {p} |->
            IF q = p THEN [files |-> {}, status |-> "active", aged |-> FALSE, revision |-> 0]
            ELSE dirs[q]]
          /\ UNCHANGED proc
     ELSE IF Missing(p) # {}
     THEN dirs' = [dirs EXCEPT ![p].files = @ \cup {First(Control, Missing(p))}] /\ UNCHANGED proc
     ELSE UNCHANGED dirs /\ proc' = [proc EXCEPT ![p].pc = "serve", ![p].status = "active"]
  /\ UNCHANGED <<rootMarker, lockFile, save, blame>>

(* Stopping does not wait for the saves that are under way.                *)
Stop(p) ==
  /\ proc[p].pc = "serve"
  /\ dirs' = [dirs EXCEPT ![p].status = "stopped"]
  /\ proc' = [proc EXCEPT ![p].status = "stopped",
       ![p].pc = IF proc[p].kind = "formal_demo" THEN "lock" ELSE "stopped"]
  /\ UNCHANGED <<rootMarker, lockFile, save, blame>>

-----------------------------------------------------------------------------
Revision(p) == IF p \in DOMAIN dirs /\ "doc" \in dirs[p].files THEN dirs[p].revision ELSE 0
SaveGoes(w, pc) == save' = [save EXCEPT ![w].pc = pc]

(* create (revision 0 is no file) and saveAtomic read the case first ...   *)
ReadCase(w, p) ==
  /\ save[w].pc = "idle" /\ proc[p].pc = "serve"
  /\ save' = [save EXCEPT ![w] = [pc |-> "compare", by |-> p, base |-> Revision(p)]]
  /\ UNCHANGED <<rootMarker, lockFile, dirs, proc, blame>>

KeyLocked(p) == \E w \in Savers : save[w].pc \in {"mkdir", "rename", "touch"} /\ save[w].by = p

\* FAULT: the text is compared outside of the key's lock.
CompareUnlocked(w) ==
  /\ save[w].pc = "compare"
  /\ SaveGoes(w, IF Revision(save[w].by) = save[w].base THEN "mkdir" ELSE "conflict")
  /\ UNCHANGED <<rootMarker, lockFile, dirs, proc, blame>>

(* ... and compare it under the lock of its key, which a process keeps in  *)
(* its memory, with what is stored then.                                   *)
Compare(w) ==
  /\ save[w].pc = "compare" /\ ~KeyLocked(save[w].by)
  /\ SaveGoes(w, IF Revision(save[w].by) = save[w].base THEN "mkdir" ELSE "conflict")
  /\ UNCHANGED <<rootMarker, lockFile, dirs, proc, blame>>

Late(p) == blame' = IF proc[p].pc = "serve" THEN blame ELSE blame \cup {"late"}

(* mkdir is recursive: it makes a run directory that was removed again.    *)
MakeStateDirectory(w) ==
  LET p == save[w].by IN
  /\ save[w].pc = "mkdir"
  /\ dirs' = [q \in DOMAIN dirs \cup {p} |->
       IF q # p THEN dirs[q]
       ELSE IF p \in DOMAIN dirs THEN [dirs[p] EXCEPT !.files = @ \cup {"state"}]
       ELSE [files |-> {"state"}, status |-> proc[p].status, aged |-> FALSE, revision |-> 0]]
  /\ Late(p)
  /\ SaveGoes(w, "rename")
  /\ UNCHANGED <<rootMarker, lockFile, proc>>

RenameIntoPlace(w) ==
  LET p == save[w].by IN
  /\ save[w].pc = "rename"
  /\ IF p \in DOMAIN dirs /\ "state" \in dirs[p].files
     THEN /\ dirs' = [dirs EXCEPT ![p].files = @ \cup {"doc"}, ![p].revision = save[w].base + 1]
          /\ SaveGoes(w, "touch")
     ELSE UNCHANGED dirs /\ SaveGoes(w, "failed")
  /\ Late(p)
  /\ UNCHANGED <<rootMarker, lockFile, proc>>

(* touch writes the whole manifest again, also where there is none.        *)
Touch(w) ==
  LET p == save[w].by IN
  /\ save[w].pc = "touch"
  /\ IF p \in DOMAIN dirs
     THEN /\ dirs' = [dirs EXCEPT ![p].files = @ \cup {"manifest"},
                                  ![p].status = proc[p].status, ![p].aged = FALSE]
          /\ SaveGoes(w, "saved")
     ELSE UNCHANGED dirs /\ SaveGoes(w, "failed")
  /\ Late(p)
  /\ UNCHANGED <<rootMarker, lockFile, proc>>

-----------------------------------------------------------------------------
(* A development run was not written to for seven days.                    *)
Age(d) ==
  /\ d \in DOMAIN dirs /\ proc[d].kind = "development" /\ ~dirs[d].aged
  /\ dirs' = [dirs EXCEPT ![d].aged = TRUE]
  /\ UNCHANGED <<rootMarker, lockFile, proc, save, blame>>

Ended(p) ==
  /\ proc' = [proc EXCEPT ![p].pc = "gone", ![p].todo = {}, ![p].target = p, ![p].tree = {}]
  /\ save' = [w \in Savers |->
       IF save[w].pc \in {"compare", "mkdir", "rename", "touch"} /\ save[w].by = p
       THEN [save[w] EXCEPT !.pc = "lost"] ELSE save[w]]

Exit(p) == proc[p].pc = "stopped" /\ Ended(p) /\ UNCHANGED <<rootMarker, lockFile, dirs, blame>>

Crash(p) ==
  /\ "crash" \in Mishaps /\ blame \cap Mishaps = {}
  /\ Alive(p) /\ Ended(p)
  /\ blame' = blame \cup {"crash"}
  /\ UNCHANGED <<rootMarker, lockFile, dirs>>

Errs == "error" \in Mishaps /\ blame \cap Mishaps = {} /\ blame' = blame \cup {"error"} /\ UNCHANGED save

(* The lock file is open but cannot be written, or closed but not removed. *)
LockBreaks(p) ==
  /\ Errs
  /\ \/ proc[p].pc = "lock" /\ ~lockFile /\ lockFile' = TRUE /\ NoCleanup(p)
     \/ /\ proc[p].pc = "clean" /\ proc[p].todo = {} /\ UNCHANGED lockFile
        /\ Goes(p, IF Starting(p) THEN "make" ELSE "stopped")
  /\ UNCHANGED <<rootMarker, dirs>>

RemovalBreaks(p) ==
  /\ Errs
  /\ proc[p].pc = "remove" /\ Goes(p, "clean")
  /\ UNCHANGED <<rootMarker, lockFile, dirs>>

(* A start that fails takes back the run it was making, not its marker.    *)
StartBreaks(p) ==
  /\ Errs
  /\ proc[p].pc \in {"root", "make"} /\ Goes(p, "gone")
  /\ dirs' = [q \in DOMAIN dirs \ {p} |-> dirs[q]]
  /\ UNCHANGED <<rootMarker, lockFile>>

RuntimeNext ==
  \/ \E p \in Processes, kind \in {"development", "formal_demo"}, pid \in Pids : Start(p, kind, pid)
  \/ \E p \in Processes :
       \/ WriteRootMarker(p) \/ TakeLock(p) \/ CollectTree(p) \/ RemoveEntry(p) \/ Unlock(p)
       \/ MakeRun(p) \/ Stop(p) \/ Exit(p) \/ Crash(p)
       \/ LockBreaks(p) \/ RemovalBreaks(p) \/ StartBreaks(p) \/ Age(p)
  \/ \E p, d \in Processes : Examine(p, d)
  \/ \E w \in Savers, p \in Processes : ReadCase(w, p)
  \/ \E w \in Savers : Compare(w) \/ MakeStateDirectory(w) \/ RenameIntoPlace(w) \/ Touch(w)

-----------------------------------------------------------------------------
RuntimeTypeOK ==
  /\ rootMarker \in {"none", "torn", "whole"} /\ lockFile \in BOOLEAN
  /\ DOMAIN dirs \subseteq Processes
  /\ \A d \in DOMAIN dirs :
       /\ dirs[d].files \subseteq {"marker", "manifest", "state", "doc"}
       /\ dirs[d].status \in {"active", "stopped"}
       /\ dirs[d].revision \in 0 .. Cardinality(Savers)
  /\ \A p \in Processes : proc[p].pc \in
       {"new", "root", "lock", "clean", "collect", "remove", "make", "serve", "stopped", "gone"}
  /\ \A w \in Savers : save[w].pc \in
       {"idle", "compare", "mkdir", "rename", "touch", "saved", "conflict", "failed", "lost"}

Cleaning(p) == proc[p].pc \in {"clean", "collect", "remove"}

(* One process cleans at a time, and the lock outlives it only if it died  *)
(* or could not write or remove its file.                                  *)
LockIsTheCleanup ==
  /\ \A p, q \in Processes : Cleaning(p) /\ Cleaning(q) => p = q
  /\ (\E p \in Processes : Cleaning(p)) => lockFile
  /\ lockFile /\ ~(\E p \in Processes : Cleaning(p)) => blame \cap {"crash", "error"} # {}

(* No cleanup touches the run of a process that serves, nor a case that    *)
(* this process said it saved.                                             *)
RunInUseIsKept ==
  /\ \A p \in Processes : proc[p].pc = "serve" =>
       /\ p \in DOMAIN dirs /\ {"marker", "manifest", "state"} \subseteq dirs[p].files
       /\ dirs[p].status = "active"
  /\ \A w \in Savers : save[w].pc = "saved" /\ proc[save[w].by].pc = "serve" =>
       Revision(save[w].by) > save[w].base

(* What a process leaves behind carries its marker and its manifest, so    *)
(* that a later start can remove it, unless a crash, an error or a save    *)
(* that came after the stop spoilt it.                                     *)
LeftoversAreOwned ==
  blame = {} =>
    \A d \in DOMAIN dirs : ~Alive(d) \/ proc[d].pc = "stopped" =>
      \/ Owned(d)
      \/ \E p \in Processes : proc[p].pc = "remove" /\ proc[p].target = d

(* Of the calls that found a case at one revision, one saves it (but the   *)
(* removed case of a stopped demo can be made again by a late call).       *)
OneSavePerRevision ==
  "late" \in blame \/ \A w, v \in Savers :
    /\ save[w].pc = "saved" /\ save[v].pc = "saved"
    /\ save[w].by = save[v].by /\ save[w].base = save[v].base
    => w = v
=============================================================================
