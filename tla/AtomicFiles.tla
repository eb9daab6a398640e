---------------------------- MODULE AtomicFiles ----------------------------
(***************************************************************************)
(* How the SQL files of the tools reach the disk.  writeFilesAtomic of     *)
(* tools/proto2sql/cmd/proto2sql/main.go replaces several files as one:    *)
(* every file is staged beside its target, every old target is moved to a  *)
(* backup, every staged file is renamed to its target; an error before the *)
(* last rename undoes the batch, an error after it is only reported.       *)
(* dumpSQLFileAtomic of sqlgen.go replaces one file by one rename.         *)
(*                                                                         *)
(* Files are numbered in the order of the batch.  A content is the number  *)
(* of the run that wrote it, 0 for what was there before the first run.    *)
(* Any file operation may fail, and the process may die between two of     *)
(* them; the operator then starts another run.  Temporary and backup files *)
(* have names of their own (os.CreateTemp), so a content names its backup. *)
(***************************************************************************)
EXTENDS Integers

CONSTANTS NumFiles,   \* files of the largest batch
          MaxRuns     \* bound: runs of a tool

ASSUME NumFilesAssumption == NumFiles \in Nat \ {0}

Files == 1..NumFiles
NoFile == -1

VARIABLES
  target,      \* disk: what file i holds
  tmp,         \* disk: the temporary file this run made for file i is there
  saved,       \* disk: what the backup files of file i hold, of all runs
  debris,      \* disk: this run left an empty backup file, or a temporary one it forgot
  run,         \* the run's number
  tool,        \* "batch" (writeFilesAtomic) or "dump" (dumpSQLFileAtomic)
  count,       \* len(files)
  step,        \* what the run does next
  k,           \* the loop's index
  staged,      \* len(staged)
  backup,      \* staged[i].backup, by what it holds; NoFile is ""
  installed,   \* staged[i].new
  failed,      \* the run reports an error that is no committedCleanupError
  undoFailed,  \* that error says the rollback failed too
  cleanFailed, \* a committedCleanupError
  before,      \* history: the targets when the run started
  committed    \* history: the last content the tools reported as written, by file

disk == <<target, tmp, saved, debris>>
memory == <<staged, backup, installed, failed, undoFailed, cleanFailed>>
about == <<run, tool, count, before>>
filesVars == <<disk, memory, about, step, k, committed>>

Batch == 1..count
Ended == {"idle", "done", "crashed"}

FilesInit ==
  /\ target \in [Files -> {NoFile, 0}]
  /\ tmp = [i \in Files |-> FALSE]
  /\ saved = [i \in Files |-> {}]
  /\ debris = FALSE
  /\ run = 0
  /\ tool = "batch"
  /\ count = NumFiles
  /\ step = "idle"
  /\ k = 1
  /\ staged = 0
  /\ backup = [i \in Files |-> NoFile]
  /\ installed = [i \in Files |-> FALSE]
  /\ failed = FALSE
  /\ undoFailed = FALSE
  /\ cleanFailed = FALSE
  /\ before = target
  /\ committed = target

\* The next index, or the next loop once the indices 1..last are done.
Advance(last, next) ==
  IF k < last THEN k' = k + 1 /\ step' = step ELSE k' = 1 /\ step' = next

\* The return of an error: the deferred removal of the staged files is what is left.
Fail(next, index) == failed' = TRUE /\ step' = next /\ k' = index

StartRun(t, n) ==
  /\ step \in Ended
  /\ run < MaxRuns
  /\ t = "dump" => n = 1
  /\ run' = run + 1
  /\ tool' = t
  /\ count' = n
  /\ step' = "stage"
  /\ k' = 1
  /\ tmp' = [i \in Files |-> FALSE]
  /\ debris' = FALSE
  /\ staged' = 0
  /\ backup' = [i \in Files |-> NoFile]
  /\ installed' = [i \in Files |-> FALSE]
  /\ failed' = FALSE
  /\ undoFailed' = FALSE
  /\ cleanFailed' = FALSE
  /\ before' = target
  /\ UNCHANGED <<target, saved, committed>>
-----------------------------------------------------------------------------
\* stageFile: create, write, close, chmod.
StageFile ==
  /\ step = "stage"
  /\ tmp' = [tmp EXCEPT ![k] = TRUE]
  /\ staged' = staged + 1
  /\ Advance(count, IF tool = "dump" THEN "replace" ELSE "backup")
  /\ UNCHANGED <<target, saved, debris, backup, installed, failed, undoFailed, cleanFailed,
                 about, committed>>

\* stageFile removes its own temporary file; a failure of that is not looked at.
StageFails ==
  /\ step = "stage"
  /\ debris' \in BOOLEAN
  /\ Fail("sweep", 1)
  /\ UNCHANGED <<target, tmp, saved, staged, backup, installed, undoFailed, cleanFailed,
                 about, committed>>

\* os.Lstat says NotExist.
NothingToBackUp ==
  /\ step = "backup"
  /\ target[k] = NoFile
  /\ Advance(count, "install")
  /\ UNCHANGED <<disk, memory, about, committed>>

MutantBackUpTarget ==
  /\ step = "backup"
  /\ target[k] # NoFile
  /\ saved' = [saved EXCEPT ![k] = @ \cup {target[k]}]
  /\ UNCHANGED backup
  /\ target' = [target EXCEPT ![k] = NoFile]
  /\ Advance(count, "install")
  /\ UNCHANGED <<tmp, debris, staged, installed, failed, undoFailed, cleanFailed, about,
                 committed>>

\* backupTarget: the rename onto the placeholder moves the old content.
BackUpTarget ==
  /\ step = "backup"
  /\ target[k] # NoFile
  /\ saved' = [saved EXCEPT ![k] = @ \cup {target[k]}]
  /\ backup' = [backup EXCEPT ![k] = target[k]]
  /\ target' = [target EXCEPT ![k] = NoFile]
  /\ Advance(count, "install")
  /\ UNCHANGED <<tmp, debris, staged, installed, failed, undoFailed, cleanFailed, about,
                 committed>>

\* Lstat fails, or backupTarget, which removes its placeholder as best it can.
BackUpFails ==
  /\ step = "backup"
  /\ debris' \in BOOLEAN
  /\ Fail("remove new", 1)
  /\ UNCHANGED <<target, tmp, saved, staged, backup, installed, undoFailed, cleanFailed,
                 about, committed>>

\* The rename of the last file is the commit point.
InstallFile ==
  /\ step = "install"
  /\ target' = [target EXCEPT ![k] = run]
  /\ tmp' = [tmp EXCEPT ![k] = FALSE]
  /\ installed' = [installed EXCEPT ![k] = TRUE]
  /\ committed' = IF k = count
                    THEN [i \in Files |-> IF i \in Batch THEN run ELSE committed[i]]
                    ELSE committed
  /\ Advance(count, "clean")
  /\ UNCHANGED <<saved, debris, staged, backup, failed, undoFailed, cleanFailed, about>>

InstallFails ==
  /\ step = "install"
  /\ Fail("remove new", 1)
  /\ UNCHANGED <<disk, staged, backup, installed, undoFailed, cleanFailed, about, committed>>

\* dumpSQLFileAtomic: one rename over the old file, nothing to undo.
ReplaceFile ==
  /\ step = "replace"
  /\ target' = [target EXCEPT ![k] = run]
  /\ tmp' = [tmp EXCEPT ![k] = FALSE]
  /\ committed' = [committed EXCEPT ![k] = run]
  /\ step' = "sweep"
  /\ UNCHANGED <<saved, debris, k, memory, about>>

ReplaceFails ==
  /\ step = "replace"
  /\ Fail("sweep", 1)
  /\ UNCHANGED <<disk, staged, backup, installed, undoFailed, cleanFailed, about, committed>>

\* After the commit point: the backups go; one that cannot be removed is a warning.
CleanBackup ==
  /\ step = "clean"
  /\ \/ saved' = [saved EXCEPT ![k] = @ \ {backup[k]}] /\ UNCHANGED cleanFailed
     \/ backup[k] # NoFile /\ cleanFailed' = TRUE /\ UNCHANGED saved
  /\ Advance(count, "sweep")
  /\ UNCHANGED <<target, tmp, debris, staged, backup, installed, failed, undoFailed, about,
                 committed>>
-----------------------------------------------------------------------------
\* rollbackStagedFiles, first loop: remove what this run has installed.
MutantRemoveNew ==
  /\ step = "remove new"
  /\ \/ /\ target' = [target EXCEPT ![k] = NoFile]
        /\ UNCHANGED undoFailed
     \/ installed[k] /\ undoFailed' = TRUE /\ UNCHANGED target
  /\ IF k < staged THEN k' = k + 1 /\ step' = step
                   ELSE k' = staged /\ step' = "restore old"
  /\ UNCHANGED <<tmp, saved, debris, staged, backup, installed, failed, cleanFailed, about,
                 committed>>

RemoveNew ==
  /\ step = "remove new"
  /\ \/ /\ target' = IF installed[k] THEN [target EXCEPT ![k] = NoFile] ELSE target
        /\ UNCHANGED undoFailed
     \/ installed[k] /\ undoFailed' = TRUE /\ UNCHANGED target
  /\ IF k < staged THEN k' = k + 1 /\ step' = step
                   ELSE k' = staged /\ step' = "restore old"
  /\ UNCHANGED <<tmp, saved, debris, staged, backup, installed, failed, cleanFailed, about,
                 committed>>

\* Second loop, backwards: rename every backup back; the rename replaces what is there.
RestoreOld ==
  /\ step = "restore old"
  /\ \/ /\ backup[k] # NoFile
        /\ target' = [target EXCEPT ![k] = backup[k]]
        /\ saved' = [saved EXCEPT ![k] = @ \ {backup[k]}]
        /\ backup' = [backup EXCEPT ![k] = NoFile]
        /\ UNCHANGED undoFailed
     \/ backup[k] # NoFile /\ undoFailed' = TRUE /\ UNCHANGED <<target, saved, backup>>
     \/ backup[k] = NoFile /\ UNCHANGED <<target, saved, backup, undoFailed>>
  /\ IF k > 1 THEN k' = k - 1 /\ step' = step ELSE k' = 1 /\ step' = "sweep"
  /\ UNCHANGED <<tmp, debris, staged, installed, failed, cleanFailed, about, committed>>

\* The deferred removal of the staged files; its errors are dropped.
MutantSweep ==
  /\ step = "sweep"
  /\ tmp' = [i \in Files |-> IF i \in 1..staged /\ ~failed THEN FALSE ELSE tmp[i]]
  /\ step' = "done"
  /\ UNCHANGED <<target, saved, debris, k, memory, about, committed>>

Sweep ==
  /\ step = "sweep"
  /\ \E stuck \in SUBSET {i \in 1..staged : tmp[i]} :
       /\ tmp' = [i \in Files |-> IF i \in 1..staged \ stuck THEN FALSE ELSE tmp[i]]
       /\ debris' = (debris \/ stuck # {})
  /\ step' = "done"
  /\ UNCHANGED <<target, saved, k, memory, about, committed>>

\* The process dies; what it had on the disk stays.
ToolCrash ==
  /\ step \notin Ended
  /\ step' = "crashed"
  /\ UNCHANGED <<disk, memory, about, k, committed>>

FilesNext ==
  \/ \E t \in {"batch", "dump"}, n \in Files : StartRun(t, n)
  \/ StageFile \/ StageFails
  \/ NothingToBackUp \/ BackUpTarget \/ BackUpFails
  \/ InstallFile \/ InstallFails \/ ReplaceFile \/ ReplaceFails
  \/ CleanBackup \/ RemoveNew \/ RestoreOld \/ Sweep
  \/ ToolCrash

FilesSpec == FilesInit /\ [][FilesNext]_filesVars
-----------------------------------------------------------------------------
\* What a run says is so: no error, or only the cleanup warning, and every file of the
\* batch is the new one; an error that does not mention the rollback, and every file is
\* as it was when the run started ("不能提示用户整批写入失败后诱导重试", main.go).
ReportsAreTrue ==
  step = "done" =>
    IF failed THEN undoFailed \/ target = before
              ELSE target = [i \in Files |-> IF i \in Batch THEN run ELSE before[i]]

\* At every moment, between any two file operations and after a crash or a failed rollback,
\* what a tool last reported as written (or the file found there at first) is either at its
\* place or in a backup file, however many runs fail in a row.
NothingWrittenIsLost ==
  \A i \in Files :
    committed[i] # NoFile => target[i] = committed[i] \/ committed[i] \in saved[i]

\* A run that ends leaves the directory as it found it but for the targets, unless the
\* removal of a file failed or it said so: no temporary file, no backup of its own.
NothingIsLeftBehind ==
  step = "done" /\ ~debris /\ ~undoFailed /\ ~cleanFailed =>
    \A i \in Files : ~tmp[i] /\ before[i] \notin saved[i]
=============================================================================
