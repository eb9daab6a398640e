------------------------- MODULE AtomicFiles_proofs -------------------------
(***************************************************************************)
(* The three promises of AtomicFiles, proved for batches of any size, any  *)
(* number of runs, failures and crashes.  The argument: every file is in   *)
(* one of five places (untouched, backed up, new, new and removed again,   *)
(* restored), the step and the loop's index say which; and a content is at *)
(* its target or in a backup, never in both, so what a rename takes away   *)
(* from one is in the other.                                               *)
(***************************************************************************)
EXTENDS AtomicFiles, TLAPS

Contents == Nat \cup {NoFile}

\* Steps of a run that has neither committed nor given up.
Open == {"stage", "backup", "install", "replace", "remove new", "restore old"}
Undo == {"remove new", "restore old"}

Contained ==
  /\ target \in [Files -> Contents]
  /\ saved \in [Files -> SUBSET Nat]
  /\ backup \in [Files -> Contents]
  /\ before \in [Files -> Contents]
  /\ committed \in [Files -> Contents]

Flags == tmp \in [Files -> BOOLEAN] /\ installed \in [Files -> BOOLEAN]

Counters ==
  /\ run \in Nat
  /\ tool \in {"batch", "dump"}
  /\ count \in Files
  /\ k \in Int
  /\ staged \in Int

\* A run's number is new: nothing on the disk has it until the run renames a file.
Numbered ==
  \A i \in Files :
    /\ target[i] <= run
    /\ committed[i] <= run
    /\ \A c \in saved[i] : c <= run
    /\ step \in Open => /\ before[i] < run /\ committed[i] < run
                        /\ \A c \in saved[i] : c < run

\* A content is not at its target and in a backup at once.
InOnePlace == \A i \in Files : target[i] \notin saved[i]

\* Where the loops are.
InBatch == step \in {"stage", "backup", "install", "clean"} \cup Undo => 1 <= k /\ k <= count
StagedSoFar == step = "stage" => staged = k - 1
AllStaged == step \in {"backup", "install", "clean"} \cup Undo => staged = count
SingleFile == step \in {"stage", "replace"} /\ tool = "dump" => count = 1
Replacing == step = "replace" => k = 1 /\ tool = "dump"

Loops == InBatch /\ StagedSoFar /\ AllStaged /\ SingleFile /\ Replacing

\* What the run has said so far.
Verdicts ==
  /\ step \in Undo => failed
  /\ step \in {"stage", "backup", "install", "replace", "clean"} => ~failed /\ ~undoFailed
  /\ step \in Open => ~cleanFailed

Untouched(i) == target[i] = before[i] /\ backup[i] = NoFile /\ ~installed[i]
Kept(i) == backup[i] = before[i] /\ (before[i] # NoFile => before[i] \in saved[i])
Backed(i) == target[i] = NoFile /\ Kept(i) /\ ~installed[i]
New(i) == target[i] = run /\ Kept(i) /\ installed[i]
Removed(i) == target[i] = NoFile /\ Kept(i) /\ installed[i]

WhileStaging == step \in {"stage", "replace"} => \A i \in Files : Untouched(i)

WhileBackingUp ==
  step = "backup" => \A i \in Files : (i < k => Backed(i)) /\ (i >= k => Untouched(i))

WhileInstalling ==
  step = "install" => \A i \in Files : /\ i < k => New(i)
                                       /\ i >= k /\ i <= count => Backed(i)
                                       /\ i > count => Untouched(i)

WhileCleaning ==
  step = "clean" => \A i \in Files :
    /\ i <= count => /\ target[i] = run /\ committed[i] = run /\ backup[i] = before[i]
                     /\ i < k => cleanFailed \/ before[i] \notin saved[i]
    /\ i > count => Untouched(i)

WhileRemoving ==
  step = "remove new" => \A i \in Files :
    /\ Untouched(i) \/ Backed(i) \/ New(i) \/ Removed(i)
    /\ i > count => Untouched(i)
    /\ i < k /\ ~undoFailed => ~New(i)

WhileRestoring ==
  step = "restore old" => \A i \in Files :
    /\ backup[i] # NoFile => /\ backup[i] = before[i] /\ before[i] \in saved[i]
                             /\ target[i] \in {NoFile, run}
    /\ backup[i] = NoFile /\ ~undoFailed => target[i] = before[i]
    /\ i > k /\ ~undoFailed => backup[i] = NoFile

\* What the return of a run will say.
Outcome ==
  step \in {"sweep", "done"} =>
    /\ failed => undoFailed \/ \A i \in Files : target[i] = before[i]
    /\ ~failed => \A i \in Files : target[i] = IF i <= count THEN run ELSE before[i]
    /\ ~undoFailed /\ ~cleanFailed => \A i \in Files : before[i] \notin saved[i]

\* Temporary files belong to what is staged, and go with it.
Temporary ==
  /\ \A i \in Files : tmp[i] => i <= staged
  /\ step = "done" /\ ~debris => \A i \in Files : ~tmp[i]

Places ==
  /\ WhileStaging /\ WhileBackingUp /\ WhileInstalling /\ WhileCleaning
  /\ WhileRemoving /\ WhileRestoring

\* The inductive invariant.
IInv ==
  /\ Contained /\ Flags /\ Counters
  /\ Numbered
  /\ InOnePlace
  /\ Loops
  /\ Verdicts
  /\ Places
  /\ Outcome
  /\ Temporary
  /\ NothingWrittenIsLost
-----------------------------------------------------------------------------
USE NumFilesAssumption
USE DEF Files, NoFile, Contents, Open, Undo, Ended

\* The first state: nothing has been run.
LEMMA InitHolds == FilesInit => IInv
<1> SUFFICES ASSUME FilesInit PROVE IInv
  OBVIOUS
<1> USE DEF FilesInit
<1>0. target \in [Files -> Contents]
  OBVIOUS
<1>1. Contained /\ Counters
  BY <1>0 DEF Contained, Counters
<1>2. Numbered
  BY DEF Numbered
<1>21. Flags
  BY DEF Flags
<1>3. InOnePlace
  BY DEF InOnePlace
<1>4. Loops /\ Verdicts /\ Places
  BY DEF Loops, InBatch, StagedSoFar, AllStaged, SingleFile, Replacing, Verdicts, Places,
         WhileStaging, WhileBackingUp, WhileInstalling, WhileCleaning,
         WhileRemoving, WhileRestoring
<1>5. Outcome /\ Temporary /\ NothingWrittenIsLost
  BY DEF Outcome, Temporary, NothingWrittenIsLost
<1>6. QED
  BY <1>1, <1>2, <1>21, <1>3, <1>4, <1>5 DEF IInv

\* A step that is not of a run changes nothing.
LEMMA StutterKeeps == ASSUME IInv, UNCHANGED filesVars PROVE IInv'
<1> USE DEF filesVars, disk, memory, about
<1>1. Contained' /\ Flags' /\ Counters'
  BY DEF IInv, Contained, Flags, Counters
<1>2. Numbered' /\ InOnePlace' /\ Loops' /\ Verdicts'
  BY DEF IInv, Numbered, InOnePlace, Loops, InBatch, StagedSoFar, AllStaged, SingleFile,
         Replacing, Verdicts
<1>3. Places'
  BY DEF IInv, Places, WhileStaging, WhileBackingUp, WhileInstalling, WhileCleaning,
         WhileRemoving, WhileRestoring, Untouched, Backed, New, Removed, Kept
<1>4. Outcome' /\ Temporary' /\ NothingWrittenIsLost'
  BY DEF IInv, Outcome, Temporary, NothingWrittenIsLost
<1>5. QED
  BY <1>1, <1>2, <1>3, <1>4 DEF IInv
\* The numbers among the variables are numbers.
LEMMA Parts ==
  ASSUME IInv
  PROVE  /\ k \in Int /\ count \in Int /\ staged \in Int /\ run \in Int
         /\ 0 <= run /\ 1 <= count /\ count <= NumFiles
         /\ \A i \in Files : /\ target[i] \in Int /\ backup[i] \in Int /\ before[i] \in Int
                             /\ committed[i] \in Int /\ \A c \in saved[i] : c \in Nat
BY DEF IInv, Counters, Contained

\* A loop goes on, or the next one begins.
LEMMA LoopStays ==
  ASSUME IInv, 1 <= k, k <= count, NEW next, Advance(count, next)
  PROVE  1 <= k' /\ k' <= count
<1>p. k \in Int /\ count \in Int /\ 1 <= count
  BY Parts
<1>r. (k < count /\ k' = k + 1) \/ k' = 1
  BY DEF Advance
<1>s. 1 <= k'
  BY <1>p, <1>r
<1>t. k' <= count
  BY <1>p, <1>r
<1> QED BY <1>s, <1>t

\* A run starts: its number is new, so no file has it yet.
LEMMA StartRunKeeps ==
  ASSUME IInv, NEW t \in {"batch", "dump"}, NEW n \in Files, StartRun(t, n)
  PROVE  IInv'
<1>b. Numbered /\ InOnePlace
  BY DEF IInv
<1>c. /\ step' = "stage" /\ k' = 1 /\ count' = n /\ run' = run + 1
      /\ target' = target /\ saved' = saved /\ committed' = committed /\ before' = target
  BY DEF StartRun
<1>41. InBatch'
  <2>1. 1 <= k' /\ k' <= count'
    BY <1>c
  <2>2. QED
    BY <2>1, Zenon DEF InBatch
<1>61. Numbered'
  <2>1. ASSUME NEW x \in Int, x <= run
        PROVE  x <= run + 1 /\ x < run + 1
    BY Parts, <2>1
  <2>2. ASSUME NEW i \in Files
        PROVE  /\ target'[i] <= run' /\ committed'[i] <= run'
               /\ before'[i] < run' /\ committed'[i] < run'
               /\ \A c \in saved'[i] : c <= run' /\ c < run'
    <3>1. target[i] \in Int /\ committed[i] \in Int
      BY Parts
    <3>2. \A c \in saved[i] : c \in Int
      BY Parts
    <3>3. target[i] <= run /\ committed[i] <= run /\ \A c \in saved[i] : c <= run
      BY <1>b, Zenon DEF Numbered
    <3>4. QED
      BY <1>c, <2>1, <3>1, <3>2, <3>3, Zenon
  <2>3. QED
    BY <2>2, Zenon DEF Numbered
<1>62. InOnePlace'
  BY <1>b, <1>c, Zenon DEF InOnePlace
<1> USE DEF StartRun, IInv
<1>0. k' \in Int
  OBVIOUS
<1>1. Counters'
  BY <1>0 DEF Counters
<1>2. Contained'
  BY DEF Contained
<1>3. Flags'
  BY DEF Flags
<1>4. Loops'
  <2>1. InBatch'
    BY <1>41
  <2>2. StagedSoFar'
    BY DEF StagedSoFar
  <2>3. AllStaged'
    BY DEF AllStaged
  <2>4. SingleFile' /\ Replacing'
    BY DEF SingleFile, Replacing
  <2>5. QED
    BY <2>1, <2>2, <2>3, <2>4 DEF Loops
<1>5. Verdicts'
  BY DEF Verdicts
<1>6. Numbered' /\ InOnePlace'
  BY <1>61, <1>62
<1>7. WhileStaging' /\ WhileBackingUp' /\ WhileInstalling'
  BY DEF WhileStaging, WhileBackingUp, WhileInstalling, Untouched
<1>8. WhileCleaning' /\ WhileRemoving' /\ WhileRestoring' /\ Outcome' /\ NothingWrittenIsLost'
  BY DEF WhileCleaning, WhileRemoving, WhileRestoring, Outcome, NothingWrittenIsLost
<1>12. Temporary'
  BY DEF Temporary
<1>14. QED
  BY <1>1, <1>2, <1>3, <1>4, <1>5, <1>6, <1>7, <1>8, <1>12 DEF Places

\* A staged file is beside its target, which is untouched.
LEMMA StageFileKeeps == ASSUME IInv, StageFile PROVE IInv'
<1>b. InBatch /\ StagedSoFar
  BY DEF IInv, Loops
<1>c. /\ step = "stage" /\ staged' = staged + 1 /\ count' = count
      /\ \/ k < count /\ step' = step
         \/ ~(k < count) /\ (step' = "replace" \/ step' = "backup")
  BY DEF StageFile, Advance, about
<1>d. 1 <= k /\ k <= count
  BY <1>b, <1>c DEF InBatch
<1>41. InBatch'
  <2>1. 1 <= k' /\ k' <= count
    BY <1>d, LoopStays DEF StageFile
  <2>2. QED
    BY <2>1, <1>c, Zenon DEF InBatch
<1>43. AllStaged'
  <2>1. staged = k - 1
    BY <1>b, <1>c DEF StagedSoFar
  <2>2. ~(k < count) => staged + 1 = count
    BY <2>1, <1>d, Parts
  <2>3. CASE k < count
    BY <2>3, <1>c, Zenon DEF AllStaged, Undo
  <2>4. CASE ~(k < count)
    BY <2>4, <2>2, <1>c, Zenon DEF AllStaged
  <2>5. QED
    BY <2>3, <2>4
<1> USE DEF StageFile, Advance, about, IInv
<1>0. k' \in Int
  BY DEF Counters
<1>1. Counters'
  BY <1>0 DEF Counters
<1>2. Contained'
  BY DEF Contained
<1>3. Flags'
  BY DEF Flags
<1>4. Loops'
  <2>1. InBatch'
    BY <1>41
  <2>2. StagedSoFar'
    BY DEF Counters, Loops, StagedSoFar
  <2>3. AllStaged'
    BY <1>43
  <2>4. SingleFile' /\ Replacing'
    BY DEF Loops, SingleFile, Replacing
  <2>5. QED
    BY <2>1, <2>2, <2>3, <2>4 DEF Loops
<1>5. Verdicts'
  BY DEF Verdicts
<1>6. Numbered' /\ InOnePlace'
  BY <1>1 DEF Numbered, InOnePlace
<1>7. WhileStaging' /\ WhileBackingUp' /\ WhileInstalling'
  BY DEF Places, WhileStaging, WhileBackingUp, WhileInstalling, Untouched
<1>8. WhileCleaning' /\ WhileRemoving' /\ WhileRestoring' /\ Outcome' /\ NothingWrittenIsLost'
  BY DEF WhileCleaning, WhileRemoving, WhileRestoring, Outcome, NothingWrittenIsLost
<1>12. Temporary'
  BY DEF Counters, Loops, StagedSoFar, Temporary
<1>14. QED
  BY <1>1, <1>2, <1>3, <1>4, <1>5, <1>6, <1>7, <1>8, <1>12 DEF Places

\* Staging fails: no target was touched.
LEMMA StageFailsKeeps == ASSUME IInv, StageFails PROVE IInv'
<1> USE DEF StageFails, Fail, about, IInv
<1>0. k' \in Int
  OBVIOUS
<1>1. Counters'
  BY <1>0 DEF Counters
<1>2. Contained'
  BY DEF Contained
<1>3. Flags'
  BY DEF Flags
<1>4. Loops'
  <2>1. InBatch'
    BY DEF InBatch
  <2>2. StagedSoFar'
    BY DEF StagedSoFar
  <2>3. AllStaged'
    BY DEF AllStaged
  <2>4. SingleFile' /\ Replacing'
    BY DEF SingleFile, Replacing
  <2>5. QED
    BY <2>1, <2>2, <2>3, <2>4 DEF Loops
<1>5. Verdicts'
  BY DEF Verdicts
<1>6. Numbered' /\ InOnePlace'
  BY <1>1 DEF Numbered, InOnePlace
<1>7. WhileStaging' /\ WhileBackingUp' /\ WhileInstalling'
  BY DEF WhileStaging, WhileBackingUp, WhileInstalling
<1>8. WhileCleaning' /\ WhileRemoving' /\ WhileRestoring' /\ NothingWrittenIsLost'
  BY DEF WhileCleaning, WhileRemoving, WhileRestoring, NothingWrittenIsLost
<1>11. Outcome'
  BY DEF Outcome, InOnePlace, Places, WhileStaging, Untouched
<1>12. Temporary'
  BY DEF Temporary
<1>14. QED
  BY <1>1, <1>2, <1>3, <1>4, <1>5, <1>6, <1>7, <1>8, <1>11, <1>12 DEF Places

\* A target that was not there counts as backed up.
LEMMA NothingToBackUpKeeps == ASSUME IInv, NothingToBackUp PROVE IInv'
<1>b. InBatch
  BY DEF IInv, Loops
<1>c. step = "backup" /\ count' = count
  BY DEF NothingToBackUp, about
<1>d. 1 <= k /\ k <= count
  BY <1>b, <1>c DEF InBatch
<1>41. InBatch'
  <2>1. 1 <= k' /\ k' <= count
    BY <1>d, LoopStays DEF NothingToBackUp
  <2>2. QED
    BY <2>1, <1>c, Zenon DEF InBatch
<1> USE DEF NothingToBackUp, Advance, disk, memory, about, IInv
<1>0. k' \in Int
  BY DEF Counters
<1>1. Counters'
  BY <1>0 DEF Counters
<1>2. Contained'
  BY DEF Contained
<1>3. Flags'
  BY DEF Flags
<1>4. Loops'
  <2>1. InBatch'
    BY <1>41
  <2>2. StagedSoFar'
    BY DEF StagedSoFar
  <2>3. AllStaged'
    BY DEF Loops, AllStaged
  <2>4. SingleFile' /\ Replacing'
    BY DEF SingleFile, Replacing
  <2>5. QED
    BY <2>1, <2>2, <2>3, <2>4 DEF Loops
<1>5. Verdicts'
  BY DEF Verdicts
<1>6. Numbered' /\ InOnePlace'
  BY <1>1 DEF Numbered, InOnePlace
<1>7. WhileStaging' /\ WhileBackingUp' /\ WhileInstalling'
  BY DEF Counters, Loops, InBatch, Places, WhileStaging, WhileBackingUp, WhileInstalling,
         Untouched, Backed, Kept
<1>8. WhileCleaning' /\ WhileRemoving' /\ WhileRestoring' /\ Outcome' /\ NothingWrittenIsLost'
  BY DEF WhileCleaning, WhileRemoving, WhileRestoring, Outcome, NothingWrittenIsLost
<1>12. Temporary'
  BY DEF Temporary
<1>14. QED
  BY <1>1, <1>2, <1>3, <1>4, <1>5, <1>6, <1>7, <1>8, <1>12 DEF Places

\* A content moves from its target to a backup.
LEMMA BackUpTargetKeeps == ASSUME IInv, BackUpTarget PROVE IInv'
<1>b. InBatch /\ Numbered /\ InOnePlace /\ WhileBackingUp
  BY DEF IInv, Loops, Places
<1>c. /\ step = "backup" /\ count' = count /\ run' = run
      /\ committed' = committed /\ before' = before
  BY DEF BackUpTarget, about
<1>d. 1 <= k /\ k <= count
  BY <1>b, <1>c DEF InBatch
<1>e. \A i \in Files : /\ target'[i] = IF i = k THEN NoFile ELSE target[i]
                       /\ saved'[i] = IF i = k THEN saved[i] \cup {target[k]} ELSE saved[i]
  BY DEF IInv, Contained, BackUpTarget
<1>f. k \in Files /\ target[k] # NoFile
  BY <1>d, Parts DEF BackUpTarget
<1>41. InBatch'
  <2>1. 1 <= k' /\ k' <= count
    BY <1>d, LoopStays DEF BackUpTarget
  <2>2. QED
    BY <2>1, <1>c, Zenon DEF InBatch
<1>61. Numbered'
  <2>1. before[k] < run /\ before[k] = target[k]
    BY <1>b, <1>c, <1>f, Parts DEF Numbered, WhileBackingUp, Untouched
  <2>2. NoFile <= run
    BY Parts
  <2>3. target[k] <= run
    BY <1>b, <1>f, Zenon DEF Numbered
  <2>4. ASSUME NEW i \in Files
        PROVE  /\ target'[i] <= run /\ committed[i] <= run
               /\ before[i] < run /\ committed[i] < run
               /\ \A c \in saved'[i] : c <= run /\ c < run
    <3>1. /\ target[i] <= run /\ committed[i] <= run
          /\ before[i] < run /\ committed[i] < run
          /\ \A c \in saved[i] : c <= run /\ c < run
      BY <1>b, <1>c, Zenon DEF Numbered, Open
    <3>2. CASE i = k
      BY <3>1, <3>2, <1>e, <2>1, <2>2, <2>3, Zenon
    <3>3. CASE i # k
      BY <3>1, <3>3, <1>e, Zenon
    <3>4. QED
      BY <3>2, <3>3
  <2>5. QED
    BY <2>4, <1>c, Zenon DEF Numbered
<1>62. InOnePlace'
  <2>1. ASSUME NEW i \in Files PROVE target'[i] \notin saved'[i]
    <3>1. NoFile \notin saved[i]
      BY Parts
    <3>2. CASE i = k
      BY <3>1, <3>2, <1>e, <1>f, Zenon
    <3>3. CASE i # k
      BY <3>3, <1>e, <1>b, Zenon DEF InOnePlace
    <3>4. QED
      BY <3>2, <3>3
  <2>2. QED
    BY <2>1, Zenon DEF InOnePlace
<1> USE DEF BackUpTarget, Advance, about, IInv
<1>0. k' \in Int
  BY DEF Counters
<1>1. Counters'
  BY <1>0 DEF Counters
<1>2. Contained'
  BY DEF Contained, Counters, Loops, InBatch
<1>3. Flags'
  BY DEF Flags
<1>4. Loops'
  <2>1. InBatch'
    BY <1>41
  <2>2. StagedSoFar'
    BY DEF StagedSoFar
  <2>3. AllStaged'
    BY DEF Loops, AllStaged
  <2>4. SingleFile' /\ Replacing'
    BY DEF SingleFile, Replacing
  <2>5. QED
    BY <2>1, <2>2, <2>3, <2>4 DEF Loops
<1>5. Verdicts'
  BY DEF Verdicts
<1>6. Numbered' /\ InOnePlace'
  BY <1>61, <1>62
<1>7. WhileStaging' /\ WhileBackingUp' /\ WhileInstalling'
  BY DEF Contained, Counters, Loops, InBatch, Places, WhileStaging, WhileBackingUp,
         WhileInstalling, Untouched, Backed, Kept
<1>8. WhileCleaning' /\ WhileRemoving' /\ WhileRestoring' /\ Outcome'
  BY DEF WhileCleaning, WhileRemoving, WhileRestoring, Outcome
<1>12. Temporary'
  BY DEF Temporary
<1>13. NothingWrittenIsLost'
  BY DEF Contained, NothingWrittenIsLost
<1>14. QED
  BY <1>1, <1>2, <1>3, <1>4, <1>5, <1>6, <1>7, <1>8, <1>12, <1>13 DEF Places

\* A backup fails: the batch is undone.
LEMMA BackUpFailsKeeps == ASSUME IInv, BackUpFails PROVE IInv'
<1>b. InBatch /\ WhileBackingUp
  BY DEF IInv, Loops, Places
<1>c. /\ step = "backup" /\ step' = "remove new" /\ k' = 1 /\ count' = count /\ run' = run
      /\ target' = target /\ saved' = saved /\ backup' = backup /\ before' = before
      /\ installed' = installed
  BY DEF BackUpFails, Fail, about, disk
<1>d. 1 <= k /\ k <= count
  BY <1>b, <1>c DEF InBatch
<1>0. k' \in Int
  <2>1. k' = 1
    BY <1>c, Zenon
  <2>2. QED
    BY <2>1
<1>41. InBatch'
  <2>1. 1 <= k' /\ k' <= count
    <3>1. k' = 1
      BY <1>c, Zenon
    <3>2. 1 <= k' /\ 1 <= count
      BY <3>1, Parts
    <3>3. QED
      BY <3>1, <3>2, Zenon
  <2>2. QED
    BY <2>1, <1>c, Zenon DEF InBatch
<1>9. WhileRemoving'
  <2>1. ASSUME NEW i \in Files
        PROVE  /\ Untouched(i) \/ Backed(i) \/ New(i)
               /\ i > count => Untouched(i)
               /\ ~(i < 1)
    <3>1. ~(i < 1)
      OBVIOUS
    <3>2. i < k \/ i >= k
      BY Parts
    <3>3. i > count => i >= k
      BY Parts, <1>d
    <3>4. QED
      BY <3>1, <3>2, <3>3, <1>b, <1>c, Zenon DEF WhileBackingUp
  <2>2. ASSUME NEW i \in Files
        PROVE  /\ Untouched(i)' <=> Untouched(i)
               /\ Backed(i)' <=> Backed(i)
               /\ New(i)' <=> New(i)
    BY <1>c, Zenon DEF Untouched, Backed, New, Kept
  <2>3. QED
    BY <2>1, <2>2, <1>c, Zenon DEF WhileRemoving
<1> USE DEF BackUpFails, Fail, about, IInv
<1>1. Counters'
  BY <1>0 DEF Counters
<1>2. Contained'
  BY DEF Contained
<1>3. Flags'
  BY DEF Flags
<1>4. Loops'
  <2>1. InBatch'
    BY <1>41
  <2>2. StagedSoFar'
    BY DEF StagedSoFar
  <2>3. AllStaged'
    BY DEF Loops, AllStaged
  <2>4. SingleFile' /\ Replacing'
    BY DEF SingleFile, Replacing
  <2>5. QED
    BY <2>1, <2>2, <2>3, <2>4 DEF Loops
<1>5. Verdicts'
  BY DEF Verdicts
<1>6. Numbered' /\ InOnePlace'
  BY <1>1 DEF Numbered, InOnePlace
<1>7. WhileStaging' /\ WhileBackingUp' /\ WhileInstalling'
  BY DEF WhileStaging, WhileBackingUp, WhileInstalling
<1>8. WhileCleaning' /\ WhileRestoring' /\ Outcome' /\ NothingWrittenIsLost'
  BY DEF WhileCleaning, WhileRestoring, Outcome, NothingWrittenIsLost
<1>12. Temporary'
  BY DEF Temporary
<1>14. QED
  BY <1>1, <1>2, <1>3, <1>4, <1>5, <1>6, <1>7, <1>8, <1>9, <1>12 DEF Places

\* A new file takes the place that is free; the last one commits the batch.
LEMMA InstallFileKeeps == ASSUME IInv, InstallFile PROVE IInv'
<1>b. InBatch /\ Numbered /\ InOnePlace /\ WhileInstalling /\ NothingWrittenIsLost
  BY DEF IInv, Loops, Places
<1>c. /\ step = "install" /\ count' = count /\ run' = run
      /\ saved' = saved /\ backup' = backup /\ before' = before
  BY DEF InstallFile, about
<1>d. 1 <= k /\ k <= count
  BY <1>b, <1>c DEF InBatch
<1>e. \A i \in Files : target'[i] = IF i = k THEN run ELSE target[i]
  BY DEF IInv, Contained, InstallFile
<1>f. \A i \in Files : committed'[i] = IF k = count /\ i <= count THEN run ELSE committed[i]
  BY Parts DEF InstallFile, Batch
<1>g. k \in Files
  BY <1>d, Parts
<1>h. (step' = "install" /\ k # count) \/ (step' = "clean" /\ k = count /\ k' = 1)
  <2>1. k < count \/ k = count
    BY <1>d, Parts
  <2>2. k < count => k # count
    BY Parts
  <2>3. QED
    BY <2>1, <2>2, <1>c, Zenon DEF InstallFile, Advance
<1>i. \A i \in Files : /\ target[i] <= run /\ committed[i] <= run
                       /\ before[i] < run /\ committed[i] < run
                       /\ \A c \in saved[i] : c <= run /\ c < run
  BY <1>b, <1>c, Zenon DEF Numbered, Open
<1>j. run <= run /\ ~(run < run)
  BY Parts
<1>41. InBatch'
  <2>1. 1 <= k' /\ k' <= count
    BY <1>d, LoopStays DEF InstallFile
  <2>2. QED
    BY <2>1, <1>c, Zenon DEF InBatch
<1>61. Numbered'
  <2>1. ASSUME NEW i \in Files
        PROVE  /\ target'[i] <= run /\ committed'[i] <= run
               /\ before[i] < run
               /\ \A c \in saved[i] : c <= run /\ c < run
    BY <1>e, <1>f, <1>i, <1>j, Zenon
  <2>2. CASE step' = "install" /\ k # count
    BY <2>1, <2>2, <1>c, <1>f, <1>i, Zenon DEF Numbered
  <2>3. CASE step' = "clean"
    BY <2>1, <2>3, <1>c, Zenon DEF Numbered, Open
  <2>4. QED
    BY <2>2, <2>3, <1>h
<1>62. InOnePlace'
  BY <1>b, <1>c, <1>e, <1>i, <1>j, Zenon DEF InOnePlace
<1>8. WhileCleaning'
  <2>1. SUFFICES ASSUME step' = "clean", NEW i \in Files
               PROVE  /\ i <= count => /\ target'[i] = run /\ committed'[i] = run
                                       /\ backup[i] = before[i] /\ ~(i < 1)
                      /\ i > count => Untouched(i)'
    BY <1>c, <1>h, Zenon DEF WhileCleaning
  <2>2. k = count
    BY <2>1, <1>h
  <2>3. CASE i <= count
    <3>1. (i < k) \/ (i = k /\ i >= k /\ i <= count)
      BY <2>2, <2>3, Parts
    <3>2. ~(i < 1) /\ ~(i > count)
      BY <2>3, Parts
    <3>3. backup[i] = before[i] /\ (i < k => target[i] = run)
      BY <3>1, <1>b, <1>c, Zenon DEF WhileInstalling, New, Backed, Kept
    <3>4. QED
      BY <2>2, <2>3, <3>1, <3>2, <3>3, <1>e, <1>f, Zenon
  <2>4. CASE i > count
    <3>1. i # k /\ ~(i <= count)
      BY <2>2, <2>4, Parts
    <3>2. Untouched(i)
      BY <2>4, <1>b, <1>c, Zenon DEF WhileInstalling
    <3>3. installed'[i] = installed[i]
      BY <3>1 DEF IInv, Flags, InstallFile
    <3>4. QED
      BY <3>1, <3>2, <3>3, <1>c, <1>e, Zenon DEF Untouched
  <2>5. i <= count \/ i > count
    BY Parts
  <2>6. QED
    BY <2>3, <2>4, <2>5
<1>13. NothingWrittenIsLost'
  <2>1. SUFFICES ASSUME NEW i \in Files, committed'[i] # NoFile
               PROVE  target'[i] = committed'[i] \/ committed'[i] \in saved[i]
    BY <1>c, Zenon DEF NothingWrittenIsLost
  <2>2. CASE k = count /\ i <= count
    <3>1. i < k \/ i = k
      BY <2>2, Parts
    <3>2. i < k => target[i] = run
      BY <1>b, <1>c, Zenon DEF WhileInstalling, New
    <3>3. QED
      BY <2>2, <3>1, <3>2, <1>e, <1>f, Zenon
  <2>3. CASE ~(k = count /\ i <= count)
    <3>1. committed'[i] = committed[i]
      BY <2>3, <1>f, Zenon
    <3>2. CASE i = k
      <4>1. i >= k /\ i <= count
        BY <3>2, <1>d, Parts
      <4>2. target[i] = NoFile
        BY <4>1, <1>b, <1>c, Zenon DEF WhileInstalling, Backed
      <4>3. QED
        BY <2>1, <3>1, <4>2, <1>b, Zenon DEF NothingWrittenIsLost
    <3>3. CASE i # k
      BY <2>1, <3>1, <3>3, <1>e, <1>b, Zenon DEF NothingWrittenIsLost
    <3>4. QED
      BY <3>2, <3>3
  <2>4. QED
    BY <2>2, <2>3
<1> USE DEF InstallFile, Advance, about, IInv
<1>0. k' \in Int
  BY DEF Counters
<1>1. Counters'
  BY <1>0 DEF Counters
<1>2. Contained'
  BY DEF Contained, Counters
<1>3. Flags'
  BY DEF Flags
<1>4. Loops'
  <2>1. InBatch'
    BY <1>41
  <2>2. StagedSoFar'
    BY DEF StagedSoFar
  <2>3. AllStaged'
    BY DEF Loops, AllStaged
  <2>4. SingleFile' /\ Replacing'
    BY DEF SingleFile, Replacing
  <2>5. QED
    BY <2>1, <2>2, <2>3, <2>4 DEF Loops
<1>5. Verdicts'
  BY DEF Verdicts
<1>6. Numbered' /\ InOnePlace'
  BY <1>61, <1>62
<1>7. WhileStaging' /\ WhileBackingUp' /\ WhileInstalling'
  BY DEF Contained, Counters, Flags, Places, WhileStaging, WhileBackingUp, WhileInstalling,
         Untouched, Backed, New, Kept
<1>9. WhileRemoving' /\ WhileRestoring' /\ Outcome'
  BY DEF WhileRemoving, WhileRestoring, Outcome
<1>12. Temporary'
  BY DEF Temporary
<1>14. QED
  BY <1>1, <1>2, <1>3, <1>4, <1>5, <1>6, <1>7, <1>8, <1>9, <1>12, <1>13 DEF Places

\* A rename fails: the batch is undone.
LEMMA InstallFailsKeeps == ASSUME IInv, InstallFails PROVE IInv'
<1>b. InBatch /\ WhileInstalling
  BY DEF IInv, Loops, Places
<1>c. /\ step = "install" /\ step' = "remove new" /\ k' = 1 /\ count' = count /\ run' = run
      /\ target' = target /\ saved' = saved /\ backup' = backup /\ before' = before
      /\ installed' = installed
  BY DEF InstallFails, Fail, about, disk
<1>d. 1 <= k /\ k <= count
  BY <1>b, <1>c DEF InBatch
<1>0. k' \in Int
  <2>1. k' = 1
    BY <1>c, Zenon
  <2>2. QED
    BY <2>1
<1>41. InBatch'
  <2>1. 1 <= k' /\ k' <= count
    <3>1. k' = 1
      BY <1>c, Zenon
    <3>2. 1 <= k' /\ 1 <= count
      BY <3>1, Parts
    <3>3. QED
      BY <3>1, <3>2, Zenon
  <2>2. QED
    BY <2>1, <1>c, Zenon DEF InBatch
<1>9. WhileRemoving'
  <2>1. ASSUME NEW i \in Files
        PROVE  /\ Untouched(i) \/ Backed(i) \/ New(i)
               /\ i > count => Untouched(i)
               /\ ~(i < 1)
    <3>1. ~(i < 1)
      OBVIOUS
    <3>2. i < k \/ (i >= k /\ i <= count) \/ i > count
      BY Parts
    <3>3. QED
      BY <3>1, <3>2, <1>b, <1>c, Zenon DEF WhileInstalling
  <2>2. ASSUME NEW i \in Files
        PROVE  /\ Untouched(i)' <=> Untouched(i)
               /\ Backed(i)' <=> Backed(i)
               /\ New(i)' <=> New(i)
    BY <1>c, Zenon DEF Untouched, Backed, New, Kept
  <2>3. QED
    BY <2>1, <2>2, <1>c, Zenon DEF WhileRemoving
<1> USE DEF InstallFails, Fail, disk, about, IInv
<1>1. Counters'
  BY <1>0 DEF Counters
<1>2. Contained'
  BY DEF Contained
<1>3. Flags'
  BY DEF Flags
<1>4. Loops'
  <2>1. InBatch'
    BY <1>41
  <2>2. StagedSoFar'
    BY DEF StagedSoFar
  <2>3. AllStaged'
    BY DEF Loops, AllStaged
  <2>4. SingleFile' /\ Replacing'
    BY DEF SingleFile, Replacing
  <2>5. QED
    BY <2>1, <2>2, <2>3, <2>4 DEF Loops
<1>5. Verdicts'
  BY DEF Verdicts
<1>6. Numbered' /\ InOnePlace'
  BY <1>1 DEF Numbered, InOnePlace
<1>7. WhileStaging' /\ WhileBackingUp' /\ WhileInstalling'
  BY DEF WhileStaging, WhileBackingUp, WhileInstalling
<1>8. WhileCleaning' /\ WhileRestoring' /\ Outcome' /\ NothingWrittenIsLost'
  BY DEF WhileCleaning, WhileRestoring, Outcome, NothingWrittenIsLost
<1>12. Temporary'
  BY DEF Temporary
<1>14. QED
  BY <1>1, <1>2, <1>3, <1>4, <1>5, <1>6, <1>7, <1>8, <1>9, <1>12 DEF Places

\* One rename over the old file, which is nowhere else.
LEMMA ReplaceFileKeeps == ASSUME IInv, ReplaceFile PROVE IInv'
<1>b. SingleFile /\ Replacing /\ InOnePlace /\ WhileStaging /\ Verdicts
  BY DEF IInv, Loops, Places
<1>c. /\ step = "replace" /\ step' = "sweep" /\ count' = count /\ run' = run
      /\ saved' = saved /\ before' = before /\ failed' = failed
  BY DEF ReplaceFile, about, memory
<1>e. \A i \in Files : target'[i] = IF i = k THEN run ELSE target[i]
  BY DEF IInv, Contained, ReplaceFile
<1>f. k = 1 /\ count = 1 /\ ~failed
  BY <1>b, <1>c DEF SingleFile, Replacing, Verdicts
<1>11. Outcome'
  <2>1. ASSUME NEW i \in Files
        PROVE  target'[i] = (IF i <= count THEN run ELSE before[i]) /\ before[i] \notin saved[i]
    <3>1. i <= count <=> i = k
      BY <1>f
    <3>2. target[i] = before[i] /\ target[i] \notin saved[i]
      BY <1>b, <1>c, Zenon DEF WhileStaging, Untouched, InOnePlace
    <3>3. QED
      BY <3>1, <3>2, <1>e, Zenon
  <2>2. QED
    BY <2>1, <1>c, <1>f, Zenon DEF Outcome
<1> USE DEF ReplaceFile, memory, about, IInv
<1>0. k' \in Int
  BY DEF Counters
<1>1. Counters'
  BY <1>0 DEF Counters
<1>2. Contained'
  BY DEF Contained, Counters
<1>3. Flags'
  BY DEF Flags
<1>4. Loops'
  <2>1. InBatch'
    BY DEF InBatch
  <2>2. StagedSoFar'
    BY DEF StagedSoFar
  <2>3. AllStaged'
    BY DEF AllStaged
  <2>4. SingleFile' /\ Replacing'
    BY DEF SingleFile, Replacing
  <2>5. QED
    BY <2>1, <2>2, <2>3, <2>4 DEF Loops
<1>5. Verdicts'
  BY DEF Verdicts
<1>6. Numbered' /\ InOnePlace'
  BY <1>1 DEF Counters, Numbered, InOnePlace
<1>7. WhileStaging' /\ WhileBackingUp' /\ WhileInstalling'
  BY DEF WhileStaging, WhileBackingUp, WhileInstalling
<1>8. WhileCleaning' /\ WhileRemoving' /\ WhileRestoring'
  BY DEF WhileCleaning, WhileRemoving, WhileRestoring
<1>12. Temporary'
  BY DEF Temporary
<1>13. NothingWrittenIsLost'
  BY DEF Contained, NothingWrittenIsLost
<1>14. QED
  BY <1>1, <1>2, <1>3, <1>4, <1>5, <1>6, <1>7, <1>8, <1>11, <1>12, <1>13 DEF Places

\* The rename of a single file fails.
LEMMA ReplaceFailsKeeps == ASSUME IInv, ReplaceFails PROVE IInv'
<1> USE DEF ReplaceFails, Fail, disk, about, IInv
<1>0. k' \in Int
  OBVIOUS
<1>1. Counters'
  BY <1>0 DEF Counters
<1>2. Contained'
  BY DEF Contained
<1>3. Flags'
  BY DEF Flags
<1>4. Loops'
  <2>1. InBatch'
    BY DEF InBatch
  <2>2. StagedSoFar'
    BY DEF StagedSoFar
  <2>3. AllStaged'
    BY DEF AllStaged
  <2>4. SingleFile' /\ Replacing'
    BY DEF SingleFile, Replacing
  <2>5. QED
    BY <2>1, <2>2, <2>3, <2>4 DEF Loops
<1>5. Verdicts'
  BY DEF Verdicts
<1>6. Numbered' /\ InOnePlace'
  BY <1>1 DEF Numbered, InOnePlace
<1>7. WhileStaging' /\ WhileBackingUp' /\ WhileInstalling'
  BY DEF WhileStaging, WhileBackingUp, WhileInstalling
<1>8. WhileCleaning' /\ WhileRemoving' /\ WhileRestoring' /\ NothingWrittenIsLost'
  BY DEF WhileCleaning, WhileRemoving, WhileRestoring, NothingWrittenIsLost
<1>11. Outcome'
  BY DEF Outcome, InOnePlace, Places, WhileStaging, Untouched
<1>12. Temporary'
  BY DEF Temporary
<1>14. QED
  BY <1>1, <1>2, <1>3, <1>4, <1>5, <1>6, <1>7, <1>8, <1>11, <1>12 DEF Places

\* A backup goes when its content is no longer owed.
LEMMA CleanBackupKeeps == ASSUME IInv, CleanBackup PROVE IInv'
<1>b. InBatch /\ Numbered /\ InOnePlace /\ WhileCleaning /\ Verdicts
  BY DEF IInv, Loops, Places
<1>c. /\ step = "clean" /\ count' = count /\ run' = run /\ target' = target
      /\ before' = before /\ committed' = committed /\ failed' = failed
  BY DEF CleanBackup, about
<1>d. 1 <= k /\ k <= count
  BY <1>b, <1>c DEF InBatch
<1>e. \A i \in Files : saved'[i] \subseteq saved[i]
  BY DEF IInv, Contained, CleanBackup
<1>f. backup[k] \notin saved'[k] \/ cleanFailed'
  <2>1. k \in Files
    BY <1>d, Parts
  <2>2. QED
    BY <2>1 DEF IInv, Contained, CleanBackup
<1>g. (step' = "clean" /\ k < count) \/ (step' = "sweep" /\ ~(k < count))
  BY <1>c, Zenon DEF CleanBackup, Advance
<1>41. InBatch'
  <2>1. 1 <= k' /\ k' <= count
    BY <1>d, LoopStays DEF CleanBackup
  <2>2. QED
    BY <2>1, <1>c, Zenon DEF InBatch
<1>61. Numbered'
  <2>1. step' \notin Open
    BY <1>g
  <2>2. \A i \in Files : /\ target[i] <= run /\ committed[i] <= run
                         /\ \A c \in saved'[i] : c <= run
    BY <1>b, <1>e, Zenon DEF Numbered
  <2>3. QED
    BY <2>1, <2>2, <1>c, Zenon DEF Numbered
<1>62. InOnePlace'
  BY <1>b, <1>c, <1>e, Zenon DEF InOnePlace
<1>11. Outcome'
  <2>1. SUFFICES ASSUME step' = "sweep", NEW i \in Files
               PROVE  /\ target[i] = IF i <= count THEN run ELSE before[i]
                      /\ ~cleanFailed' => before[i] \notin saved'[i]
    <3>1. step' # "done" /\ ~failed
      BY <1>b, <1>c, <1>g DEF Verdicts
    <3>2. QED
      BY <3>1, <1>c, Zenon DEF Outcome
  <2>2. k = count
    BY <2>1, <1>g, <1>d, Parts
  <2>3. cleanFailed => cleanFailed'
    BY DEF CleanBackup
  <2>4. CASE i <= count
    <3>1. target[i] = run /\ backup[i] = before[i]
          /\ (i < k => cleanFailed \/ before[i] \notin saved[i])
      BY <2>4, <1>b, <1>c, Zenon DEF WhileCleaning
    <3>2. i < k \/ i = k
      BY <2>2, <2>4, Parts
    <3>3. QED
      BY <2>3, <2>4, <3>1, <3>2, <1>e, <1>f, Zenon
  <2>5. CASE ~(i <= count)
    <3>1. i > count
      BY <2>5, Parts
    <3>2. target[i] = before[i] /\ target[i] \notin saved[i]
      BY <3>1, <1>b, <1>c, Zenon DEF WhileCleaning, Untouched, InOnePlace
    <3>3. QED
      BY <2>5, <3>2, <1>e, Zenon
  <2>6. QED
    BY <2>4, <2>5
<1> USE DEF CleanBackup, Advance, about, IInv
<1>0. k' \in Int
  BY DEF Counters
<1>1. Counters'
  BY <1>0 DEF Counters
<1>2. Contained'
  BY DEF Contained
<1>3. Flags'
  BY DEF Flags
<1>4. Loops'
  <2>1. InBatch'
    BY <1>41
  <2>2. StagedSoFar'
    BY DEF StagedSoFar
  <2>3. AllStaged'
    BY DEF Loops, AllStaged
  <2>4. SingleFile' /\ Replacing'
    BY DEF SingleFile, Replacing
  <2>5. QED
    BY <2>1, <2>2, <2>3, <2>4 DEF Loops
<1>5. Verdicts'
  BY DEF Verdicts
<1>6. Numbered' /\ InOnePlace'
  BY <1>61, <1>62
<1>7. WhileStaging' /\ WhileBackingUp' /\ WhileInstalling'
  BY DEF WhileStaging, WhileBackingUp, WhileInstalling
<1>8. WhileCleaning'
  BY DEF Contained, Counters, Places, WhileCleaning, Untouched
<1>9. WhileRemoving' /\ WhileRestoring'
  BY DEF WhileRemoving, WhileRestoring
<1>12. Temporary'
  BY DEF Temporary
<1>13. NothingWrittenIsLost'
  BY DEF Contained, Counters, NothingWrittenIsLost, Places, WhileCleaning, Untouched
<1>14. QED
  BY <1>1, <1>2, <1>3, <1>4, <1>5, <1>6, <1>7, <1>8, <1>9, <1>11, <1>12, <1>13 DEF Places

\* Only what this run installed is removed.
LEMMA RemoveNewKeeps == ASSUME IInv, RemoveNew PROVE IInv'
<1>b. /\ InBatch /\ AllStaged /\ Numbered /\ InOnePlace /\ WhileRemoving
      /\ NothingWrittenIsLost
  BY DEF IInv, Loops, Places
<1>c. /\ step = "remove new" /\ count' = count /\ run' = run /\ saved' = saved
      /\ before' = before /\ committed' = committed /\ backup' = backup
      /\ installed' = installed
  BY DEF RemoveNew, about
<1>d. 1 <= k /\ k <= count
  BY <1>b, <1>c DEF InBatch
<1>e. \/ /\ undoFailed' <=> undoFailed
         /\ \A i \in Files : target'[i] = IF i = k /\ installed[k] THEN NoFile ELSE target[i]
      \/ undoFailed' /\ target' = target
  BY DEF IInv, Contained, RemoveNew
<1>f. \A i \in Files : target'[i] = target[i] \/ (i = k /\ installed[i] /\ target'[i] = NoFile)
  BY <1>e, Zenon
<1>g. \/ step' = "remove new" /\ k' = k + 1
      \/ step' = "restore old" /\ k' = k /\ k = count
  <2>1. staged = count
    BY <1>b, <1>c DEF AllStaged, Undo
  <2>2. k < count \/ k = count
    BY <1>d, Parts
  <2>3. k < staged \/ staged = k
    BY <2>1, <2>2
  <2>4. k = count => ~(k < count)
    BY Parts
  <2>5. CASE k < count
    BY <2>1, <2>5, <1>c, Zenon DEF RemoveNew
  <2>6. CASE k = count
    BY <2>1, <2>4, <2>6, <1>c, Zenon DEF RemoveNew
  <2>7. QED
    BY <2>2, <2>5, <2>6
<1>i. \A i \in Files : /\ target[i] <= run /\ committed[i] <= run
                       /\ before[i] < run /\ committed[i] < run
                       /\ \A c \in saved[i] : c <= run /\ c < run
  BY <1>b, <1>c, Zenon DEF Numbered, Open, Undo
<1>j. NoFile <= run /\ NoFile # run /\ k \in Files
  BY <1>d, Parts
<1>0. k' \in Int
  <2>1. k' = k + 1 \/ k' = k
    BY <1>g, Zenon
  <2>2. QED
    BY <2>1, Parts
<1>41. InBatch'
  <2>1. CASE step' = "remove new" /\ k' = k + 1
    <3>1. k < count
      <4>1. staged = count
        BY <1>b, <1>c DEF AllStaged, Undo
      <4>2. k < staged
        BY <2>1, <4>1, Zenon DEF RemoveNew
      <4>3. QED
        BY <4>1, <4>2
    <3>2. 1 <= k + 1 /\ k + 1 <= count
      BY <3>1, <1>d, Parts
    <3>3. QED
      BY <2>1, <3>2, <1>c, Zenon DEF InBatch
  <2>2. CASE k' = k
    BY <2>2, <1>c, <1>d, Zenon DEF InBatch
  <2>3. QED
    BY <2>1, <2>2, <1>g, Zenon
<1>61. Numbered'
  <2>1. \A i \in Files : target'[i] <= run
    BY <1>f, <1>i, <1>j, Zenon
  <2>2. QED
    BY <2>1, <1>c, <1>i, Zenon DEF Numbered
<1>62. InOnePlace'
  <2>1. \A i \in Files : NoFile \notin saved[i]
    BY Parts
  <2>2. QED
    BY <2>1, <1>b, <1>c, <1>f, Zenon DEF InOnePlace
<1>9. WhileRemoving'
  <2>1. SUFFICES ASSUME step' = "remove new", NEW i \in Files
               PROVE  /\ (Untouched(i) \/ Backed(i) \/ New(i) \/ Removed(i))'
                      /\ i > count => Untouched(i)'
                      /\ i < k' /\ ~undoFailed' => ~New(i)'
    BY <1>c, Zenon DEF WhileRemoving
  <2>2. /\ Untouched(i) \/ Backed(i) \/ New(i) \/ Removed(i)
        /\ i > count => Untouched(i)
        /\ i < k /\ ~undoFailed => ~New(i)
    BY <1>b, <1>c, Zenon DEF WhileRemoving
  <2>3. (Untouched(i) \/ Backed(i) \/ New(i) \/ Removed(i))'
    BY <2>2, <1>c, <1>f, Zenon DEF Untouched, Backed, New, Removed, Kept
  <2>4. i > count => Untouched(i)'
    BY <2>2, <1>c, <1>f, Zenon DEF Untouched
  <2>5. ASSUME i < k', ~undoFailed', New(i)' PROVE FALSE
    <3>1. k' = k + 1
      BY <2>1, <1>g
    <3>2. i < k \/ i = k
      BY <2>5, <3>1, Parts
    <3>3. target'[i] = run /\ installed[i]
      BY <2>5, <1>c, Zenon DEF New
    <3>4. i # k
      BY <2>5, <3>3, <1>e, <1>j, Zenon
    <3>5. ~undoFailed
      BY <2>5, <1>e, Zenon
    <3>6. New(i)
      BY <2>5, <3>4, <1>c, <1>f, Zenon DEF New, Kept
    <3>7. QED
      BY <2>2, <3>2, <3>4, <3>5, <3>6, Zenon
  <2>6. QED
    BY <2>3, <2>4, <2>5
<1>10. WhileRestoring'
  <2>1. SUFFICES ASSUME step' = "restore old", NEW i \in Files
               PROVE  /\ backup[i] # NoFile => /\ backup[i] = before[i] /\ before[i] \in saved[i]
                                               /\ target'[i] \in {NoFile, run}
                      /\ backup[i] = NoFile /\ ~undoFailed' => target'[i] = before[i]
                      /\ i > k' /\ ~undoFailed' => backup[i] = NoFile
    BY <1>c, Zenon DEF WhileRestoring
  <2>2. /\ Untouched(i) \/ Backed(i) \/ New(i) \/ Removed(i)
        /\ i > count => Untouched(i)
        /\ i < k /\ ~undoFailed => ~New(i)
    BY <1>b, <1>c, Zenon DEF WhileRemoving
  <2>3. k' = count /\ k = count
    BY <2>1, <1>g
  <2>4. backup[i] # NoFile => /\ backup[i] = before[i] /\ before[i] \in saved[i]
                              /\ target'[i] \in {NoFile, run}
    BY <2>2, <1>f, Zenon DEF Untouched, Backed, New, Removed, Kept
  <2>5. ASSUME backup[i] = NoFile, ~undoFailed' PROVE target'[i] = before[i]
    <3>1. ~undoFailed /\ target'[i] = IF i = k /\ installed[k] THEN NoFile ELSE target[i]
      BY <2>5, <1>e, Zenon
    <3>2. i < k \/ i = k \/ i > count
      BY <2>3, Parts
    <3>3. CASE New(i)
      BY <2>2, <2>5, <3>1, <3>2, <3>3, Zenon DEF Untouched, New, Kept
    <3>4. CASE ~New(i)
      BY <2>2, <2>5, <3>1, <3>4, Zenon DEF Untouched, Backed, Removed, Kept
    <3>5. QED
      BY <3>3, <3>4
  <2>6. i > k' => backup[i] = NoFile
    BY <2>2, <2>3, Zenon DEF Untouched
  <2>7. QED
    BY <2>4, <2>5, <2>6
<1>13. NothingWrittenIsLost'
  <2>1. SUFFICES ASSUME NEW i \in Files, committed[i] # NoFile
               PROVE  target'[i] = committed[i] \/ committed[i] \in saved[i]
    BY <1>c, Zenon DEF NothingWrittenIsLost
  <2>2. committed[i] # run
    BY <1>i, Parts
  <2>3. installed[i] => target[i] = run \/ target[i] = NoFile
    BY <1>b, <1>c, Zenon DEF WhileRemoving, Untouched, Backed, New, Removed
  <2>4. QED
    BY <2>1, <2>2, <2>3, <1>b, <1>f, Zenon DEF NothingWrittenIsLost
<1> USE DEF RemoveNew, about, IInv
<1>1. Counters'
  BY <1>0 DEF Counters
<1>2. Contained'
  BY DEF Contained
<1>3. Flags'
  BY DEF Flags
<1>4. Loops'
  <2>1. InBatch'
    BY <1>41
  <2>2. StagedSoFar'
    BY DEF StagedSoFar
  <2>3. AllStaged'
    BY DEF Loops, AllStaged
  <2>4. SingleFile' /\ Replacing'
    BY DEF SingleFile, Replacing
  <2>5. QED
    BY <2>1, <2>2, <2>3, <2>4 DEF Loops
<1>5. Verdicts'
  BY DEF Verdicts
<1>6. Numbered' /\ InOnePlace'
  BY <1>61, <1>62
<1>7. WhileStaging' /\ WhileBackingUp' /\ WhileInstalling'
  BY DEF WhileStaging, WhileBackingUp, WhileInstalling
<1>8. WhileCleaning' /\ Outcome'
  BY DEF WhileCleaning, Outcome
<1>12. Temporary'
  BY DEF Temporary
<1>14. QED
  BY <1>1, <1>2, <1>3, <1>4, <1>5, <1>6, <1>7, <1>8, <1>9, <1>10, <1>12, <1>13 DEF Places

\* A backup goes back to its place.
LEMMA RestoreOldKeeps == ASSUME IInv, RestoreOld PROVE IInv'
<1>b. /\ InBatch /\ Numbered /\ InOnePlace /\ Verdicts /\ WhileRestoring
      /\ NothingWrittenIsLost
  BY DEF IInv, Loops, Places
<1>c. /\ step = "restore old" /\ count' = count /\ run' = run /\ failed' = failed
      /\ before' = before /\ committed' = committed
  BY DEF RestoreOld, about
<1>d. 1 <= k /\ k <= count
  BY <1>b, <1>c DEF InBatch
<1>f. k \in Files
  BY <1>d, Parts
<1>e. \/ /\ backup[k] # NoFile /\ (undoFailed' <=> undoFailed)
         /\ \A i \in Files :
              /\ target'[i] = IF i = k THEN backup[k] ELSE target[i]
              /\ saved'[i] = IF i = k THEN saved[i] \ {backup[k]} ELSE saved[i]
              /\ backup'[i] = IF i = k THEN NoFile ELSE backup[i]
      \/ undoFailed' /\ target' = target /\ saved' = saved /\ backup' = backup
      \/ /\ backup[k] = NoFile /\ (undoFailed' <=> undoFailed)
         /\ target' = target /\ saved' = saved /\ backup' = backup
  BY DEF IInv, Contained, RestoreOld
<1>g. \/ k > 1 /\ step' = "restore old" /\ k' = k - 1
      \/ step' = "sweep" /\ k' = 1 /\ ~(k > 1)
  BY <1>c, Zenon DEF RestoreOld
<1>h. \A i \in Files :
        /\ backup[i] # NoFile => /\ backup[i] = before[i] /\ before[i] \in saved[i]
                                 /\ target[i] \in {NoFile, run}
        /\ backup[i] = NoFile /\ ~undoFailed => target[i] = before[i]
        /\ i > k /\ ~undoFailed => backup[i] = NoFile
  BY <1>b, <1>c, Zenon DEF WhileRestoring
<1>i. \A i \in Files : /\ target[i] <= run /\ committed[i] <= run
                       /\ before[i] < run /\ committed[i] < run
                       /\ \A c \in saved[i] : c <= run /\ c < run
  BY <1>b, <1>c, Zenon DEF Numbered, Open, Undo
<1>0. k' \in Int
  <2>1. k' = k - 1 \/ k' = 1
    BY <1>g, Zenon
  <2>2. QED
    BY <2>1, Parts
<1>2. Contained'
  <2>1. \A i \in Files : backup[i] # NoFile => backup[i] \in Nat
    BY DEF IInv, Contained
  <2>2. CASE target' = target /\ saved' = saved /\ backup' = backup
    BY <2>2, <1>c, Zenon DEF IInv, Contained
  <2>3. CASE /\ target' = [target EXCEPT ![k] = backup[k]]
             /\ saved' = [saved EXCEPT ![k] = @ \ {backup[k]}]
             /\ backup' = [backup EXCEPT ![k] = NoFile]
    <3>1. target' \in [Files -> Contents]
      BY <2>3, <1>f DEF IInv, Contained
    <3>2. saved' \in [Files -> SUBSET Nat]
      BY <2>3, <1>f DEF IInv, Contained
    <3>3. backup' \in [Files -> Contents]
      BY <2>3, <1>f DEF IInv, Contained
    <3>4. QED
      BY <3>1, <3>2, <3>3, <1>c, Zenon DEF IInv, Contained
  <2>4. QED
    BY <2>2, <2>3, Zenon DEF RestoreOld
<1>41. InBatch'
  <2>1. k > 1 => 1 <= k - 1 /\ k - 1 <= count
    BY <1>d, Parts
  <2>2. 1 <= 1 /\ 1 <= count
    BY Parts
  <2>3. QED
    BY <2>1, <2>2, <1>c, <1>g, Zenon DEF InBatch
<1>61. Numbered'
  <2>1. before[k] < run => before[k] <= run
    BY <1>f, Parts
  <2>2. ASSUME NEW i \in Files
        PROVE  target'[i] <= run /\ saved'[i] \subseteq saved[i]
    BY <2>1, <1>e, <1>f, <1>h, <1>i, Zenon
  <2>3. QED
    BY <2>2, <1>c, <1>i, Zenon DEF Numbered
<1>62. InOnePlace'
  BY <1>b, <1>e, Zenon DEF InOnePlace
<1>10. WhileRestoring'
  <2>1. SUFFICES ASSUME step' = "restore old", NEW i \in Files
               PROVE  /\ backup'[i] # NoFile => /\ backup'[i] = before[i]
                                                /\ before[i] \in saved'[i]
                                                /\ target'[i] \in {NoFile, run}
                      /\ backup'[i] = NoFile /\ ~undoFailed' => target'[i] = before[i]
                      /\ i > k' /\ ~undoFailed' => backup'[i] = NoFile
    BY <1>c, Zenon DEF WhileRestoring
  <2>2. k' = k - 1
    BY <2>1, <1>g
  <2>3. i > k' => i > k \/ i = k
    BY <2>2, Parts
  <2>4. CASE i = k
    BY <2>4, <1>e, <1>h, Zenon
  <2>5. CASE i # k
    BY <2>3, <2>5, <1>e, <1>h, Zenon
  <2>6. QED
    BY <2>4, <2>5
<1>11. Outcome'
  <2>1. SUFFICES ASSUME step' = "sweep", ~undoFailed', NEW i \in Files
               PROVE  target'[i] = before[i] /\ before[i] \notin saved'[i]
    <3>1. failed
      BY <1>b, <1>c DEF Verdicts, Undo
    <3>2. QED
      BY <3>1, <1>c, <1>g, Zenon DEF Outcome
  <2>2. i > k \/ i = k
    BY <2>1, <1>g, <1>d, Parts
  <2>3. target'[i] = before[i]
    BY <2>1, <2>2, <1>e, <1>h, Zenon
  <2>4. QED
    BY <2>3, <1>b, <1>e, Zenon DEF InOnePlace
<1>13. NothingWrittenIsLost'
  <2>1. SUFFICES ASSUME NEW i \in Files, committed[i] # NoFile
               PROVE  target'[i] = committed[i] \/ committed[i] \in saved'[i]
    BY <1>c, Zenon DEF NothingWrittenIsLost
  <2>2. committed[i] # run
    BY <1>i, Parts
  <2>3. target[i] = committed[i] \/ committed[i] \in saved[i]
    BY <2>1, <1>b, Zenon DEF NothingWrittenIsLost
  <2>4. QED
    BY <2>1, <2>2, <2>3, <1>e, <1>h, Zenon
<1> USE DEF RestoreOld, about, IInv
<1>1. Counters'
  BY <1>0 DEF Counters
<1>3. Flags'
  BY DEF Flags
<1>4. Loops'
  <2>1. InBatch'
    BY <1>41
  <2>2. StagedSoFar'
    BY DEF StagedSoFar
  <2>3. AllStaged'
    BY DEF Loops, AllStaged
  <2>4. SingleFile' /\ Replacing'
    BY DEF SingleFile, Replacing
  <2>5. QED
    BY <2>1, <2>2, <2>3, <2>4 DEF Loops
<1>5. Verdicts'
  BY DEF Verdicts
<1>6. Numbered' /\ InOnePlace'
  BY <1>61, <1>62
<1>7. WhileStaging' /\ WhileBackingUp' /\ WhileInstalling'
  BY DEF WhileStaging, WhileBackingUp, WhileInstalling
<1>8. WhileCleaning' /\ WhileRemoving'
  BY DEF WhileCleaning, WhileRemoving
<1>12. Temporary'
  BY DEF Temporary
<1>14. QED
  BY <1>1, <1>2, <1>3, <1>4, <1>5, <1>6, <1>7, <1>8, <1>10, <1>11, <1>12, <1>13 DEF Places

\* The staged files go.
LEMMA SweepKeeps == ASSUME IInv, Sweep PROVE IInv'
<1> USE DEF Sweep, memory, about, IInv
<1>0. k' \in Int
  BY DEF Counters
<1>1. Counters'
  BY <1>0 DEF Counters
<1>2. Contained'
  BY DEF Contained
<1>3. Flags'
  BY DEF Flags
<1>4. Loops'
  <2>1. InBatch'
    BY DEF InBatch
  <2>2. StagedSoFar'
    BY DEF StagedSoFar
  <2>3. AllStaged'
    BY DEF AllStaged
  <2>4. SingleFile' /\ Replacing'
    BY DEF SingleFile, Replacing
  <2>5. QED
    BY <2>1, <2>2, <2>3, <2>4 DEF Loops
<1>5. Verdicts'
  BY DEF Verdicts
<1>6. Numbered' /\ InOnePlace'
  BY <1>1 DEF Numbered, InOnePlace
<1>7. WhileStaging' /\ WhileBackingUp' /\ WhileInstalling'
  BY DEF WhileStaging, WhileBackingUp, WhileInstalling
<1>8. WhileCleaning' /\ WhileRemoving' /\ WhileRestoring' /\ Outcome' /\ NothingWrittenIsLost'
  BY DEF WhileCleaning, WhileRemoving, WhileRestoring, Outcome, NothingWrittenIsLost
<1>12. Temporary'
  BY DEF Flags, Temporary
<1>14. QED
  BY <1>1, <1>2, <1>3, <1>4, <1>5, <1>6, <1>7, <1>8, <1>12 DEF Places

\* The process dies.
LEMMA ToolCrashKeeps == ASSUME IInv, ToolCrash PROVE IInv'
<1> USE DEF ToolCrash, disk, memory, about, IInv
<1>0. k' \in Int
  BY DEF Counters
<1>1. Counters'
  BY <1>0 DEF Counters
<1>2. Contained'
  BY DEF Contained
<1>3. Flags'
  BY DEF Flags
<1>4. Loops'
  <2>1. InBatch'
    BY DEF InBatch
  <2>2. StagedSoFar'
    BY DEF StagedSoFar
  <2>3. AllStaged'
    BY DEF AllStaged
  <2>4. SingleFile' /\ Replacing'
    BY DEF SingleFile, Replacing
  <2>5. QED
    BY <2>1, <2>2, <2>3, <2>4 DEF Loops
<1>5. Verdicts'
  BY DEF Verdicts
<1>6. Numbered' /\ InOnePlace'
  BY <1>1 DEF Numbered, InOnePlace
<1>7. WhileStaging' /\ WhileBackingUp' /\ WhileInstalling'
  BY DEF WhileStaging, WhileBackingUp, WhileInstalling
<1>8. WhileCleaning' /\ WhileRemoving' /\ WhileRestoring' /\ Outcome' /\ NothingWrittenIsLost'
  BY DEF WhileCleaning, WhileRemoving, WhileRestoring, Outcome, NothingWrittenIsLost
<1>12. Temporary'
  BY DEF Temporary
<1>14. QED
  BY <1>1, <1>2, <1>3, <1>4, <1>5, <1>6, <1>7, <1>8, <1>12 DEF Places
-----------------------------------------------------------------------------
\* Every step keeps the invariant.
LEMMA NextKeeps == ASSUME IInv, [FilesNext]_filesVars PROVE IInv'
<1>1. CASE UNCHANGED filesVars
  BY <1>1, StutterKeeps
<1>2. CASE \E t \in {"batch", "dump"}, n \in Files : StartRun(t, n)
  BY <1>2, StartRunKeeps
<1>3. CASE StageFile
  BY <1>3, StageFileKeeps
<1>4. CASE StageFails
  BY <1>4, StageFailsKeeps
<1>5. CASE NothingToBackUp
  BY <1>5, NothingToBackUpKeeps
<1>6. CASE BackUpTarget
  BY <1>6, BackUpTargetKeeps
<1>7. CASE BackUpFails
  BY <1>7, BackUpFailsKeeps
<1>8. CASE InstallFile
  BY <1>8, InstallFileKeeps
<1>9. CASE InstallFails
  BY <1>9, InstallFailsKeeps
<1>10. CASE ReplaceFile
  BY <1>10, ReplaceFileKeeps
<1>11. CASE ReplaceFails
  BY <1>11, ReplaceFailsKeeps
<1>12. CASE CleanBackup
  BY <1>12, CleanBackupKeeps
<1>13. CASE RemoveNew
  BY <1>13, RemoveNewKeeps
<1>14. CASE RestoreOld
  BY <1>14, RestoreOldKeeps
<1>15. CASE Sweep
  BY <1>15, SweepKeeps
<1>16. CASE ToolCrash
  BY <1>16, ToolCrashKeeps
<1>17. QED
  BY <1>1, <1>2, <1>3, <1>4, <1>5, <1>6, <1>7, <1>8, <1>9, <1>10, <1>11, <1>12, <1>13,
     <1>14, <1>15, <1>16, Zenon DEF FilesNext

\* The invariant holds for batches of any size, any number of runs, failures and crashes.
THEOREM FilesInvariant == FilesSpec => []IInv
<1>1. FilesInit => IInv
  BY InitHolds
<1>2. IInv /\ [FilesNext]_filesVars => IInv'
  BY NextKeeps
<1>3. QED
  BY <1>1, <1>2, PTL DEF FilesSpec

\* What a tool last reported as written, or found, is at its place or in a backup, after any
\* file operation that fails and any death of the process (writeFilesAtomic).
THEOREM NothingIsLost == FilesSpec => []NothingWrittenIsLost
<1>1. IInv => NothingWrittenIsLost
  BY DEF IInv
<1>2. QED
  BY <1>1, FilesInvariant, PTL

\* A run that reports success has replaced every file of its batch, and one that reports an
\* error has left every file as it was, unless it says that the rollback failed too.
THEOREM ReportsHold == FilesSpec => []ReportsAreTrue
<1>1. IInv => ReportsAreTrue
  <2>1. SUFFICES ASSUME IInv, step = "done"
               PROVE  IF failed THEN undoFailed \/ target = before
                      ELSE target = [i \in Files |-> IF i \in Batch THEN run ELSE before[i]]
    BY DEF ReportsAreTrue
  <2>2. target \in [Files -> Contents] /\ before \in [Files -> Contents]
    BY <2>1 DEF IInv, Contained
  <2>3. CASE failed
    <3>1. undoFailed \/ \A i \in Files : target[i] = before[i]
      BY <2>1, <2>3, Zenon DEF IInv, Outcome
    <3>2. (\A i \in Files : target[i] = before[i]) => target = before
      BY <2>2
    <3>3. QED
      BY <2>3, <3>1, <3>2
  <2>4. CASE ~failed
    <3>1. \A i \in Files : target[i] = IF i <= count THEN run ELSE before[i]
      BY <2>1, <2>4, Zenon DEF IInv, Outcome
    <3>2. \A i \in Files : i \in Batch <=> i <= count
      BY <2>1, Parts DEF Batch
    <3>3. \A i \in Files : target[i] = IF i \in Batch THEN run ELSE before[i]
      BY <3>1, <3>2, Zenon
    <3>4. target = [i \in Files |-> IF i \in Batch THEN run ELSE before[i]]
      BY <2>2, <3>3, Zenon
    <3>5. QED
      BY <2>4, <3>4
  <2>5. QED
    BY <2>3, <2>4
<1>2. QED
  BY <1>1, FilesInvariant, PTL

\* A run that ends leaves no temporary file and no backup of its own, unless the removal of a
\* file failed.
THEOREM NothingLeft == FilesSpec => []NothingIsLeftBehind
<1>1. IInv => NothingIsLeftBehind
  <2>1. IInv => Outcome /\ Temporary
    BY DEF IInv
  <2>2. QED
    BY <2>1, Zenon DEF Outcome, Temporary, NothingIsLeftBehind
<1>2. QED
  BY <1>1, FilesInvariant, PTL
=============================================================================
