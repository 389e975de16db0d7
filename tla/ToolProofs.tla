------------------------------ MODULE ToolProofs ------------------------------
(***************************************************************************)
(* What the tools of the command line promise, for any number of runs of   *)
(* the generator, any project the editor shows and any platform a pull     *)
(* reads.                                                                  *)
(***************************************************************************)
EXTENDS ProjectTools, TLAPS

-----------------------------------------------------------------------------
(* Generator *)

GeneratorSteps ==
  {"idle", "stage", "backup", "install", "syncOutput", "writeLock", "backupLock",
   "installLock", "syncLock", "removeBackup", "removeLockBackup",
   "undoLock", "restoreLock", "undoOutput", "restoreOutput", "removeLeftovers"}

ParentType == [output : Entry, backups : [Versions -> Entry]]
LocksType == [lock : Entry, backups : [Versions -> Entry]]

RunType ==
  [step : GeneratorSteps, output : Entry, lock : Entry, backedUp : BOOLEAN,
   installed : BOOLEAN, lockBackedUp : BOOLEAN, lockInstalled : BOOLEAN]

GeneratorTypes ==
  /\ TypeOK
  /\ run \in RunType
  /\ outcome \in {"none", "succeeded", "failed", "killed"} /\ broken \in BOOLEAN
  /\ parentPast \subseteq ParentType /\ locksPast \subseteq LocksType

(* The steps before, in and after each part of the commit. *)
Committed == {"removeBackup", "removeLockBackup"}
OutputSynced == {"writeLock", "backupLock", "installLock", "syncLock"} \cup Committed
Uncommitted == GeneratorSteps \ (Committed \cup {"idle"})

(* What the run notes of its commit is how far that commit has come. *)
Noted ==
  /\ run.step \in {"stage", "backup"} => ~run.backedUp
  /\ run.step \in {"stage", "backup", "install"} => ~run.installed
  /\ run.step = "install" => (run.backedUp \/ run.output = None)
  /\ run.step \in OutputSynced \cup {"syncOutput"} => run.installed
  /\ run.step \in {"stage", "backup", "install", "syncOutput", "writeLock", "backupLock"} =>
       ~run.lockBackedUp
  /\ run.step \in {"stage", "backup", "install", "syncOutput", "writeLock", "backupLock",
                   "installLock"} => ~run.lockInstalled
  /\ run.step = "installLock" => (run.lockBackedUp \/ run.lock = None)
  /\ run.step \in {"syncLock"} \cup Committed => run.lockInstalled

(* Before the rollback touches it, the output is where the notes say.      *)
OutputAsNoted ==
  /\ run.installed => parent.output = runs
  /\ run.backedUp => parent.backups[runs] = run.output
  /\ ~run.installed => parent.output = IF run.backedUp THEN None ELSE run.output
  /\ run.installed /\ ~run.backedUp => run.output = None

LockAsNoted ==
  /\ run.lockInstalled => locks.lock = runs
  /\ run.lockBackedUp => locks.backups[runs] = run.lock
  /\ ~run.lockInstalled => locks.lock = IF run.lockBackedUp THEN None ELSE run.lock
  /\ run.lockInstalled /\ ~run.lockBackedUp => run.lock = None

(* A rollback puts the lock back first and then the output.                *)
Transaction ==
  /\ run.step \in Uncommitted \ {"restoreOutput", "removeLeftovers"} => OutputAsNoted
  /\ run.step \in Uncommitted \ {"restoreLock", "undoOutput", "restoreOutput",
                                 "removeLeftovers"} => LockAsNoted
  /\ run.step = "restoreOutput" /\ ~broken =>
       IF run.backedUp THEN parent.output = None /\ parent.backups[runs] = run.output
       ELSE parent.output = run.output
  /\ run.step = "removeLeftovers" /\ ~broken => parent.output = run.output
  /\ run.step = "restoreLock" /\ ~broken =>
       IF run.lockBackedUp THEN locks.lock = None /\ locks.backups[runs] = run.lock
       ELSE locks.lock = run.lock
  /\ run.step \in {"undoOutput", "restoreOutput", "removeLeftovers"} /\ ~broken =>
       locks.lock = run.lock
  /\ outcome # "none" => run.step = "idle"

Parents == parentPast \cup {parent}
LockStates == locksPast \cup {locks}

(* From the sync on, every state a power loss may bring back has the output*)
(* of the run, and then its lock.                                          *)
Durable ==
  /\ run.step \in OutputSynced \/ outcome = "succeeded" =>
       \A p \in Parents : p.output = runs
  /\ run.step \in Committed \/ outcome = "succeeded" =>
       \A l \in LockStates : l.lock = runs

(* The backups of runs to come are free, so that none overwrites another.  *)
FreshBackups ==
  \A p \in Parents : \A n \in Versions :
    (IF run.step \in {"stage", "backup"} THEN n >= runs ELSE n > runs) => p.backups[n] = None

Holds(p) == p.output = good \/ \E n \in Versions : p.backups[n] = good

(* A run may remove its own output in a rollback: that was never committed.*)
Survives ==
  /\ good # None => \A p \in Parents : Holds(p)
  /\ good # None => good <= runs
  /\ run.step \in Uncommitted => good # runs
  /\ run.step \in Committed => good = runs

GeneratorInv ==
  /\ GeneratorTypes /\ Noted /\ Transaction /\ Durable /\ FreshBackups /\ Survives
  /\ AllOrNothing

(* A rename in the directory of the output or of the lock keeps its type.  *)
LEMMA RenamesKeepTypes ==
  ASSUME GeneratorTypes, NEW x \in Entry, NEW backup \in Entry
  PROVE  /\ Parent(x, backup) => parent' \in ParentType /\ parentPast' \subseteq ParentType
         /\ Locks(x, backup) => locks' \in LocksType /\ locksPast' \subseteq LocksType
         /\ SameParent => parent' \in ParentType /\ parentPast' \subseteq ParentType
         /\ SameLocks => locks' \in LocksType /\ locksPast' \subseteq LocksType
  BY DEF GeneratorTypes, TypeOK, ParentType, LocksType, Parent, Locks, SameParent, SameLocks

(* What a rename leaves in the directory of the lock, and a step in the    *)
(* notes.                                                                  *)
LEMMA LockRenamed ==
  ASSUME GeneratorTypes, NEW x, NEW backup, Locks(x, backup)
  PROVE  locks'.lock = x /\ locks'.backups[runs] = backup
  BY DEF GeneratorTypes, TypeOK, LocksType, Locks

LEMMA Goes ==
  ASSUME GeneratorTypes, NEW step, Goto(step)
  PROVE  /\ run'.step = step
         /\ run'.output = run.output /\ run'.lock = run.lock
         /\ run'.backedUp = run.backedUp /\ run'.installed = run.installed
         /\ run'.lockBackedUp = run.lockBackedUp /\ run'.lockInstalled = run.lockInstalled
  BY DEF GeneratorTypes, RunType, Goto

(* What a step may put in a place: the run itself, what was there, nothing.*)
LEMMA Entries ==
  ASSUME GeneratorTypes
  PROVE  /\ runs \in Entry /\ None \in Entry
         /\ parent.output \in Entry /\ parent.backups[runs] \in Entry
         /\ locks.lock \in Entry /\ locks.backups[runs] \in Entry
  BY DEF GeneratorTypes, TypeOK, Entry

(* A step of the run goes to another step and notes what it did. *)
LEMMA RunKeepsType ==
  ASSUME GeneratorTypes, NEW step \in GeneratorSteps
  PROVE  /\ Goto(step) => run' \in RunType
         /\ \A b \in BOOLEAN :
              /\ [run EXCEPT !.step = step, !.backedUp = b] \in RunType
              /\ [run EXCEPT !.step = step, !.installed = b] \in RunType
              /\ [run EXCEPT !.step = step, !.lockBackedUp = b] \in RunType
              /\ [run EXCEPT !.step = step, !.lockInstalled = b] \in RunType
  BY DEF GeneratorTypes, RunType, Goto

(* A step keeps the types if each part of the state keeps its own. *)
LEMMA GeneratorKeepsTypes ==
  ASSUME GeneratorTypes, [Next]_vars
  PROVE  GeneratorTypes'
<1> DEFINE Directories ==
      /\ parent' \in ParentType /\ parentPast' \subseteq ParentType
      /\ locks' \in LocksType /\ locksPast' \subseteq LocksType
<1> DEFINE Others ==
      /\ runs' \in Versions /\ good' \in Entry /\ edited' \subseteq Versions
      /\ outcome' \in {"none", "succeeded", "failed", "killed"} /\ broken' \in BOOLEAN
<1> USE DEF GeneratorSteps
<1> SUFFICES Directories /\ run' \in RunType /\ Others
  BY DEF GeneratorTypes, TypeOK, ParentType, LocksType
<1>a. SameRuns => Others
  BY DEF SameRuns, GeneratorTypes, TypeOK
<1>1. ASSUME NEW force \in BOOLEAN, Begin(force) PROVE Directories /\ run' \in RunType /\ Others
  <2>1. Directories
    BY <1>1 DEF Begin, GeneratorTypes, TypeOK, ParentType, LocksType
  <2>2. run' \in RunType
    BY <1>1, Entries DEF Begin, Idle, RunType
  <2>3. runs' \in Versions
    BY <1>1, GeneratorAssumption DEF Begin, GeneratorTypes, TypeOK, Versions
  <2>4. Others
    BY <1>1, <2>3 DEF Begin, GeneratorTypes, TypeOK
  <2> QED BY <2>1, <2>2, <2>4
<1>2. CASE Stage
  <2>1. Directories
    BY <1>2, RenamesKeepTypes, Entries DEF Stage
  <2>2. run' \in RunType
    BY <1>2, RunKeepsType DEF Stage
  <2>3. Others
    BY <1>2, <1>a, Entries DEF Stage, GeneratorTypes, TypeOK
  <2> QED BY <2>1, <2>2, <2>3
<1>3. CASE BackupOutput
  <2>1. Directories
    BY <1>3, RenamesKeepTypes, Entries DEF BackupOutput
  <2>2. run' \in RunType
    BY <1>3, RunKeepsType DEF BackupOutput
  <2>3. Others
    BY <1>3, <1>a, Entries DEF BackupOutput, GeneratorTypes, TypeOK
  <2> QED BY <2>1, <2>2, <2>3
<1>4. CASE InstallOutput
  <2>1. Directories
    BY <1>4, RenamesKeepTypes, Entries DEF InstallOutput
  <2>2. run' \in RunType
    BY <1>4, RunKeepsType DEF InstallOutput
  <2>3. Others
    BY <1>4, <1>a, Entries DEF InstallOutput, GeneratorTypes, TypeOK
  <2> QED BY <2>1, <2>2, <2>3
<1>5. CASE SyncOutput
  <2>1. Directories
    BY <1>5, RenamesKeepTypes, Entries DEF SyncOutput, GeneratorTypes, TypeOK, ParentType, LocksType
  <2>2. run' \in RunType
    BY <1>5, RunKeepsType DEF SyncOutput
  <2>3. Others
    BY <1>5, <1>a, Entries DEF SyncOutput, GeneratorTypes, TypeOK, GeneratorTypes, TypeOK,
        ParentType, LocksType
  <2> QED BY <2>1, <2>2, <2>3
<1>6. CASE WriteLock
  <2>1. Directories
    BY <1>6, RenamesKeepTypes, Entries DEF WriteLock
  <2>2. run' \in RunType
    BY <1>6, RunKeepsType DEF WriteLock
  <2>3. Others
    BY <1>6, <1>a, Entries DEF WriteLock, GeneratorTypes, TypeOK
  <2> QED BY <2>1, <2>2, <2>3
<1>7. CASE BackupLock
  <2>1. Directories
    BY <1>7, RenamesKeepTypes, Entries DEF BackupLock
  <2>2. run' \in RunType
    BY <1>7, RunKeepsType DEF BackupLock
  <2>3. Others
    BY <1>7, <1>a, Entries DEF BackupLock, GeneratorTypes, TypeOK
  <2> QED BY <2>1, <2>2, <2>3
<1>8. CASE InstallLock
  <2>1. Directories
    BY <1>8, RenamesKeepTypes, Entries DEF InstallLock
  <2>2. run' \in RunType
    BY <1>8, RunKeepsType DEF InstallLock
  <2>3. Others
    BY <1>8, <1>a, Entries DEF InstallLock, GeneratorTypes, TypeOK
  <2> QED BY <2>1, <2>2, <2>3
<1>9. CASE SyncLock
  <2>1. Directories
    BY <1>9, RenamesKeepTypes, Entries DEF SyncLock, GeneratorTypes, TypeOK, ParentType, LocksType
  <2>2. run' \in RunType
    BY <1>9, RunKeepsType DEF SyncLock
  <2>3. Others
    BY <1>9, <1>a, Entries DEF SyncLock, GeneratorTypes, TypeOK, GeneratorTypes, TypeOK,
        ParentType, LocksType
  <2> QED BY <2>1, <2>2, <2>3
<1>10. CASE RemoveBackup
  <2>1. Directories
    BY <1>10, RenamesKeepTypes, Entries DEF RemoveBackup
  <2>2. run' \in RunType
    BY <1>10, RunKeepsType DEF RemoveBackup
  <2>3. Others
    BY <1>10, <1>a, Entries DEF RemoveBackup, GeneratorTypes, TypeOK
  <2> QED BY <2>1, <2>2, <2>3
<1>11. CASE RemoveLockBackup
  <2>1. Directories
    BY <1>11, RenamesKeepTypes, Entries DEF RemoveLockBackup
  <2>2. run' \in RunType
    BY <1>11, RunKeepsType DEF RemoveLockBackup
  <2>3. Others
    BY <1>11, <1>a, Entries DEF RemoveLockBackup, GeneratorTypes, TypeOK
  <2> QED BY <2>1, <2>2, <2>3
<1>12. CASE Fail
  <2>1. Directories
    BY <1>12, RenamesKeepTypes, Entries DEF Fail
  <2>2. run' \in RunType
    BY <1>12, RunKeepsType DEF Fail
  <2>3. Others
    BY <1>12, <1>a, Entries DEF Fail, GeneratorTypes, TypeOK
  <2> QED BY <2>1, <2>2, <2>3
<1>13. CASE UndoLock
  <2>1. Directories
    BY <1>13, RenamesKeepTypes, Entries DEF UndoLock, PassOver
  <2>2. run' \in RunType
    BY <1>13, RunKeepsType DEF UndoLock, PassOver
  <2>3. Others
    BY <1>13, <1>a, Entries DEF UndoLock, GeneratorTypes, TypeOK, PassOver
  <2> QED BY <2>1, <2>2, <2>3
<1>14. CASE RestoreLock
  <2>1. Directories
    BY <1>14, RenamesKeepTypes, Entries DEF RestoreLock, PassOver
  <2>2. run' \in RunType
    BY <1>14, RunKeepsType DEF RestoreLock, PassOver
  <2>3. Others
    BY <1>14, <1>a, Entries DEF RestoreLock, GeneratorTypes, TypeOK, PassOver
  <2> QED BY <2>1, <2>2, <2>3
<1>15. CASE UndoOutput
  <2>1. Directories
    BY <1>15, RenamesKeepTypes, Entries DEF UndoOutput, PassOver
  <2>2. run' \in RunType
    BY <1>15, RunKeepsType DEF UndoOutput, PassOver
  <2>3. Others
    BY <1>15, <1>a, Entries DEF UndoOutput, GeneratorTypes, TypeOK, PassOver
  <2> QED BY <2>1, <2>2, <2>3
<1>16. CASE RestoreOutput
  <2>1. Directories
    BY <1>16, RenamesKeepTypes, Entries DEF RestoreOutput, PassOver
  <2>2. run' \in RunType
    BY <1>16, RunKeepsType DEF RestoreOutput, PassOver
  <2>3. Others
    BY <1>16, <1>a, Entries DEF RestoreOutput, GeneratorTypes, TypeOK, PassOver
  <2> QED BY <2>1, <2>2, <2>3
<1>17. CASE RemoveLeftovers
  <2>1. Directories
    BY <1>17, RenamesKeepTypes, Entries DEF RemoveLeftovers
  <2>2. run' \in RunType
    BY <1>17, RunKeepsType DEF RemoveLeftovers
  <2>3. Others
    BY <1>17, <1>a, Entries DEF RemoveLeftovers, GeneratorTypes, TypeOK
  <2> QED BY <2>1, <2>2, <2>3
<1>18. CASE Crash
  <2>1. Directories
    BY <1>18, RenamesKeepTypes, Entries DEF Crash
  <2>2. run' \in RunType
    BY <1>18, RunKeepsType DEF Crash
  <2>3. Others
    BY <1>18, <1>a, Entries DEF Crash, GeneratorTypes, TypeOK
  <2> QED BY <2>1, <2>2, <2>3
<1>19. CASE PowerLoss
  <2>1. Directories
    BY <1>19 DEF PowerLoss, GeneratorTypes, TypeOK, ParentType, LocksType
  <2>2. run' \in RunType /\ Others
    BY <1>19, RunKeepsType DEF PowerLoss, GeneratorTypes, TypeOK
  <2> QED BY <2>1, <2>2
<1>20. CASE Edit
  BY <1>20 DEF Edit, GeneratorTypes, TypeOK, ParentType, LocksType, Entry
<1>21. CASE UNCHANGED vars
  BY <1>21 DEF vars, GeneratorTypes, TypeOK, ParentType, LocksType
<1> QED
  BY <1>1, <1>2, <1>3, <1>4, <1>5, <1>6, <1>7, <1>8, <1>9, <1>10, <1>11, <1>12, <1>13, <1>14,
      <1>15, <1>16, <1>17, <1>18, <1>19, <1>20, <1>21 DEF Next, Commit, Rollback

(* A step notes what it does with the places themselves: the notes hold   *)
(* what the rollback needs to know. A crash leaves nothing to roll back.   *)
LEMMA GeneratorKeepsNotes ==
  ASSUME GeneratorTypes, Noted, [Next]_vars
  PROVE  Noted'
<1> USE GeneratorAssumption DEF GeneratorTypes, TypeOK, RunType, GeneratorSteps, ParentType,
    LocksType, Versions, Entry, Uncommitted, OutputSynced, Committed, Noted
<1>1. ASSUME NEW force \in BOOLEAN, Begin(force) PROVE Noted'
  BY <1>1 DEF Begin, Idle
<1>2. CASE Stage
  BY <1>2 DEF Stage, At, Goto, SameParent, SameLocks, SameRuns
<1>3. CASE BackupOutput
  BY <1>3 DEF BackupOutput, At, Parent, SameLocks, SameRuns
<1>4. CASE InstallOutput
  BY <1>4 DEF InstallOutput, At, Parent, SameLocks, SameRuns
<1>5. CASE SyncOutput
  BY <1>5 DEF SyncOutput, At, Goto, SameLocks, SameRuns
<1>6. CASE WriteLock
  BY <1>6 DEF WriteLock, At, Goto, SameParent, SameLocks, SameRuns
<1>7. CASE BackupLock
  BY <1>7 DEF BackupLock, At, Locks, SameParent, SameRuns
<1>8. CASE InstallLock
  BY <1>8 DEF InstallLock, At, Locks, SameParent, SameRuns
<1>9. CASE SyncLock
  BY <1>9 DEF SyncLock, At, Goto, SameParent
<1>10. CASE RemoveBackup
  BY <1>10 DEF RemoveBackup, At, Goto, Parent, SameParent, SameLocks, SameRuns
<1>11. CASE RemoveLockBackup
  BY <1>11 DEF RemoveLockBackup, At, Goto, Locks, SameParent, SameLocks
<1>12. CASE Fail
  BY <1>12 DEF Fail, Goto, SameParent, SameLocks, SameRuns
<1>13. CASE UndoLock
  BY <1>13 DEF UndoLock, At, Goto, Locks, SameParent, SameLocks, SameRuns, PassOver
<1>14. CASE RestoreLock
  BY <1>14 DEF RestoreLock, At, Goto, Locks, SameParent, SameLocks, SameRuns, PassOver
<1>15. CASE UndoOutput
  BY <1>15 DEF UndoOutput, At, Goto, Parent, SameParent, SameLocks, SameRuns, PassOver
<1>16. CASE RestoreOutput
  BY <1>16 DEF RestoreOutput, At, Goto, Parent, SameParent, SameLocks, SameRuns, PassOver
<1>17. CASE RemoveLeftovers
  BY <1>17 DEF RemoveLeftovers, At, Goto, Locks, SameParent, SameLocks
<1>18. CASE Crash
  BY <1>18 DEF Crash, At, Goto, SameParent, SameLocks
<1>19. CASE PowerLoss
  BY <1>19 DEF PowerLoss, Goto
<1>20. CASE Edit
  BY <1>20 DEF Edit
<1>21. CASE UNCHANGED vars
  BY <1>21 DEF vars
<1> QED
  BY <1>1, <1>2, <1>3, <1>4, <1>5, <1>6, <1>7, <1>8, <1>9, <1>10, <1>11, <1>12, <1>13, <1>14,
      <1>15, <1>16, <1>17, <1>18, <1>19, <1>20, <1>21
  DEF Next, Commit, Rollback

(* Each rename and its note are made together, and each step of the        *)
(* rollback takes back what the notes say, or sets "broken".               *)
LEMMA GeneratorKeepsTransaction ==
  ASSUME GeneratorTypes, Noted, Transaction, [Next]_vars
  PROVE  Transaction'
<1> USE GeneratorAssumption DEF GeneratorTypes, TypeOK, RunType, GeneratorSteps, ParentType,
    LocksType, Versions, Entry, Uncommitted, OutputSynced, Committed, Noted, Transaction,
    OutputAsNoted, LockAsNoted
<1>1. ASSUME NEW force \in BOOLEAN, Begin(force) PROVE Transaction'
  BY <1>1 DEF Begin, Idle
<1>2. CASE Stage
  BY <1>2 DEF Stage, At, Goto, SameParent, SameLocks, SameRuns
<1>3. CASE BackupOutput
  BY <1>3 DEF BackupOutput, At, Parent, SameLocks, SameRuns
<1>4. CASE InstallOutput
  BY <1>4 DEF InstallOutput, At, Parent, SameLocks, SameRuns
<1>5. CASE SyncOutput
  BY <1>5 DEF SyncOutput, At, Goto, SameLocks, SameRuns
<1>6. CASE WriteLock
  BY <1>6 DEF WriteLock, At, Goto, SameParent, SameLocks, SameRuns
<1>7. CASE BackupLock
  BY <1>7 DEF BackupLock, At, Locks, SameParent, SameRuns
<1>8. CASE InstallLock
  BY <1>8 DEF InstallLock, At, Locks, SameParent, SameRuns
<1>9. CASE SyncLock
  BY <1>9 DEF SyncLock, At, Goto, SameParent
<1>10. CASE RemoveBackup
  BY <1>10 DEF RemoveBackup, At, Goto, Parent, SameParent, SameLocks, SameRuns
<1>11. CASE RemoveLockBackup
  BY <1>11 DEF RemoveLockBackup, At, Goto, Locks, SameParent, SameLocks
<1>12. CASE Fail
  BY <1>12 DEF Fail, Goto, SameParent, SameLocks, SameRuns
<1>13. CASE UndoLock
  BY <1>13, SMTT(30)
    DEF UndoLock, At, Goto, Locks, SameParent, SameLocks, SameRuns, PassOver
<1>14. CASE RestoreLock
  <2>1. CASE ~run.lockBackedUp
    BY <1>14, <2>1 DEF RestoreLock, At, Goto, SameParent, SameLocks, SameRuns
  <2>2. CASE run.lockBackedUp /\ Locks(locks.backups[runs], None)
    <3> HIDE DEF GeneratorTypes, TypeOK, RunType, ParentType, LocksType
    <3>1. Goto("undoOutput") /\ run.step = "restoreLock" /\ (broken' \/ UNCHANGED broken)
      BY <1>14, <2>2 DEF RestoreLock, PassOver, At, SameRuns
    <3>2. /\ run'.step = "undoOutput"
          /\ run'.output = run.output /\ run'.lock = run.lock
          /\ run'.backedUp = run.backedUp /\ run'.installed = run.installed
      BY <3>1, Goes
    <3>3. UNCHANGED <<parent, runs, outcome>>
      BY <1>14 DEF RestoreLock, PassOver, SameParent, SameRuns
    <3>4. OutputAsNoted'
      BY <3>1, <3>2, <3>3
    <3>5. ~broken' => locks'.lock = run'.lock
      <4>1. locks'.lock = locks.backups[runs]
        BY <2>2, LockRenamed
      <4> QED BY <2>2, <3>1, <3>2, <4>1
    <3>6. outcome' = "none"
      BY <3>1, <3>3
    <3> HIDE DEF OutputAsNoted, LockAsNoted
    <3> QED BY <3>2, <3>4, <3>5, <3>6
  <2>3. CASE PassOver("undoOutput")
    BY <1>14, <2>3 DEF RestoreLock, At, Goto, SameParent, SameLocks, PassOver
  <2> QED BY <1>14, <2>1, <2>2, <2>3 DEF RestoreLock
<1>15. CASE UndoOutput
  BY <1>15, SMTT(30)
    DEF UndoOutput, At, Goto, Parent, SameParent, SameLocks, SameRuns, PassOver
<1>16. CASE RestoreOutput
  BY <1>16 DEF RestoreOutput, At, Goto, Parent, SameParent, SameLocks, SameRuns, PassOver
<1>17. CASE RemoveLeftovers
  BY <1>17 DEF RemoveLeftovers, At, Goto, Locks, SameParent, SameLocks
<1>18. CASE Crash
  BY <1>18 DEF Crash, At, Goto, SameParent, SameLocks
<1>19. CASE PowerLoss
  BY <1>19 DEF PowerLoss, Goto
<1>20. CASE Edit
  BY <1>20 DEF Edit
<1>21. CASE UNCHANGED vars
  BY <1>21 DEF vars
<1> QED
  BY <1>1, <1>2, <1>3, <1>4, <1>5, <1>6, <1>7, <1>8, <1>9, <1>10, <1>11, <1>12, <1>13, <1>14,
      <1>15, <1>16, <1>17, <1>18, <1>19, <1>20, <1>21
  DEF Next, Commit, Rollback

(* A sync leaves one state that a power loss may bring back; no step after *)
(* it takes the output, or then the lock, out of its place.                *)
LEMMA GeneratorKeepsDurable ==
  ASSUME GeneratorTypes, Noted, Transaction, Durable, [Next]_vars
  PROVE  Durable'
<1> USE GeneratorAssumption DEF GeneratorTypes, TypeOK, RunType, GeneratorSteps, ParentType,
    LocksType, Versions, Entry, Uncommitted, OutputSynced, Committed, Noted, Transaction,
    OutputAsNoted, LockAsNoted, Durable, Parents, LockStates
<1>1. ASSUME NEW force \in BOOLEAN, Begin(force) PROVE Durable'
  BY <1>1 DEF Begin, Idle
<1>2. CASE Stage
  BY <1>2 DEF Stage, At, Goto, SameParent, SameLocks, SameRuns
<1>3. CASE BackupOutput
  BY <1>3 DEF BackupOutput, At, Parent, SameLocks, SameRuns
<1>4. CASE InstallOutput
  BY <1>4 DEF InstallOutput, At, Parent, SameLocks, SameRuns
<1>5. CASE SyncOutput
  BY <1>5 DEF SyncOutput, At, Goto, SameLocks, SameRuns
<1>6. CASE WriteLock
  BY <1>6 DEF WriteLock, At, Goto, SameParent, SameLocks, SameRuns
<1>7. CASE BackupLock
  BY <1>7 DEF BackupLock, At, Locks, SameParent, SameRuns
<1>8. CASE InstallLock
  BY <1>8 DEF InstallLock, At, Locks, SameParent, SameRuns
<1>9. CASE SyncLock
  BY <1>9 DEF SyncLock, At, Goto, SameParent
<1>10. CASE RemoveBackup
  BY <1>10 DEF RemoveBackup, At, Goto, Parent, SameParent, SameLocks, SameRuns
<1>11. CASE RemoveLockBackup
  BY <1>11 DEF RemoveLockBackup, At, Goto, Locks, SameParent, SameLocks
<1>12. CASE Fail
  BY <1>12 DEF Fail, Goto, SameParent, SameLocks, SameRuns
<1>13. CASE UndoLock
  BY <1>13 DEF UndoLock, At, Goto, Locks, SameParent, SameLocks, SameRuns, PassOver
<1>14. CASE RestoreLock
  BY <1>14 DEF RestoreLock, At, Goto, Locks, SameParent, SameLocks, SameRuns, PassOver
<1>15. CASE UndoOutput
  BY <1>15 DEF UndoOutput, At, Goto, Parent, SameParent, SameLocks, SameRuns, PassOver
<1>16. CASE RestoreOutput
  BY <1>16 DEF RestoreOutput, At, Goto, Parent, SameParent, SameLocks, SameRuns, PassOver
<1>17. CASE RemoveLeftovers
  BY <1>17 DEF RemoveLeftovers, At, Goto, Locks, SameParent, SameLocks
<1>18. CASE Crash
  BY <1>18 DEF Crash, At, Goto, SameParent, SameLocks
<1>19. CASE PowerLoss
  BY <1>19 DEF PowerLoss, Goto
<1>20. CASE Edit
  BY <1>20 DEF Edit
<1>21. CASE UNCHANGED vars
  BY <1>21 DEF vars
<1> QED
  BY <1>1, <1>2, <1>3, <1>4, <1>5, <1>6, <1>7, <1>8, <1>9, <1>10, <1>11, <1>12, <1>13, <1>14,
      <1>15, <1>16, <1>17, <1>18, <1>19, <1>20, <1>21
  DEF Next, Commit, Rollback

(* A run only writes the backup that bears its own number. *)
LEMMA GeneratorKeepsFresh ==
  ASSUME GeneratorTypes, FreshBackups, [Next]_vars
  PROVE  FreshBackups'
<1> USE GeneratorAssumption DEF GeneratorTypes, TypeOK, RunType, GeneratorSteps, ParentType,
    LocksType, Versions, Entry, Uncommitted, OutputSynced, Committed, FreshBackups, Parents
<1>1. ASSUME NEW force \in BOOLEAN, Begin(force) PROVE FreshBackups'
  BY <1>1 DEF Begin, Idle
<1>2. CASE Stage
  BY <1>2 DEF Stage, At, Goto, SameParent, SameLocks, SameRuns
<1>3. CASE BackupOutput
  BY <1>3 DEF BackupOutput, At, Parent, SameLocks, SameRuns
<1>4. CASE InstallOutput
  BY <1>4 DEF InstallOutput, At, Parent, SameLocks, SameRuns
<1>5. CASE SyncOutput
  BY <1>5 DEF SyncOutput, At, Goto, SameLocks, SameRuns
<1>6. CASE WriteLock
  BY <1>6 DEF WriteLock, At, Goto, SameParent, SameLocks, SameRuns
<1>7. CASE BackupLock
  BY <1>7 DEF BackupLock, At, Locks, SameParent, SameRuns
<1>8. CASE InstallLock
  BY <1>8 DEF InstallLock, At, Locks, SameParent, SameRuns
<1>9. CASE SyncLock
  BY <1>9 DEF SyncLock, At, Goto, SameParent
<1>10. CASE RemoveBackup
  BY <1>10 DEF RemoveBackup, At, Goto, Parent, SameParent, SameLocks, SameRuns
<1>11. CASE RemoveLockBackup
  BY <1>11 DEF RemoveLockBackup, At, Goto, Locks, SameParent, SameLocks
<1>12. CASE Fail
  BY <1>12 DEF Fail, Goto, SameParent, SameLocks, SameRuns
<1>13. CASE UndoLock
  BY <1>13 DEF UndoLock, At, Goto, Locks, SameParent, SameLocks, SameRuns, PassOver
<1>14. CASE RestoreLock
  BY <1>14 DEF RestoreLock, At, Goto, Locks, SameParent, SameLocks, SameRuns, PassOver
<1>15. CASE UndoOutput
  BY <1>15 DEF UndoOutput, At, Goto, Parent, SameParent, SameLocks, SameRuns, PassOver
<1>16. CASE RestoreOutput
  BY <1>16 DEF RestoreOutput, At, Goto, Parent, SameParent, SameLocks, SameRuns, PassOver
<1>17. CASE RemoveLeftovers
  BY <1>17 DEF RemoveLeftovers, At, Goto, Locks, SameParent, SameLocks
<1>18. CASE Crash
  BY <1>18 DEF Crash, At, Goto, SameParent, SameLocks
<1>19. CASE PowerLoss
  BY <1>19 DEF PowerLoss, Goto
<1>20. CASE Edit
  BY <1>20 DEF Edit
<1>21. CASE UNCHANGED vars
  BY <1>21 DEF vars
<1> QED
  BY <1>1, <1>2, <1>3, <1>4, <1>5, <1>6, <1>7, <1>8, <1>9, <1>10, <1>11, <1>12, <1>13, <1>14,
      <1>15, <1>16, <1>17, <1>18, <1>19, <1>20, <1>21
  DEF Next, Commit, Rollback

(* What was committed last goes to a backup before it is replaced, and the  *)
(* run removes only its own output and its own backup.                     *)
LEMMA GeneratorKeepsSurvives ==
  ASSUME GeneratorTypes, Noted, Transaction, Durable, FreshBackups, Survives, [Next]_vars
  PROVE  Survives'
<1> USE GeneratorAssumption DEF GeneratorTypes, TypeOK, RunType, GeneratorSteps, ParentType,
    LocksType, Versions, Entry, Uncommitted, OutputSynced, Committed, Noted, Transaction,
    OutputAsNoted, Durable, FreshBackups, Survives, Holds, Parents
<1>1. ASSUME NEW force \in BOOLEAN, Begin(force) PROVE Survives'
  BY <1>1 DEF Begin, Idle
<1>2. CASE Stage
  BY <1>2 DEF Stage, At, Goto, SameParent, SameLocks, SameRuns
<1>3. CASE BackupOutput
  BY <1>3 DEF BackupOutput, At, Parent, SameLocks, SameRuns
<1>4. CASE InstallOutput
  BY <1>4, SMTT(30)
    DEF InstallOutput, At, Parent, SameLocks, SameRuns
<1>5. CASE SyncOutput
  BY <1>5 DEF SyncOutput, At, Goto, SameLocks, SameRuns
<1>6. CASE WriteLock
  BY <1>6 DEF WriteLock, At, Goto, SameParent, SameLocks, SameRuns
<1>7. CASE BackupLock
  BY <1>7 DEF BackupLock, At, Locks, SameParent, SameRuns
<1>8. CASE InstallLock
  BY <1>8 DEF InstallLock, At, Locks, SameParent, SameRuns
<1>9. CASE SyncLock
  BY <1>9 DEF SyncLock, At, Goto, SameParent
<1>10. CASE RemoveBackup
  BY <1>10 DEF RemoveBackup, At, Goto, Parent, SameParent, SameLocks, SameRuns
<1>11. CASE RemoveLockBackup
  BY <1>11 DEF RemoveLockBackup, At, Goto, Locks, SameParent, SameLocks
<1>12. CASE Fail
  BY <1>12 DEF Fail, Goto, SameParent, SameLocks, SameRuns
<1>13. CASE UndoLock
  BY <1>13 DEF UndoLock, At, Goto, Locks, SameParent, SameLocks, SameRuns, PassOver
<1>14. CASE RestoreLock
  BY <1>14 DEF RestoreLock, At, Goto, Locks, SameParent, SameLocks, SameRuns, PassOver
<1>15. CASE UndoOutput
  BY <1>15, SMTT(30)
    DEF UndoOutput, At, Goto, Parent, SameParent, SameLocks, SameRuns, PassOver
<1>16. CASE RestoreOutput
  BY <1>16, SMTT(30)
    DEF RestoreOutput, At, Goto, Parent, SameParent, SameLocks, SameRuns, PassOver
<1>17. CASE RemoveLeftovers
  BY <1>17 DEF RemoveLeftovers, At, Goto, Locks, SameParent, SameLocks
<1>18. CASE Crash
  BY <1>18 DEF Crash, At, Goto, SameParent, SameLocks
<1>19. CASE PowerLoss
  BY <1>19 DEF PowerLoss, Goto
<1>20. CASE Edit
  BY <1>20 DEF Edit
<1>21. CASE UNCHANGED vars
  BY <1>21 DEF vars
<1> QED
  BY <1>1, <1>2, <1>3, <1>4, <1>5, <1>6, <1>7, <1>8, <1>9, <1>10, <1>11, <1>12, <1>13, <1>14,
      <1>15, <1>16, <1>17, <1>18, <1>19, <1>20, <1>21
  DEF Next, Commit, Rollback

(* The last step of a rollback finds both places as the run found them, and *)
(* nothing but another run or a power loss touches them after it.          *)
LEMMA GeneratorKeepsAll ==
  ASSUME GeneratorTypes, Transaction, AllOrNothing, [Next]_vars
  PROVE  AllOrNothing'
<1> USE GeneratorAssumption DEF GeneratorTypes, TypeOK, RunType, GeneratorSteps, ParentType,
    LocksType, Versions, Entry, Uncommitted, OutputSynced, Committed, Transaction, AllOrNothing
<1>1. ASSUME NEW force \in BOOLEAN, Begin(force) PROVE AllOrNothing'
  BY <1>1 DEF Begin, Idle
<1>2. CASE Stage
  BY <1>2 DEF Stage, At, Goto, SameParent, SameLocks, SameRuns
<1>3. CASE BackupOutput
  BY <1>3 DEF BackupOutput, At, Parent, SameLocks, SameRuns
<1>4. CASE InstallOutput
  BY <1>4 DEF InstallOutput, At, Parent, SameLocks, SameRuns
<1>5. CASE SyncOutput
  BY <1>5 DEF SyncOutput, At, Goto, SameLocks, SameRuns
<1>6. CASE WriteLock
  BY <1>6 DEF WriteLock, At, Goto, SameParent, SameLocks, SameRuns
<1>7. CASE BackupLock
  BY <1>7 DEF BackupLock, At, Locks, SameParent, SameRuns
<1>8. CASE InstallLock
  BY <1>8 DEF InstallLock, At, Locks, SameParent, SameRuns
<1>9. CASE SyncLock
  BY <1>9 DEF SyncLock, At, Goto, SameParent
<1>10. CASE RemoveBackup
  BY <1>10 DEF RemoveBackup, At, Goto, Parent, SameParent, SameLocks, SameRuns
<1>11. CASE RemoveLockBackup
  BY <1>11 DEF RemoveLockBackup, At, Goto, Locks, SameParent, SameLocks
<1>12. CASE Fail
  BY <1>12 DEF Fail, Goto, SameParent, SameLocks, SameRuns
<1>13. CASE UndoLock
  BY <1>13 DEF UndoLock, At, Goto, Locks, SameParent, SameLocks, SameRuns, PassOver
<1>14. CASE RestoreLock
  BY <1>14 DEF RestoreLock, At, Goto, Locks, SameParent, SameLocks, SameRuns, PassOver
<1>15. CASE UndoOutput
  BY <1>15 DEF UndoOutput, At, Goto, Parent, SameParent, SameLocks, SameRuns, PassOver
<1>16. CASE RestoreOutput
  BY <1>16 DEF RestoreOutput, At, Goto, Parent, SameParent, SameLocks, SameRuns, PassOver
<1>17. CASE RemoveLeftovers
  BY <1>17 DEF RemoveLeftovers, At, Goto, Locks, SameParent, SameLocks
<1>18. CASE Crash
  BY <1>18 DEF Crash, At, Goto, SameParent, SameLocks
<1>19. CASE PowerLoss
  BY <1>19 DEF PowerLoss, Goto
<1>20. CASE Edit
  BY <1>20 DEF Edit
<1>21. CASE UNCHANGED vars
  BY <1>21 DEF vars
<1> QED
  BY <1>1, <1>2, <1>3, <1>4, <1>5, <1>6, <1>7, <1>8, <1>9, <1>10, <1>11, <1>12, <1>13, <1>14,
      <1>15, <1>16, <1>17, <1>18, <1>19, <1>20, <1>21
  DEF Next, Commit, Rollback

(* Before the first run there is nothing to undo and nothing committed but *)
(* what was there.                                                         *)
LEMMA GeneratorStarts == Init => GeneratorInv
<1> SUFFICES ASSUME Init PROVE GeneratorInv
  OBVIOUS
<1>0. 0 \in Versions /\ 0 \in Entry /\ None \in Entry /\ NoBackups \in [Versions -> Entry]
  BY GeneratorAssumption DEF Versions, Entry, NoBackups
<1>1. GeneratorTypes
  <2>1. TypeOK /\ parentPast \subseteq ParentType /\ locksPast \subseteq LocksType
    BY <1>0 DEF Init, TypeOK
  <2>2. run \in RunType
    BY <1>0 DEF Init, Idle, RunType, GeneratorSteps
  <2> QED BY <2>1, <2>2 DEF Init, GeneratorTypes
<1>2. Noted /\ Transaction
  BY DEF Init, Idle, Noted, Transaction, OutputSynced, Committed, Uncommitted
<1>3. Durable /\ FreshBackups
  BY DEF Init, Idle, NoBackups, Durable, FreshBackups, Parents, OutputSynced, Committed
<1>4. Survives /\ AllOrNothing
  BY DEF Init, Idle, Survives, Holds, Parents, Uncommitted, Committed, AllOrNothing
<1> QED BY <1>1, <1>2, <1>3, <1>4 DEF GeneratorInv

(* The inductive invariant of the generator.                               *)
THEOREM GeneratorInvariant == Spec => []GeneratorInv
<1>1. GeneratorInv /\ [Next]_vars => GeneratorInv'
  BY GeneratorKeepsTypes, GeneratorKeepsNotes, GeneratorKeepsTransaction, GeneratorKeepsDurable,
     GeneratorKeepsFresh, GeneratorKeepsSurvives, GeneratorKeepsAll DEF GeneratorInv
<1> QED BY GeneratorStarts, <1>1, PTL DEF Spec

(* A run that reports a failure leaves the output and the lock it found,   *)
(* unless its rollback failed as well.                                     *)
THEOREM GeneratorAllOrNothing == Spec => []AllOrNothing
  BY GeneratorInvariant, PTL DEF GeneratorInv

(* What a run reported success for is on disk, and no power loss takes it  *)
(* back.                                                                   *)
THEOREM GeneratorSuccessIsDurable == Spec => []SuccessIsDurable
<1>1. GeneratorInv => SuccessIsDurable
  BY DEF GeneratorInv, Durable, Parents, LockStates, SuccessIsDurable
<1> QED BY <1>1, GeneratorInvariant, PTL

(* The output committed last is on disk, in its place or as a backup.      *)
THEOREM GeneratorLastGoodSurvives == Spec => []LastGoodSurvives
<1>1. GeneratorInv => LastGoodSurvives
  BY DEF GeneratorInv, Survives, Holds, Parents, LastGoodSurvives
<1> QED BY <1>1, GeneratorInvariant, PTL

-----------------------------------------------------------------------------
(* Editor *)

EditorTypes ==
  /\ EditorTypeOK
  /\ left \in [edits : Nat, pushes : Nat]

(* Only an open editor watches, reloads and asks.                          *)
ClosedIsQuiet ==
  /\ ~Open => /\ watched = {} /\ ~timer /\ ~rerun /\ loading = "no"
              /\ fetching = Unknown /\ view = NoView
  /\ rerun => loading # "no"
  /\ editor # "closed" => source # Unknown
  /\ editor \in {"prepared", "authorized"} => Says[source] # Invalid

Changed == {f \in Files : code[f] # source[f]}
ReloadIsDue == timer \/ rerun \/ loading = "begun"

(* A file that differs from what was extracted last is on its way to the   *)
(* process, was missed, or a reload that reads it is due; unless the last  *)
(* extraction failed as such.                                              *)
ChangesAreTracked ==
  editor # "closed" /\ (loading = "read" \/ view.diagnostic # "worker") =>
    Changed \subseteq missed \cup events \/ ReloadIsDue

(* Until the next extraction has read, the view is that of the last one.   *)
ViewIsOfSource ==
  Open /\ loading # "read" /\ view.diagnostic # "worker" =>
    IF view.valid THEN view.schema = Says[source] ELSE Says[source] = Invalid

ViewIsCompared == Open => (view.matches <=> view.valid /\ view.schema = known)

EditorInv ==
  /\ EditorTypes /\ ClosedIsQuiet /\ ChangesAreTracked /\ ViewIsOfSource /\ ViewIsCompared

(* Every step of the editor keeps the types. *)
LEMMA EditorKeepsTypes ==
  ASSUME EditorTypes, ClosedIsQuiet, [EditorNext]_editorVars
  PROVE  EditorTypes'
<1> USE EditorAssumption DEF EditorTypes, EditorTypeOK, Codes, ClosedIsQuiet, Open, watcherVars,
    hostedVars
<1>1. ASSUME NEW f \in Files, NEW text \in Texts, EditCode(f, text) PROVE EditorTypes'
  BY <1>1 DEF EditCode
<1>2. ASSUME NEW schema \in Schemas, PushSchema(schema) PROVE EditorTypes'
  BY <1>2 DEF PushSchema
<1>3. ASSUME NEW f \in Files, Notice(f) PROVE EditorTypes'
  BY <1>3 DEF Notice
<1>4. CASE Prepare
  BY <1>4 DEF Prepare
<1>5. CASE LoadHosted
  BY <1>5 DEF LoadHosted
<1>6. CASE StartWatching
  BY <1>6 DEF StartWatching, Valid
<1>7. CASE CloseEditor
  BY <1>7 DEF CloseEditor, Stopped, NoView
<1>8. CASE Reload
  BY <1>8 DEF Reload
<1>9. CASE Extract
  BY <1>9 DEF Extract
<1>10. CASE Extracted
  <2>1. source \in Codes /\ Says[source] \in Schemas
    BY <1>10 DEF Extracted
  <2>2. view' \in [schema : Schemas \cup {Unknown}, valid : BOOLEAN, matches : BOOLEAN,
               diagnostic : {"none", "schema", "worker"}]
    BY <1>10, <2>1 DEF Extracted, Valid
  <2>3. /\ stray' \subseteq watched' /\ events' \subseteq watched'
        /\ missed' \subseteq Files /\ watched' \subseteq Files
    BY <1>10, <2>1 DEF Extracted, Rewatch
  <2> QED BY <1>10, <2>1, <2>2, <2>3 DEF Extracted, EndReload
<1>11. CASE ExtractionFails
  <2>1. PICK diagnostic \in {"schema", "worker"} : Rejected(diagnostic)
    BY <1>11 DEF ExtractionFails
  <2>2. view' \in [schema : Schemas \cup {Unknown}, valid : BOOLEAN, matches : BOOLEAN,
               diagnostic : {"none", "schema", "worker"}]
    BY <2>1 DEF Rejected
  <2> QED BY <2>1, <2>2 DEF Rejected, EndReload
<1>12. CASE PollHosted
  BY <1>12 DEF PollHosted
<1>13. CASE HostedAnswered
  <2>1. view' \in [schema : Schemas \cup {Unknown}, valid : BOOLEAN, matches : BOOLEAN,
               diagnostic : {"none", "schema", "worker"}]
    BY <1>13 DEF HostedAnswered, StillMatches
  <2> QED BY <1>13, <2>1 DEF HostedAnswered
<1>14. CASE PollFails
  BY <1>14 DEF PollFails
<1>15. CASE UNCHANGED editorVars
  BY <1>15 DEF editorVars
<1>16. CASE WatchingFails
  <2>1. source \in Codes /\ Says[source] \in Schemas
    BY <1>16 DEF WatchingFails
  <2>2. view' \in [schema : Schemas \cup {Unknown}, valid : BOOLEAN, matches : BOOLEAN,
               diagnostic : {"none", "schema", "worker"}]
    BY <1>16, <2>1 DEF WatchingFails, Valid
  <2>3. PICK files \in SUBSET Reads[source] : Rewatch(files) /\ stray' = stray \cup files
    BY <1>16 DEF WatchingFails
  <2>4. /\ stray' \subseteq watched' /\ events' \subseteq watched'
        /\ missed' \subseteq Files /\ watched' \subseteq Files
    BY <2>1, <2>3 DEF Rewatch
  <2> QED BY <1>16, <2>1, <2>2, <2>4 DEF WatchingFails, EndReload
<1> QED
  BY <1>1, <1>2, <1>3, <1>4, <1>5, <1>6, <1>7, <1>8, <1>9, <1>10, <1>11, <1>12, <1>13, <1>14,
      <1>15, <1>16 DEF EditorNext

(* Closing the editor stops its timer, its extraction and its questions. *)
LEMMA EditorKeepsQuiet ==
  ASSUME EditorTypes, ClosedIsQuiet, [EditorNext]_editorVars
  PROVE  ClosedIsQuiet'
<1> USE EditorAssumption DEF EditorTypes, EditorTypeOK, Codes, ClosedIsQuiet, Open, watcherVars,
    hostedVars
<1>1. ASSUME NEW f \in Files, NEW text \in Texts, EditCode(f, text) PROVE ClosedIsQuiet'
  BY <1>1 DEF EditCode
<1>2. ASSUME NEW schema \in Schemas, PushSchema(schema) PROVE ClosedIsQuiet'
  BY <1>2 DEF PushSchema
<1>3. ASSUME NEW f \in Files, Notice(f) PROVE ClosedIsQuiet'
  BY <1>3 DEF Notice
<1>4. CASE Prepare
  BY <1>4 DEF Prepare
<1>5. CASE LoadHosted
  BY <1>5 DEF LoadHosted
<1>6. CASE StartWatching
  BY <1>6 DEF StartWatching, Valid
<1>7. CASE CloseEditor
  BY <1>7 DEF CloseEditor, Stopped, NoView
<1>8. CASE Reload
  BY <1>8 DEF Reload
<1>9. CASE Extract
  BY <1>9 DEF Extract
<1>10. CASE Extracted
  BY <1>10 DEF Extracted, Rewatch, Valid, EndReload
<1>11. CASE ExtractionFails
  BY <1>11 DEF ExtractionFails, EndReload, Rejected
<1>12. CASE PollHosted
  BY <1>12 DEF PollHosted
<1>13. CASE HostedAnswered
  BY <1>13 DEF HostedAnswered, StillMatches
<1>14. CASE PollFails
  BY <1>14 DEF PollFails
<1>15. CASE UNCHANGED editorVars
  BY <1>15 DEF editorVars
<1>16. CASE WatchingFails
  BY <1>16 DEF WatchingFails, Rewatch, Valid, EndReload
<1> QED
  BY <1>1, <1>2, <1>3, <1>4, <1>5, <1>6, <1>7, <1>8, <1>9, <1>10, <1>11, <1>12, <1>13, <1>14,
      <1>15, <1>16 DEF EditorNext

(* A change reaches the process or is missed, a reload that meets another   *)
(* one is asked for again, and a watcher that is closed may lose a change   *)
(* but not without the file being missed.                                  *)
LEMMA EditorTracksChanges ==
  ASSUME EditorTypes, ClosedIsQuiet, ChangesAreTracked, [EditorNext]_editorVars
  PROVE  ChangesAreTracked'
<1> USE EditorAssumption DEF EditorTypes, EditorTypeOK, Codes, ClosedIsQuiet, ChangesAreTracked,
    Changed, ReloadIsDue, Open, watcherVars, hostedVars
<1>1. ASSUME NEW f \in Files, NEW text \in Texts, EditCode(f, text) PROVE ChangesAreTracked'
  BY <1>1 DEF EditCode
<1>2. ASSUME NEW schema \in Schemas, PushSchema(schema) PROVE ChangesAreTracked'
  BY <1>2 DEF PushSchema
<1>3. ASSUME NEW f \in Files, Notice(f) PROVE ChangesAreTracked'
  BY <1>3 DEF Notice
<1>4. CASE Prepare
  BY <1>4 DEF Prepare
<1>5. CASE LoadHosted
  BY <1>5 DEF LoadHosted
<1>6. CASE StartWatching
  BY <1>6 DEF StartWatching, NoView, Valid
<1>7. CASE CloseEditor
  BY <1>7 DEF CloseEditor, Stopped, NoView
<1>8. CASE Reload
  BY <1>8 DEF Reload
<1>9. CASE Extract
  BY <1>9 DEF Extract
<1>10. CASE Extracted
  BY <1>10 DEF Extracted, Rewatch, Valid, EndReload
<1>11. CASE ExtractionFails
  BY <1>11 DEF ExtractionFails, EndReload, Rejected
<1>12. CASE PollHosted
  BY <1>12 DEF PollHosted
<1>13. CASE HostedAnswered
  BY <1>13 DEF HostedAnswered, StillMatches
<1>14. CASE PollFails
  BY <1>14 DEF PollFails
<1>15. CASE UNCHANGED editorVars
  BY <1>15 DEF editorVars
<1>16. CASE WatchingFails
  BY <1>16 DEF WatchingFails, Rewatch, Valid, EndReload
<1> QED
  BY <1>1, <1>2, <1>3, <1>4, <1>5, <1>6, <1>7, <1>8, <1>9, <1>10, <1>11, <1>12, <1>13, <1>14,
      <1>15, <1>16 DEF EditorNext

(* A reload ends with a view of what it read or with its diagnostic. *)
LEMMA EditorShowsSource ==
  ASSUME EditorTypes, ClosedIsQuiet, ViewIsOfSource, [EditorNext]_editorVars
  PROVE  ViewIsOfSource'
<1> USE EditorAssumption DEF EditorTypes, EditorTypeOK, Codes, ClosedIsQuiet, ViewIsOfSource,
    Open, watcherVars, hostedVars
<1>1. ASSUME NEW f \in Files, NEW text \in Texts, EditCode(f, text) PROVE ViewIsOfSource'
  BY <1>1 DEF EditCode
<1>2. ASSUME NEW schema \in Schemas, PushSchema(schema) PROVE ViewIsOfSource'
  BY <1>2 DEF PushSchema
<1>3. ASSUME NEW f \in Files, Notice(f) PROVE ViewIsOfSource'
  BY <1>3 DEF Notice
<1>4. CASE Prepare
  BY <1>4 DEF Prepare
<1>5. CASE LoadHosted
  BY <1>5 DEF LoadHosted
<1>6. CASE StartWatching
  BY <1>6 DEF StartWatching, Valid
<1>7. CASE CloseEditor
  BY <1>7 DEF CloseEditor, Stopped, NoView
<1>8. CASE Reload
  BY <1>8 DEF Reload
<1>9. CASE Extract
  BY <1>9 DEF Extract
<1>10. CASE Extracted
  BY <1>10 DEF Extracted, Rewatch, Valid, EndReload
<1>11. CASE ExtractionFails
  <2>1. CASE Rejected("worker")
    BY <2>1 DEF Rejected, EndReload
  <2>2. CASE loading = "read" /\ Says[source] = Invalid /\ Rejected("schema")
    BY <2>2 DEF Rejected, EndReload
  <2> QED BY <1>11, <2>1, <2>2 DEF ExtractionFails
<1>12. CASE PollHosted
  BY <1>12 DEF PollHosted
<1>13. CASE HostedAnswered
  BY <1>13 DEF HostedAnswered, StillMatches
<1>14. CASE PollFails
  BY <1>14 DEF PollFails
<1>15. CASE UNCHANGED editorVars
  BY <1>15 DEF editorVars
<1>16. CASE WatchingFails
  BY <1>16 DEF WatchingFails, Rewatch, Valid, EndReload
<1> QED
  BY <1>1, <1>2, <1>3, <1>4, <1>5, <1>6, <1>7, <1>8, <1>9, <1>10, <1>11, <1>12, <1>13, <1>14,
      <1>15, <1>16 DEF EditorNext

(* Both a new view and a new answer of the platform compare the two. *)
LEMMA EditorComparesView ==
  ASSUME EditorTypes, ClosedIsQuiet, ViewIsCompared, [EditorNext]_editorVars
  PROVE  ViewIsCompared'
<1> USE EditorAssumption DEF EditorTypes, EditorTypeOK, Codes, ClosedIsQuiet, ViewIsCompared,
    Open, watcherVars, hostedVars
<1>1. ASSUME NEW f \in Files, NEW text \in Texts, EditCode(f, text) PROVE ViewIsCompared'
  BY <1>1 DEF EditCode
<1>2. ASSUME NEW schema \in Schemas, PushSchema(schema) PROVE ViewIsCompared'
  BY <1>2 DEF PushSchema
<1>3. ASSUME NEW f \in Files, Notice(f) PROVE ViewIsCompared'
  BY <1>3 DEF Notice
<1>4. CASE Prepare
  BY <1>4 DEF Prepare
<1>5. CASE LoadHosted
  BY <1>5 DEF LoadHosted
<1>6. CASE StartWatching
  BY <1>6 DEF StartWatching, Valid
<1>7. CASE CloseEditor
  BY <1>7 DEF CloseEditor, Stopped, NoView
<1>8. CASE Reload
  BY <1>8 DEF Reload
<1>9. CASE Extract
  BY <1>9 DEF Extract
<1>10. CASE Extracted
  BY <1>10 DEF Extracted, Rewatch, Valid, EndReload
<1>11. CASE ExtractionFails
  <2>1. PICK diagnostic \in {"schema", "worker"} : Rejected(diagnostic)
    BY <1>11 DEF ExtractionFails
  <2> QED BY <2>1 DEF Rejected
<1>12. CASE PollHosted
  BY <1>12 DEF PollHosted
<1>13. CASE HostedAnswered
  BY <1>13 DEF HostedAnswered, StillMatches
<1>14. CASE PollFails
  BY <1>14 DEF PollFails
<1>15. CASE UNCHANGED editorVars
  BY <1>15 DEF editorVars
<1>16. CASE WatchingFails
  BY <1>16 DEF WatchingFails, Rewatch, Valid, EndReload
<1> QED
  BY <1>1, <1>2, <1>3, <1>4, <1>5, <1>6, <1>7, <1>8, <1>9, <1>10, <1>11, <1>12, <1>13, <1>14,
      <1>15, <1>16 DEF EditorNext

(* A closed editor shows nothing and watches nothing. *)
LEMMA EditorStarts == InitEditor => EditorInv
<1> SUFFICES ASSUME InitEditor PROVE EditorInv
  OBVIOUS
<1>1. EditorTypes
  BY EditorAssumption DEF InitEditor, EditorTypes, EditorTypeOK, NoView
<1>2. ClosedIsQuiet /\ ChangesAreTracked /\ ViewIsOfSource /\ ViewIsCompared
  BY DEF InitEditor, ClosedIsQuiet, ChangesAreTracked, ViewIsOfSource, ViewIsCompared, NoView, Open
<1> QED BY <1>1, <1>2 DEF EditorInv

(* The inductive invariant of the editor.                                  *)
THEOREM EditorInvariant == EditorSpec => []EditorInv
<1>1. EditorInv /\ [EditorNext]_editorVars => EditorInv'
  BY EditorKeepsTypes, EditorKeepsQuiet, EditorTracksChanges, EditorShowsSource, EditorComparesView
  DEF EditorInv
<1> QED BY EditorStarts, <1>1, PTL DEF EditorSpec

(* An editor at rest shows the schema, or the diagnostic, of the code on   *)
(* disk: the files that changed are not among those it reads.              *)
THEOREM EditorViewFollowsCode == EditorSpec => []ViewFollowsCode
<1>1. EditorInv => ViewFollowsCode
  <2> SUFFICES ASSUME EditorInv, Open PROVE ViewFollowsCode
    BY DEF ViewFollowsCode, AtRest
  <2>1. MayWrite <=> view.valid /\ view.schema = known
    BY DEF EditorInv, ViewIsCompared, MayWrite
  <2>2. ASSUME AtRest, missed \cap Reads[code] = {}, view.diagnostic # "worker"
        PROVE  Says[source] = Says[code]
    <3>1. source \in Codes /\ code \in Codes
      BY DEF EditorInv, EditorTypes, EditorTypeOK, ClosedIsQuiet, Open
    <3>2. Changed \subseteq missed
      BY <2>2
      DEF EditorInv, EditorTypes, EditorTypeOK, ClosedIsQuiet, ChangesAreTracked, ReloadIsDue,
          AtRest, Open
    <3>3. \A f \in Reads[code] : code[f] = source[f]
      BY <2>2, <3>1, <3>2, EditorAssumption DEF Changed
    <3> QED BY <3>1, <3>3, EditorAssumption
  <2>3. AtRest /\ view.diagnostic # "worker" =>
          IF view.valid THEN view.schema = Says[source] ELSE Says[source] = Invalid
    BY DEF EditorInv, ViewIsOfSource, AtRest
  <2> QED BY <2>1, <2>2, <2>3 DEF ViewFollowsCode
<1> QED BY <1>1, EditorInvariant, PTL

-----------------------------------------------------------------------------
(* Pull *)

(* Revisions only grow. What the first pass has read is therefore not newer *)
(* than the platform when that pass ends, and what the second pass reads is *)
(* not older: if they agree, neither differs from it. Locales come and go,  *)
(* but every page shows them, the last one at that very moment.             *)

FirstPassIsBehind ==
  pull.step = "first" => \A c \in Collections :
    IF c <= pull.cursor THEN pull.read[c] <= revision[c] ELSE pull.read[c] = 0

FirstPassEnded ==
  pull.step \in {"revisions", "second"} =>
    /\ pull.before.locales = taken.locales
    /\ \A c \in Collections : /\ pull.before.read[c] <= taken.read[c]
                              /\ taken.read[c] <= revision[c]

SecondPassIsAhead ==
  pull.step = "second" => \A c \in Collections :
    c <= pull.cursor => taken.read[c] <= pull.read[c]

PullInv ==
  /\ PullTypeOK
  /\ FirstPassIsBehind /\ FirstPassEnded /\ SecondPassIsAhead
  /\ PulledWasCurrent

(* A page of the manifest keeps the types of what has been read.           *)
LEMMA CollectedType ==
  ASSUME PullTypeOK, NEW page \in SUBSET Collections
  PROVE  Collected(page) \in [Collections -> Nat]
  BY DEF PullTypeOK, Collected

(* Cursors and collections are compared as numbers. *)
LEMMA CursorIsNat ==
  ASSUME PullTypeOK
  PROVE  pull.cursor \in Nat /\ \A c \in Collections : c \in Nat
<1>1. pull.cursor \in Collections \cup {0}
  BY DEF PullTypeOK
<1>2. \A c \in Collections : c \in Nat
  BY PullAssumption
<1>3. CASE pull.cursor \in Collections
  BY <1>2, <1>3
<1>4. CASE pull.cursor = 0
  BY <1>2, <1>4
<1> QED BY <1>1, <1>3, <1>4

(* A publication leaves every reading where it was and only moves a head.  *)
LEMMA PublishKeepsInv ==
  ASSUME PullInv, NEW c \in Collections, Publish(c)
  PROVE  PullInv'
<1>1. PullTypeOK'
  BY PullAssumption DEF PullInv, PullTypeOK, Publish
<1>2. \A d \in Collections : revision[d] \in Nat /\ revision'[d] \in Nat /\ revision[d] <= revision'[d]
  BY <1>1 DEF PullInv, PullTypeOK, Publish
<1>3. pull' = pull /\ taken' = taken
  BY DEF Publish
<1>4. FirstPassIsBehind'
  BY <1>2, <1>3 DEF PullInv, PullTypeOK, FirstPassIsBehind
<1>5. FirstPassEnded'
  BY <1>2, <1>3 DEF PullInv, PullTypeOK, FirstPassEnded, ReadingType
<1>6. SecondPassIsAhead' /\ PulledWasCurrent'
  BY <1>3 DEF PullInv, SecondPassIsAhead, PulledWasCurrent
<1> QED BY <1>1, <1>4, <1>5, <1>6 DEF PullInv

(* A page extends the pass by collections as they are now.                 *)
LEMMA ReadPageKeepsInv ==
  ASSUME PullInv, NEW last \in Collections, ReadPage(last)
  PROVE  PullInv'
<1> DEFINE read == Collected(UpTo(last))
<1>1. read \in [Collections -> Nat]
  BY CollectedType DEF PullInv, UpTo, Rest
<1>2. /\ pull' = [pull EXCEPT !.cursor = last, !.locales = locales, !.read = read]
      /\ UNCHANGED <<locales, revision, taken, changes>> /\ last > pull.cursor
  BY DEF ReadPage, Rest
<1> HIDE DEF read
<1>3. PullTypeOK'
  BY <1>1, <1>2 DEF PullInv, PullTypeOK
<1>4. /\ pull'.step = pull.step /\ pull'.cursor = last
      /\ pull'.read = read /\ pull'.before = pull.before
  BY <1>2 DEF PullInv, PullTypeOK
<1>5. \A c \in Collections :
        /\ c > pull.cursor /\ c <= last => read[c] = IF revision[c] # 0 THEN revision[c]
                                                     ELSE pull.read[c]
        /\ c <= pull.cursor \/ c > last => read[c] = pull.read[c]
  <2>1. \A c \in Collections : read[c] = IF c \in UpTo(last) THEN revision[c] ELSE pull.read[c]
    BY DEF read, Collected
  <2>2. \A c \in Collections : c \in UpTo(last) <=> c > pull.cursor /\ c <= last /\ revision[c] # 0
    BY DEF UpTo, Rest
  <2>3. pull.cursor \in Nat /\ last \in Nat /\ \A c \in Collections : c \in Nat
    BY CursorIsNat DEF PullInv
  <2>4. \A c \in Collections : c <= pull.cursor \/ c > last => c \notin UpTo(last)
    BY <2>2, <2>3
  <2>5. \A c \in Collections : c > pull.cursor /\ c <= last /\ c \notin UpTo(last) => revision[c] = 0
    BY <2>2
  <2> QED BY <2>1, <2>2, <2>4, <2>5
<1>6. FirstPassIsBehind'
  BY <1>1, <1>2, <1>4, <1>5, PullAssumption DEF PullInv, PullTypeOK, FirstPassIsBehind
<1>7. SecondPassIsAhead'
  BY <1>1, <1>2, <1>4, <1>5, PullAssumption
     DEF PullInv, PullTypeOK, SecondPassIsAhead, FirstPassEnded, ReadingType
<1>8. FirstPassEnded' /\ PulledWasCurrent'
  BY <1>2, <1>4 DEF PullInv, FirstPassEnded, PulledWasCurrent
<1> QED BY <1>3, <1>6, <1>7, <1>8 DEF PullInv

(* The first pass ends at the moment that "taken" records.                 *)
LEMMA EndFirstPassKeepsInv ==
  ASSUME PullInv, EndFirstPass
  PROVE  PullInv'
<1>1. Manifest \in ReadingType /\ Collected(Rest) \in [Collections -> Nat]
  BY CollectedType DEF PullInv, PullTypeOK, Rest, Manifest, ReadingType
<1>2. /\ pull' = [pull EXCEPT !.step = "revisions", !.before = Manifest]
      /\ taken' = Platform /\ UNCHANGED <<locales, revision, changes>>
      /\ pull.step = "first"
  BY DEF EndFirstPass
<1>3. PullTypeOK'
  BY <1>1, <1>2 DEF PullInv, PullTypeOK, Platform, ReadingType
<1>4. pull'.step = "revisions" /\ pull'.before = Manifest
  BY <1>2 DEF PullInv, PullTypeOK
<1>5. \A c \in Collections : Collected(Rest)[c] <= revision[c]
  BY <1>2, PullAssumption DEF PullInv, PullTypeOK, FirstPassIsBehind, Collected, Rest
<1>6. FirstPassEnded'
  BY <1>2, <1>4, <1>5 DEF FirstPassEnded, Manifest, Platform, PullInv, PullTypeOK
<1>7. FirstPassIsBehind' /\ SecondPassIsAhead' /\ PulledWasCurrent'
  BY <1>4 DEF FirstPassIsBehind, SecondPassIsAhead, PulledWasCurrent
<1> QED BY <1>3, <1>6, <1>7 DEF PullInv

(* A new pass has read nothing.                                            *)
LEMMA StartKeepsInv ==
  ASSUME PullInv, NEW n \in {0, 1}, pull' = StartOfPull(n),
         UNCHANGED <<locales, revision, taken, changes>>
  PROVE  PullInv'
<1>1. StartOfPull(n) = [step |-> "first", retried |-> n, cursor |-> 0, locales |-> locales,
                        read |-> NoRevisions, before |-> [locales |-> locales, read |-> NoRevisions]]
  BY DEF StartOfPull
<1>2. PullTypeOK'
  BY <1>1 DEF PullInv, PullTypeOK, ReadingType, NoRevisions
<1>3. FirstPassIsBehind'
  BY <1>1, PullAssumption DEF FirstPassIsBehind, NoRevisions, PullInv, PullTypeOK
<1>4. FirstPassEnded' /\ SecondPassIsAhead' /\ PulledWasCurrent'
  BY <1>1 DEF FirstPassEnded, SecondPassIsAhead, PulledWasCurrent
<1> QED BY <1>2, <1>3, <1>4 DEF PullInv

(* Two passes that agree leave no room for what lies between them.         *)
LEMMA EndSecondPassKeepsInv ==
  ASSUME PullInv, EndSecondPass
  PROVE  PullInv'
<1>1. pull.step = "second" /\ UNCHANGED <<locales, revision, taken, changes>>
  BY DEF EndSecondPass
<1>2. CASE Stable
  <2>1. pull' = [pull EXCEPT !.step = "pulled"]
    BY <1>2 DEF EndSecondPass
  <2>2. PullTypeOK' /\ pull'.step = "pulled" /\ pull'.before = pull.before
    BY <1>1, <2>1 DEF PullInv, PullTypeOK
  <2>3. \A c \in Collections : taken.read[c] <= Collected(Rest)[c]
    <3> SUFFICES ASSUME NEW c \in Collections PROVE taken.read[c] <= Collected(Rest)[c]
      OBVIOUS
    <3>1. taken.read[c] \in Nat /\ revision[c] \in Nat /\ pull.read[c] \in Nat
      BY DEF PullInv, PullTypeOK, ReadingType
    <3>2. taken.read[c] <= revision[c]
      BY <1>1 DEF PullInv, FirstPassEnded
    <3>3. c <= pull.cursor => taken.read[c] <= pull.read[c]
      BY <1>1 DEF PullInv, SecondPassIsAhead
    <3>4. Collected(Rest)[c] = IF c > pull.cursor /\ revision[c] # 0 THEN revision[c]
                                                                     ELSE pull.read[c]
      BY DEF Collected, Rest
    <3>5. c \in Nat /\ pull.cursor \in Nat
      BY CursorIsNat DEF PullInv
    <3> QED BY <3>1, <3>2, <3>3, <3>4, <3>5
  <2>4. pull.before.read = Collected(Rest)
    BY <1>2 DEF Stable, Manifest
  <2>5. \A c \in Collections : pull.before.read[c] = taken.read[c]
    BY <1>1, <2>3, <2>4 DEF PullInv, PullTypeOK, FirstPassEnded, ReadingType
  <2>6. pull.before.read = taken.read
    BY <2>5 DEF PullInv, PullTypeOK, ReadingType
  <2>7. pull.before.locales = taken.locales
    BY <1>1 DEF PullInv, FirstPassEnded
  <2>8. pull.before = taken
    BY <2>6, <2>7 DEF PullInv, PullTypeOK, ReadingType
  <2> QED BY <1>1, <2>2, <2>8
          DEF PullInv, PulledWasCurrent, FirstPassIsBehind, FirstPassEnded, SecondPassIsAhead
<1>3. CASE ~Stable /\ pull.retried = 0
  BY <1>1, <1>3, StartKeepsInv DEF EndSecondPass
<1>4. CASE ~Stable /\ pull.retried # 0
  <2>1. pull' = [pull EXCEPT !.step = "failed"]
    BY <1>4 DEF EndSecondPass
  <2> QED BY <1>1, <2>1 DEF PullInv, PullTypeOK, PulledWasCurrent, FirstPassIsBehind,
                            FirstPassEnded, SecondPassIsAhead
<1> QED BY <1>2, <1>3, <1>4

(* The invariant holds of every pull, for any number of collections, any   *)
(* size of a page and any number of changes.                               *)
THEOREM PullInvariant == PullSpec => []PullInv
<1>1. InitPull => PullInv
  BY PullAssumption DEF InitPull, PullInv, PullTypeOK, StartOfPull, NoRevisions, Platform,
     ReadingType, FirstPassIsBehind, FirstPassEnded, SecondPassIsAhead, PulledWasCurrent
<1>2. PullInv /\ [PullNext]_pullVars => PullInv'
  <2> SUFFICES ASSUME PullInv, [PullNext]_pullVars PROVE PullInv'
    OBVIOUS
  <2>1. ASSUME NEW c \in Collections, Publish(c) PROVE PullInv'
    BY <2>1, PublishKeepsInv
  <2>2. ASSUME NEW c \in Collections, ReadPage(c) PROVE PullInv'
    BY <2>2, ReadPageKeepsInv
  <2>3. ASSUME NEW list \in LocaleLists, ChangeLocales(list) PROVE PullInv'
    <3>1. PullTypeOK'
      BY <2>3, PullAssumption DEF ChangeLocales, PullInv, PullTypeOK
    <3> QED BY <2>3, <3>1 DEF ChangeLocales, PullInv, FirstPassIsBehind, FirstPassEnded,
                              SecondPassIsAhead, PulledWasCurrent
  <2>4. CASE BeginPull
    BY <2>4, StartKeepsInv DEF BeginPull
  <2>5. CASE EndFirstPass
    BY <2>5, EndFirstPassKeepsInv
  <2>6. CASE FetchRevisions
    <3>1. PullTypeOK' /\ pull'.step = "second" /\ pull'.cursor = 0 /\ pull'.before = pull.before
      BY <2>6 DEF FetchRevisions, PullInv, PullTypeOK, NoRevisions
    <3>2. FirstPassEnded' /\ FirstPassIsBehind' /\ PulledWasCurrent'
      BY <2>6, <3>1 DEF FetchRevisions, PullInv, FirstPassIsBehind, FirstPassEnded,
                        PulledWasCurrent
    <3>3. SecondPassIsAhead'
      BY <3>1, PullAssumption DEF SecondPassIsAhead
    <3> QED BY <3>1, <3>2, <3>3 DEF PullInv
  <2>7. CASE EndSecondPass
    BY <2>7, EndSecondPassKeepsInv
  <2>8. CASE LocalesChanged \/ PullFails
    BY <2>8 DEF LocalesChanged, PullFails, PullInv, PullTypeOK, FirstPassIsBehind,
                FirstPassEnded, SecondPassIsAhead, PulledWasCurrent
  <2>9. CASE UNCHANGED pullVars
    BY <2>9 DEF pullVars, PullInv, PullTypeOK, FirstPassIsBehind, FirstPassEnded,
                SecondPassIsAhead, PulledWasCurrent
  <2> QED BY <2>1, <2>2, <2>3, <2>4, <2>5, <2>6, <2>7, <2>8, <2>9 DEF PullNext
<1> QED BY <1>1, <1>2, PTL DEF PullSpec

(* A completed pull is a state the platform was in.                        *)
THEOREM PullIsASnapshot == PullSpec => []PulledWasCurrent
<1>1. PullInv => PulledWasCurrent
  BY DEF PullInv
<1> QED BY <1>1, PullInvariant, PTL

-----------------------------------------------------------------------------
(* What holds of a tool that runs alone holds beside the others: no tool   *)
(* writes what another one reads.                                          *)
THEOREM ToolsAreIndependent == ToolsSpec => Spec /\ EditorSpec /\ PullSpec
<1>1. ToolsInit => Init /\ InitEditor /\ InitPull
  BY DEF ToolsInit
<1>2. [ToolsNext]_<<vars, editorVars, pullVars, tool>> =>
        [Next]_vars /\ [EditorNext]_editorVars /\ [PullNext]_pullVars
  BY DEF ToolsNext
<1> QED BY <1>1, <1>2, PTL DEF ToolsSpec, Spec, EditorSpec, PullSpec
=============================================================================
