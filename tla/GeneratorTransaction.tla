------------------------ MODULE GeneratorTransaction ------------------------
(***************************************************************************)
(* The filesystem transaction of "ffd generate": the generated directory   *)
(* and the lock file that names it are replaced together or put back.      *)
(* Any file operation may fail, the process may die between any two, and a *)
(* power loss may undo whatever a directory was not synced after. A run    *)
(* stands for the bytes it generates; transaction names are its own, so    *)
(* what an earlier run left behind is never in the way of a later one.     *)
(***************************************************************************)
EXTENDS Naturals

CONSTANTS MaxRuns,   \* bound on the runs of the generator
          None

ASSUME GeneratorAssumption == MaxRuns \in Nat /\ None \notin Nat

Versions == 0..MaxRuns       \* 0 is what was there before the first run
Entry == Versions \cup {None}

VARIABLES
  runs,      \* how many runs passed their checks
  run,       \* the current or latest run: its step, what it found, what it did
  outcome,   \* "none", "succeeded", "failed" or "killed"
  broken,    \* whether an operation of its rollback failed
  parent,    \* directory of the output: the output and the backup of each run
  locks,     \* directory of the lock: the lock and the backup of each run
  parentPast, locksPast,   \* the states either had since it was synced
  edited,    \* versions whose files somebody changed by hand
  good       \* the last version that was committed, 0 for what was there

vars == <<runs, run, outcome, broken, parent, locks, parentPast, locksPast, edited, good>>

NoBackups == [n \in Versions |-> None]
Idle == [step |-> "idle", output |-> None, lock |-> None, backedUp |-> FALSE,
         installed |-> FALSE, lockBackedUp |-> FALSE, lockInstalled |-> FALSE]

(* Nothing yet, the result of an earlier run, or somebody else's directory.*)
Init ==
  /\ runs = 0 /\ run = Idle /\ outcome = "none" /\ broken = FALSE
  /\ \E output, lock \in {0, None} :
       /\ lock = 0 => output = 0
       /\ parent = [output |-> output, backups |-> NoBackups]
       /\ locks = [lock |-> lock, backups |-> NoBackups]
       /\ good = output
  /\ parentPast = {} /\ locksPast = {} /\ edited = {}

-----------------------------------------------------------------------------
(* Checks *)

(* Without force the directory has to be exactly what the lock says.       *)
Owned ==
  /\ parent.output = locks.lock
  /\ parent.output \notin edited

Begin(force) ==
  /\ run.step = "idle" /\ runs < MaxRuns
  /\ force \/ Owned
  /\ runs' = runs + 1
  /\ run' = [Idle EXCEPT !.step = "stage", !.output = parent.output, !.lock = locks.lock]
  /\ outcome' = "none" /\ broken' = FALSE
  /\ UNCHANGED <<parent, locks, parentPast, locksPast, edited, good>>

-----------------------------------------------------------------------------
(* Commit *)

At(step) == run.step = step
Goto(step) == run' = [run EXCEPT !.step = step]

Parent(output, backup) ==
  /\ parent' = [output |-> output, backups |-> [parent.backups EXCEPT ![runs] = backup]]
  /\ parentPast' = parentPast \cup {parent}
Locks(lock, backup) ==
  /\ locks' = [lock |-> lock, backups |-> [locks.backups EXCEPT ![runs] = backup]]
  /\ locksPast' = locksPast \cup {locks}

SameParent == UNCHANGED <<parent, parentPast>>
SameLocks == UNCHANGED <<locks, locksPast>>
SameRuns == UNCHANGED <<runs, outcome, broken, edited, good>>

(* The staged files and their directory are synced one by one.             *)
Stage ==
  /\ At("stage") /\ Goto(IF run.output # None THEN "backup" ELSE "install")
  /\ SameParent /\ SameLocks /\ SameRuns

BackupOutput ==
  /\ At("backup")
  /\ Parent(None, parent.output)
  /\ run' = [run EXCEPT !.step = "install", !.backedUp = TRUE]
  /\ SameLocks /\ SameRuns

InstallOutput ==
  /\ At("install")
  /\ Parent(runs, parent.backups[runs])
  /\ run' = [run EXCEPT !.step = "syncOutput", !.installed = TRUE]
  /\ SameLocks /\ SameRuns

(* Mutant: the directory of the output is not synced.                      *)
PassSyncOutput ==
  /\ At("syncOutput") /\ Goto("writeLock")
  /\ SameParent /\ SameLocks /\ SameRuns

SyncOutput ==
  /\ At("syncOutput") /\ Goto("writeLock")
  /\ parentPast' = {} /\ UNCHANGED parent
  /\ SameLocks /\ SameRuns

(* The lock is written to a temporary file, which is synced.               *)
WriteLock ==
  /\ At("writeLock") /\ Goto(IF run.lock # None THEN "backupLock" ELSE "installLock")
  /\ SameParent /\ SameLocks /\ SameRuns

BackupLock ==
  /\ At("backupLock")
  /\ Locks(None, locks.lock)
  /\ run' = [run EXCEPT !.step = "installLock", !.lockBackedUp = TRUE]
  /\ SameParent /\ SameRuns

InstallLock ==
  /\ At("installLock")
  /\ Locks(runs, locks.backups[runs])
  /\ run' = [run EXCEPT !.step = "syncLock", !.lockInstalled = TRUE]
  /\ SameParent /\ SameRuns

SyncLock ==
  /\ At("syncLock") /\ Goto("removeBackup")
  /\ locksPast' = {} /\ UNCHANGED locks
  /\ good' = runs
  /\ SameParent /\ UNCHANGED <<runs, outcome, broken, edited>>

(* The transaction is committed. The backups go; one that cannot be      *)
(* removed stays.                                                          *)
RemoveBackup ==
  /\ At("removeBackup") /\ Goto("removeLockBackup")
  /\ Parent(parent.output, None) \/ SameParent
  /\ SameLocks /\ SameRuns

RemoveLockBackup ==
  /\ At("removeLockBackup") /\ Goto("idle")
  /\ Locks(locks.lock, None) \/ SameLocks
  /\ outcome' = "succeeded"
  /\ SameParent /\ UNCHANGED <<runs, broken, edited, good>>

-----------------------------------------------------------------------------
(* Rollback *)

(* Any operation of the commit fails: what was renamed is put back.        *)
Fail ==
  /\ run.step \in {"stage", "backup", "install", "syncOutput", "writeLock",
                   "backupLock", "installLock", "syncLock"}
  /\ Goto("undoLock")
  /\ SameParent /\ SameLocks /\ SameRuns

(* An operation of the rollback that fails is passed over.                 *)
PassOver(next) ==
  /\ Goto(next) /\ broken' = TRUE
  /\ SameParent /\ SameLocks /\ UNCHANGED <<runs, outcome, edited, good>>

UndoLock ==
  /\ At("undoLock")
  /\ \/ /\ Goto("restoreLock")
        /\ IF run.lockInstalled THEN Locks(None, locks.backups[runs]) ELSE SameLocks
        /\ SameParent /\ SameRuns
     \/ run.lockInstalled /\ PassOver("restoreLock")

(* Mutant: the old lock is put back only when the new one was there.       *)
RestoreInstalledLock ==
  /\ At("restoreLock")
  /\ \/ /\ Goto("undoOutput")
        /\ IF run.lockInstalled /\ run.lockBackedUp
           THEN Locks(locks.backups[runs], None) ELSE SameLocks
        /\ SameParent /\ SameRuns
     \/ run.lockBackedUp /\ PassOver("undoOutput")

RestoreLock ==
  /\ At("restoreLock")
  /\ \/ /\ Goto("undoOutput")
        /\ IF run.lockBackedUp THEN Locks(locks.backups[runs], None) ELSE SameLocks
        /\ SameParent /\ SameRuns
     \/ run.lockBackedUp /\ PassOver("undoOutput")

UndoOutput ==
  /\ At("undoOutput")
  /\ \/ /\ Goto("restoreOutput")
        /\ IF run.installed THEN Parent(None, parent.backups[runs]) ELSE SameParent
        /\ SameLocks /\ SameRuns
     \/ run.installed /\ PassOver("restoreOutput")

(* A directory is not renamed over another one.                            *)
RestoreOutput ==
  /\ At("restoreOutput")
  /\ \/ /\ Goto("removeLeftovers")
        /\ run.backedUp => parent.output = None
        /\ IF run.backedUp THEN Parent(parent.backups[runs], None) ELSE SameParent
        /\ SameLocks /\ SameRuns
     \/ run.backedUp /\ PassOver("removeLeftovers")

(* Mutant: the backup of the output is removed with the leftovers.         *)
RemoveEveryLeftover ==
  /\ At("removeLeftovers") /\ Goto("idle")
  /\ Parent(parent.output, None)
  /\ Locks(locks.lock, None) \/ SameLocks
  /\ outcome' = "failed"
  /\ UNCHANGED <<runs, broken, edited, good>>

(* Staging, the temporary lock and the backup of the lock are removed.     *)
RemoveLeftovers ==
  /\ At("removeLeftovers") /\ Goto("idle")
  /\ Locks(locks.lock, None) \/ SameLocks
  /\ outcome' = "failed"
  /\ SameParent /\ UNCHANGED <<runs, broken, edited, good>>

-----------------------------------------------------------------------------
(* What happens to the run from outside *)

Crash ==
  /\ ~At("idle") /\ Goto("idle")
  /\ outcome' = "killed"
  /\ SameParent /\ SameLocks /\ UNCHANGED <<runs, broken, edited, good>>

PowerLoss ==
  /\ parent' \in parentPast \cup {parent} /\ locks' \in locksPast \cup {locks}
  /\ parentPast' = {} /\ locksPast' = {}
  /\ Goto("idle")
  /\ outcome' = IF outcome = "succeeded" THEN outcome ELSE "killed"
  /\ UNCHANGED <<runs, broken, edited, good>>

(* Somebody changes a generated file, between runs or during one.          *)
Edit ==
  /\ parent.output # None
  /\ edited' = edited \cup {parent.output}
  /\ UNCHANGED <<runs, run, outcome, broken, parent, locks, parentPast, locksPast, good>>

Commit ==
  \/ Stage \/ BackupOutput \/ InstallOutput \/ SyncOutput
  \/ WriteLock \/ BackupLock \/ InstallLock \/ SyncLock
  \/ RemoveBackup \/ RemoveLockBackup

Rollback == UndoLock \/ RestoreLock \/ UndoOutput \/ RestoreOutput \/ RemoveLeftovers

Next ==
  \/ \E force \in BOOLEAN : Begin(force)
  \/ Commit \/ Fail \/ Rollback \/ Crash \/ PowerLoss \/ Edit

Spec == Init /\ [][Next]_vars

-----------------------------------------------------------------------------
TypeOK ==
  /\ runs \in Versions /\ good \in Entry /\ edited \subseteq Versions
  /\ parent \in [output : Entry, backups : [Versions -> Entry]]
  /\ locks \in [lock : Entry, backups : [Versions -> Entry]]

(* "Rolls back from a backup on any injected failure": a run that reports  *)
(* a failure leaves the output and the lock it found, whichever operation  *)
(* failed, unless an operation of the rollback failed too.                 *)
AllOrNothing ==
  outcome = "failed" /\ ~broken =>
    parent.output = run.output /\ locks.lock = run.lock

(* What a run reported success for is there, output and lock, and a power  *)
(* loss does not take it back.                                             *)
SuccessIsDurable ==
  outcome = "succeeded" => parent.output = runs /\ locks.lock = runs

(* The output of the last committed run is on disk, in its place or in a  *)
(* backup, until another run commits: whatever fails, in the commit or in *)
(* the rollback, however often runs are killed, forced and killed again.   *)
LastGoodSurvives ==
  good # None => \/ parent.output = good
                 \/ \E n \in Versions : parent.backups[n] = good
=============================================================================
