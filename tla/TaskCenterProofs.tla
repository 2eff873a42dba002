--------------------------- MODULE TaskCenterProofs ---------------------------
(***************************************************************************)
(* Theorems about TaskCenter for every value of the constants.             *)
(***************************************************************************)
EXTENDS TaskCenter, TLAPS

-----------------------------------------------------------------------------
(* Arithmetic of the clock.                                                *)

(* The first firing after an instant is an instant.                        *)
LEMMA NextFireNat ==
  ASSUME NEW sched \in Schedules, NEW at \in Nat
  PROVE  NextFire(sched, at) \in Nat
BY PeriodAssumption DEF NextFire

(* A lock taken at some instant expires at an instant, and not before.     *)
LEMMA LockExpiryNat ==
  ASSUME NEW at \in Nat
  PROVE  LockExpiry(at) \in Nat /\ LockExpiry(at) >= at
BY LeaseAssumption DEF LockExpiry

-----------------------------------------------------------------------------
(* The tables.  Run ids are handed out in order, and no statement of the   *)
(* repository gives a run to another task or runner.                       *)

RunsNumbered == \A r \in RunIds : r > runSeq => run[r] = Null

StoreInv == StoreTypeOK /\ LockMatchesRun /\ RunsNumbered

RunsKept ==
  /\ runSeq <= runSeq'
  /\ \A r \in RunIds : r <= runSeq /\ run'[r] # Null =>
       /\ run[r] # Null
       /\ run'[r].task = run[r].task
       /\ run'[r].runner = run[r].runner

(* What the statements make of a row is a row.                             *)
LEMMA VersionNat ==
  ASSUME NEW row \in TaskRow
  PROVE  row.version + 1 \in Nat /\ row.sched \in Schedules
BY DEF TaskRow

(* A recovered row is a row without a lock.                                *)
LEMMA RecoveredRow ==
  ASSUME NEW row \in TaskRow
  PROVE  Recovered(row) \in TaskRow /\ Recovered(row).lockedBy = 0
BY VersionNat DEF Recovered, TaskRow

(* A claimed row carries the lock and the run of the claim.                *)
LEMMA ClaimedRow ==
  ASSUME NEW row \in TaskRow, now \in Nat, NEW runner \in Nat, NEW id \in Nat
  PROVE  /\ Claimed(row, runner, id) \in TaskRow
         /\ Claimed(row, runner, id).lockedBy = runner
         /\ Claimed(row, runner, id).lockedUntil = LockExpiry(now)
         /\ Claimed(row, runner, id).lastRun = id
BY VersionNat, LockExpiryNat DEF Claimed, TaskRow

(* A completion leaves a row without a lock.                               *)
LEMMA FinishedRow ==
  ASSUME NEW row \in TaskRow, now \in Nat
  PROVE  Finished(row) \in TaskRow /\ Finished(row).lockedBy = 0
BY VersionNat, NextFireNat DEF Finished, TaskRow

(* releaseMatchingLock leaves a row without a lock.                        *)
LEMMA ReleasedRow ==
  ASSUME NEW row \in TaskRow
  PROVE  Released(row) \in TaskRow /\ Released(row).lockedBy = 0
BY DEF Released, TaskRow

(* The statements that change a row without touching its lock.             *)
SameLock(new, old) ==
  /\ new.lockedBy = old.lockedBy
  /\ new.lockedUntil = old.lockedUntil
  /\ new.lastRun = old.lastRun

(* Rescheduling moves the firing and leaves the lock alone.                *)
LEMMA RescheduledRow ==
  ASSUME NEW row \in TaskRow, NEW next \in Nat
  PROVE  Rescheduled(row, next) \in TaskRow /\ SameLock(Rescheduled(row, next), row)
BY VersionNat DEF Rescheduled, TaskRow, SameLock

(* buildTask yields a firing or none.                                      *)
LEMMA BuiltNextType ==
  ASSUME NEW enabled \in BOOLEAN, NEW sched \in Schedules, now \in Nat
  PROVE  BuiltNext(enabled, sched) \in Nat \cup {Null}
BY NextFireNat DEF BuiltNext

(* Update rewrites the definition and leaves the lock alone.               *)
LEMMA EditedRow ==
  ASSUME NEW row \in TaskRow, now \in Nat,
         NEW enabled \in BOOLEAN, NEW sched \in Schedules, NEW missed \in Policies
  PROVE  /\ Edited(row, enabled, sched, missed) \in TaskRow
         /\ SameLock(Edited(row, enabled, sched, missed), row)
BY VersionNat, BuiltNextType DEF Edited, BuiltStatus, TaskRow, SameLock

(* SetEnabled leaves the lock alone.                                       *)
LEMMA ToggledRow ==
  ASSUME NEW row \in TaskRow, NEW enabled \in BOOLEAN, NEW next \in Nat \cup {Null}
  PROVE  Toggled(row, enabled, next) \in TaskRow /\ SameLock(Toggled(row, enabled, next), row)
BY VersionNat DEF Toggled, BuiltStatus, TaskRow, SameLock

(* A new row is unlocked.                                                  *)
LEMMA NewRowType ==
  ASSUME now \in Nat,
         NEW enabled \in BOOLEAN, NEW sched \in Schedules, NEW missed \in Policies
  PROVE  NewRow(enabled, sched, missed) \in TaskRow /\ NewRow(enabled, sched, missed).lockedBy = 0
BY BuiltNextType DEF NewRow, BuiltStatus, TaskRow

(* A claim inserts a run row.                                              *)
LEMMA StartedRunRow ==
  ASSUME NEW t \in Tasks, NEW trigger \in {"schedule", "manual"},
         NEW runner \in Nat, NEW next \in Nat \cup {Null}
  PROVE  StartedRun(t, trigger, runner, next) \in RunRow
BY DEF StartedRun, RunRow

(* A task that exists has a row.                                           *)
LEMMA ExistingRow ==
  ASSUME StoreTypeOK, NEW t \in Tasks
  PROVE  Exists(t) <=> task[t] \in TaskRow
BY AbsentAssumption DEF StoreTypeOK, Exists

(* Recovery leaves rows of the same types, and releases exactly the locks  *)
(* of the runs it abandons.                                                *)
LEMMA RecoveredType ==
  ASSUME StoreTypeOK, NEW S \in SUBSET Tasks
  PROVE  /\ RecoveredTasks(S) \in [Tasks -> TaskRow \cup {Null, Deleted}]
         /\ RecoveredRuns(S) \in [RunIds -> RunRow \cup {Null}]
BY ExistingRow, RecoveredRow DEF RecoveredTasks, Expired, StoreTypeOK, RecoveredRuns, RunRow

-----------------------------------------------------------------------------
(* Every statement of the repository keeps StoreInv.                       *)

(* Names for the two halves of LockMatchesRun.                             *)
LocksHaveRuns ==
  \A t \in Tasks : Locked(t) =>
    /\ task[t].lockedUntil # Null
    /\ task[t].lastRun \in RunIds
    /\ Running(task[t].lastRun)
    /\ run[task[t].lastRun].task = t
    /\ run[task[t].lastRun].runner = task[t].lockedBy

RunsHaveLocks ==
  \A r \in RunIds : Running(r) => Locked(run[r].task) /\ task[run[r].task].lastRun = r

(* The two directions of the invariant, taken apart.                       *)
LEMMA LockHalves == LockMatchesRun <=> LocksHaveRuns /\ RunsHaveLocks
BY DEF LockMatchesRun, LocksHaveRuns, RunsHaveLocks

(* The same in the next state.                                             *)
LEMMA LockHalvesNext == LockMatchesRun' <=> LocksHaveRuns' /\ RunsHaveLocks'
BY DEF LockMatchesRun, LocksHaveRuns, RunsHaveLocks

(* A statement that leaves the locks and the runs alone.                   *)
LEMMA SameLockKeeps ==
  ASSUME StoreInv, NEW t \in Tasks, Exists(t), NEW row \in TaskRow,
         SameLock(row, task[t]),
         task' = [task EXCEPT ![t] = row],
         UNCHANGED <<now, run, runSeq>>
  PROVE  StoreInv' /\ RunsKept
<1>1. StoreTypeOK /\ LocksHaveRuns /\ RunsHaveLocks /\ RunsNumbered
  BY LockHalves DEF StoreInv
<1>2. StoreTypeOK'
  BY <1>1 DEF StoreTypeOK
<1>3. \A u \in Tasks : /\ Exists(u)' <=> Exists(u)
                       /\ Exists(u) => SameLock(task'[u], task[u])
  BY <1>1, AbsentAssumption DEF StoreTypeOK, Exists, SameLock
<1>4. \A u \in Tasks : Locked(u)' <=> Locked(u)
  BY <1>3 DEF Locked, SameLock
<1>5. \A r \in RunIds : Running(r)' <=> Running(r)
  BY DEF Running
<1>6. LocksHaveRuns'
  BY <1>1, <1>3, <1>4, <1>5 DEF LocksHaveRuns, Locked, SameLock
<1>7. RunsHaveLocks'
  BY <1>1, <1>5, <1>3, <1>4 DEF RunsHaveLocks, StoreTypeOK, Running, RunRow, Locked, SameLock
<1>8. RunsNumbered' /\ RunsKept
  BY <1>1 DEF RunsNumbered, RunsKept, StoreTypeOK
<1>9. QED
  BY <1>2, <1>6, <1>7, <1>8, LockHalvesNext DEF StoreInv

(* The loop's rescheduling keeps the tables consistent.                    *)
LEMMA UpdateNextRunKeeps ==
  ASSUME StoreInv, NEW t \in Tasks, NEW version, NEW next \in Nat,
         UpdateNextRun(t, version, next)
  PROVE  StoreInv' /\ RunsKept
BY ExistingRow, RescheduledRow, SameLockKeeps DEF UpdateNextRun, UpdateNextRunMatches, StoreInv

(* So does an edit, even of a task that is running.                        *)
LEMMA UpdateRowKeeps ==
  ASSUME StoreInv, NEW t \in Tasks, NEW enabled \in BOOLEAN,
         NEW sched \in Schedules, NEW missed \in Policies,
         UpdateRow(t, enabled, sched, missed)
  PROVE  StoreInv' /\ RunsKept
BY ExistingRow, EditedRow, SameLockKeeps DEF UpdateRow, StoreInv, StoreTypeOK

(* So does a step that touches no table.                                   *)
LEMMA StutterKeeps ==
  ASSUME StoreInv, UNCHANGED storeVars
  PROVE  StoreInv' /\ RunsKept
<1>1. StoreTypeOK /\ LocksHaveRuns /\ RunsHaveLocks /\ RunsNumbered
  BY LockHalves DEF StoreInv
<1>2. StoreTypeOK' /\ LocksHaveRuns' /\ RunsHaveLocks' /\ RunsNumbered'
  BY <1>1 DEF storeVars, StoreTypeOK, LocksHaveRuns, RunsHaveLocks, RunsNumbered,
              Locked, Exists, Running
<1>3. QED
  BY <1>1, <1>2, LockHalvesNext DEF StoreInv, RunsKept, storeVars, StoreTypeOK

(* So does switching a task on or off, with a stale firing too.            *)
LEMMA SetEnabledRowKeeps ==
  ASSUME StoreInv, NEW t \in Tasks, NEW enabled \in BOOLEAN, NEW next \in Nat \cup {Null},
         SetEnabledRow(t, enabled, next)
  PROVE  StoreInv' /\ RunsKept
<1>1. CASE Exists(t)
  BY <1>1, ExistingRow, ToggledRow, SameLockKeeps DEF StoreInv, SetEnabledRow
<1>2. CASE ~Exists(t)
  BY <1>2, StutterKeeps DEF SetEnabledRow, storeVars
<1>3. QED
  BY <1>1, <1>2

(* So does the passage of time.                                            *)
LEMMA TickKeeps ==
  ASSUME StoreInv, Tick
  PROVE  StoreInv' /\ RunsKept
<1>1. StoreTypeOK /\ LocksHaveRuns /\ RunsHaveLocks /\ RunsNumbered
  BY LockHalves DEF StoreInv
<1>2. StoreTypeOK' /\ LocksHaveRuns' /\ RunsHaveLocks' /\ RunsNumbered'
  BY <1>1 DEF Tick, StoreTypeOK, LocksHaveRuns, RunsHaveLocks, RunsNumbered,
              Locked, Exists, Running
<1>3. QED
  BY <1>1, <1>2, LockHalvesNext DEF StoreInv, RunsKept, Tick, StoreTypeOK

(* So does the creation of a task.                                         *)
LEMMA CreateRowKeeps ==
  ASSUME StoreInv, NEW t \in Tasks, NEW enabled \in BOOLEAN,
         NEW sched \in Schedules, NEW missed \in Policies,
         CreateRow(t, enabled, sched, missed)
  PROVE  StoreInv' /\ RunsKept
<1>1. StoreTypeOK /\ LocksHaveRuns /\ RunsHaveLocks /\ RunsNumbered /\ now \in Nat
  BY LockHalves DEF StoreInv, StoreTypeOK
<1> DEFINE row == NewRow(enabled, sched, missed)
<1>2. row \in TaskRow /\ row.lockedBy = 0
  BY <1>1, NewRowType
<1>3. ~Locked(t) /\ task' = [task EXCEPT ![t] = row] /\ UNCHANGED <<now, run, runSeq>>
  BY DEF CreateRow, Locked, Exists
<1> HIDE DEF row
<1>4. StoreTypeOK'
  BY <1>1, <1>2, <1>3 DEF StoreTypeOK
<1>5. /\ ~Locked(t)'
      /\ \A u \in Tasks \ {t} : task'[u] = task[u]
      /\ \A u \in Tasks : Locked(u)' <=> Locked(u)
  BY <1>1, <1>2, <1>3 DEF StoreTypeOK, Locked, Exists
<1>6. LocksHaveRuns'
  BY <1>1, <1>3, <1>5 DEF LocksHaveRuns, Running
<1>7. RunsHaveLocks'
  BY <1>1, <1>3, <1>5 DEF RunsHaveLocks, StoreTypeOK, Running, RunRow
<1>8. RunsNumbered' /\ RunsKept
  BY <1>1, <1>3 DEF RunsNumbered, RunsKept, StoreTypeOK
<1>9. QED
  BY <1>4, <1>6, <1>7, <1>8, LockHalvesNext DEF StoreInv

(* A deleted task takes its runs along, the one in progress too.           *)
LEMMA DeleteRowKeeps ==
  ASSUME StoreInv, NEW t \in Tasks, DeleteRow(t)
  PROVE  StoreInv' /\ RunsKept
<1>1. StoreTypeOK /\ LocksHaveRuns /\ RunsHaveLocks /\ RunsNumbered
  BY LockHalves DEF StoreInv
<1>2. /\ task' = [task EXCEPT ![t] = Deleted]
      /\ run' = [r \in RunIds |-> IF run[r] # Null /\ run[r].task = t THEN Null ELSE run[r]]
      /\ UNCHANGED <<now, runSeq>>
  BY DEF DeleteRow
<1>3. StoreTypeOK'
  BY <1>1, <1>2 DEF StoreTypeOK
<1>4. ~Locked(t)' /\ \A u \in Tasks \ {t} : task'[u] = task[u] /\ (Locked(u)' <=> Locked(u))
  BY <1>1, <1>2 DEF StoreTypeOK, Locked, Exists
<1>5. \A r \in RunIds : Running(r)' <=> Running(r) /\ run[r].task # t
  BY <1>1, <1>2 DEF StoreTypeOK, Running, RunRow
<1>6. \A r \in RunIds : Running(r)' => run'[r] = run[r] /\ run[r].task \in Tasks
  BY <1>1, <1>2 DEF StoreTypeOK, Running, RunRow
<1>7. LocksHaveRuns'
  BY <1>1, <1>4, <1>5, <1>6 DEF LocksHaveRuns
<1>8. RunsHaveLocks'
  BY <1>1, <1>4, <1>5, <1>6 DEF RunsHaveLocks
<1>9. RunsNumbered' /\ RunsKept
  BY <1>1, <1>2 DEF RunsNumbered, RunsKept, StoreTypeOK
<1>10. QED
  BY <1>3, <1>7, <1>8, <1>9, LockHalvesNext DEF StoreInv

(* The retention pass removes runs that have ended.                        *)
LEMMA PruneRunKeeps ==
  ASSUME StoreInv, NEW r \in RunIds, PruneRun(r)
  PROVE  StoreInv' /\ RunsKept
<1>1. StoreTypeOK /\ LocksHaveRuns /\ RunsHaveLocks /\ RunsNumbered
  BY LockHalves DEF StoreInv
<1>2. ~Running(r) /\ run' = [run EXCEPT ![r] = Null] /\ UNCHANGED <<now, task, runSeq>>
  BY DEF PruneRun, Running
<1>3. StoreTypeOK'
  BY <1>1, <1>2 DEF StoreTypeOK
<1>4. \A q \in RunIds : (Running(q)' <=> Running(q)) /\ (q # r => run'[q] = run[q])
  BY <1>1, <1>2 DEF StoreTypeOK, Running
<1>5. \A t : Locked(t)' <=> Locked(t)
  BY <1>2 DEF Locked, Exists
<1>6. LocksHaveRuns'
  BY <1>1, <1>2, <1>4, <1>5 DEF LocksHaveRuns
<1>7. RunsHaveLocks'
  BY <1>1, <1>2, <1>4, <1>5 DEF RunsHaveLocks
<1>8. RunsNumbered' /\ RunsKept
  BY <1>1, <1>2 DEF RunsNumbered, RunsKept, StoreTypeOK
<1>9. QED
  BY <1>3, <1>6, <1>7, <1>8, LockHalvesNext DEF StoreInv

(* Locks that are released together with their runs: a completion, a       *)
(* recovery.                                                               *)
LEMMA UnlockKeeps ==
  ASSUME StoreInv, StoreTypeOK', runSeq' = runSeq, NEW S \in SUBSET Tasks,
         \A t \in S : Locked(t) /\ ~Locked(t)',
         \A t \in Tasks \ S : task'[t] = task[t],
         \A r \in RunIds :
           IF \E t \in S : task[t].lastRun = r
           THEN /\ run'[r].task = run[r].task
                /\ run'[r].runner = run[r].runner
                /\ run'[r].status # "running"
           ELSE run'[r] = run[r]
  PROVE  StoreInv' /\ RunsKept
<1>1. StoreTypeOK /\ LocksHaveRuns /\ RunsHaveLocks /\ RunsNumbered
  BY LockHalves DEF StoreInv
<1>2. \A r \in RunIds : (\E t \in S : task[t].lastRun = r) => run[r] # Null
  BY <1>1 DEF LocksHaveRuns, Running
<1>3. \A r \in RunIds : Running(r)' <=> Running(r) /\ ~\E t \in S : task[t].lastRun = r
  BY DEF Running
<1>4. \A t \in Tasks : Locked(t)' <=> Locked(t) /\ t \notin S
  BY DEF Locked, Exists
<1>5. LocksHaveRuns'
  BY <1>4, <1>1, <1>3 DEF LocksHaveRuns
<1>6. RunsHaveLocks'
  BY <1>1, <1>3, <1>4 DEF RunsHaveLocks, StoreTypeOK, Running, RunRow
<1>7. RunsNumbered'
  BY <1>1, <1>2 DEF RunsNumbered
<1>8. RunsKept
  BY <1>1, <1>2 DEF RunsKept, StoreTypeOK
<1>9. QED
  BY <1>5, <1>6, <1>7, <1>8, LockHalvesNext DEF StoreInv

(* Recovery releases a lock and abandons its run together.                 *)
LEMMA RecoveryKeeps ==
  ASSUME StoreInv, NEW S \in SUBSET Tasks,
         task' = RecoveredTasks(S), run' = RecoveredRuns(S),
         UNCHANGED <<now, runSeq>>
  PROVE  StoreInv' /\ RunsKept
<1>1. StoreTypeOK /\ LocksHaveRuns
  BY LockHalves DEF StoreInv
<1> DEFINE E == {t \in S : Expired(t)}
<1>2. StoreTypeOK'
  BY <1>1, RecoveredType DEF StoreTypeOK
<1>3. \A t \in E : Locked(t) /\ task'[t].lockedBy = 0
  BY <1>1, ExistingRow, RecoveredRow
  DEF RecoveredTasks, Expired, ExpiredLock, Locked
<1>4. \A t \in Tasks \ E : task'[t] = task[t]
  BY DEF RecoveredTasks
<1>5. \A r \in RunIds :
        IF \E t \in E : task[t].lastRun = r
        THEN run'[r].task = run[r].task /\ run'[r].runner = run[r].runner
               /\ run'[r].status # "running"
        ELSE run'[r] = run[r]
  <2> SUFFICES ASSUME NEW r \in RunIds
               PROVE  IF \E t \in E : task[t].lastRun = r
                      THEN run'[r].task = run[r].task /\ run'[r].runner = run[r].runner
                             /\ run'[r].status # "running"
                      ELSE run'[r] = run[r]
    OBVIOUS
  <2>1. CASE \E t \in E : task[t].lastRun = r
    BY <1>1, <1>3, <2>1 DEF LocksHaveRuns, RecoveredRuns, Running, StoreTypeOK, RunRow
  <2>2. CASE ~\E t \in E : task[t].lastRun = r
    BY <2>2 DEF RecoveredRuns
  <2>3. QED
    BY <2>1, <2>2
<1>6. \A t \in E : Locked(t) /\ ~Locked(t)'
  BY <1>3 DEF Locked
<1> HIDE DEF E
<1>7. E \in SUBSET Tasks
  BY DEF E
<1>8. QED
  BY <1>2, <1>4, <1>5, <1>6, <1>7, UnlockKeeps

(* The reconciliation recovers every task.                                 *)
LEMMA MarkExpiredKeeps ==
  ASSUME StoreInv, MarkExpiredRunningAbandoned
  PROVE  StoreInv' /\ RunsKept
BY RecoveryKeeps DEF MarkExpiredRunningAbandoned

(* A refused claim commits the recovery alone.                             *)
LEMMA BeginRunRefusedKeeps ==
  ASSUME StoreInv, NEW t \in Tasks, NEW trigger, NEW version,
         BeginRunRefused(t, trigger, version)
  PROVE  StoreInv' /\ RunsKept
BY RecoveryKeeps DEF BeginRunRefused

(* The run ends, and with it the lock it holds; a run that was superseded  *)
(* changes no task.                                                        *)
LEMMA FinishRunKeeps ==
  ASSUME StoreInv, NEW t \in Tasks, NEW r \in RunIds, NEW version,
         NEW runner \in Nat \ {0},
         run[r] # Null => run[r].task = t /\ run[r].runner = runner,
         FinishRun(t, r, version, runner)
  PROVE  StoreInv' /\ RunsKept
<1>1. StoreTypeOK /\ LocksHaveRuns /\ RunsHaveLocks /\ now \in Nat
  BY LockHalves DEF StoreInv, StoreTypeOK
<1>2. UNCHANGED <<now, runSeq>>
  BY DEF FinishRun
<1>3. CASE Running(r)
  <2>1. Locked(t) /\ task[t].lastRun = r /\ task[t].lockedBy = runner
    BY <1>1, <1>3 DEF RunsHaveLocks, LocksHaveRuns, Running
  <2>2. run' = [run EXCEPT ![r].status = "ended"]
    BY <1>3 DEF FinishRun, Running
  <2>3. task[t] \in TaskRow
    BY <1>1, <2>1, ExistingRow DEF Locked
  <2>4. PICK row \in TaskRow : row.lockedBy = 0 /\ task' = [task EXCEPT ![t] = row]
    BY <2>1, <1>1, <2>3, FinishedRow, ReleasedRow DEF FinishRun, Locked
  <2>5. run[r] \in RunRow /\ run'[r] = [run[r] EXCEPT !.status = "ended"]
    BY <1>1, <1>3, <2>2 DEF StoreTypeOK, Running
  <2>6. run'[r] \in RunRow /\ run'[r].task = run[r].task
          /\ run'[r].runner = run[r].runner /\ run'[r].status = "ended"
    BY <2>5 DEF RunRow
  <2>7. StoreTypeOK'
    BY <1>1, <1>2, <2>2, <2>4, <2>6 DEF StoreTypeOK
  <2>8. ~Locked(t)' /\ \A u \in Tasks \ {t} : task'[u] = task[u]
    BY <1>1, <2>4 DEF StoreTypeOK, Locked
  <2>9. \A q \in RunIds :
          IF \E u \in {t} : task[u].lastRun = q
          THEN run'[q].task = run[q].task /\ run'[q].runner = run[q].runner
                 /\ run'[q].status # "running"
          ELSE run'[q] = run[q]
    BY <1>1, <2>1, <2>2, <2>6 DEF StoreTypeOK
  <2>10. QED
    <3>1. \A u \in {t} : Locked(u) /\ ~Locked(u)'
      BY <2>1, <2>8
    <3>2. \A u \in Tasks \ {t} : task'[u] = task[u]
      BY <2>8
    <3>3. {t} \in SUBSET Tasks /\ runSeq' = runSeq
      BY <1>2
    <3>4. QED
      BY <2>7, <2>9, <3>1, <3>2, <3>3, UnlockKeeps
<1>4. CASE ~Running(r)
  BY <1>4, <1>1, <1>2, StutterKeeps DEF FinishRun, Running, LocksHaveRuns, Locked, storeVars
<1>5. QED
  BY <1>3, <1>4

(* The claim: what it locks was free, or was freed by the recovery in the  *)
(* same transaction.                                                       *)
LEMMA BeginRunKeeps ==
  ASSUME StoreInv, NEW t \in Tasks, NEW trigger \in {"schedule", "manual"}, NEW version,
         NEW runner \in Nat \ {0}, BeginRun(t, trigger, version, runner)
  PROVE  /\ StoreInv' /\ RunsKept
         /\ runSeq' \in RunIds
         /\ run'[runSeq'] # Null
         /\ run'[runSeq'].task = t
         /\ run'[runSeq'].runner = runner
         /\ task'[t] \in TaskRow
<1>1. /\ StoreTypeOK /\ LocksHaveRuns /\ RunsHaveLocks /\ RunsNumbered
      /\ now \in Nat /\ runSeq \in Nat
  BY LockHalves DEF StoreInv, StoreTypeOK
<1> DEFINE row == RecoveredTasks({t})[t]
           id  == runSeq + 1
           new == StartedRun(t, trigger, runner, row.next)
<1>2. /\ runSeq < MaxRuns
      /\ ClaimableAfterRecovery(t, trigger, version)
      /\ task' = [task EXCEPT ![t] = Claimed(row, runner, id)]
      /\ run' = [RecoveredRuns({t}) EXCEPT ![id] = new]
      /\ runSeq' = id
      /\ now' = now
  BY DEF BeginRun
<1>3. id \in RunIds /\ id \in Nat
  BY <1>1, <1>2, BoundAssumption DEF RunIds
<1>4. task[t] \in TaskRow
  BY <1>1, <1>2, ExistingRow DEF ClaimableAfterRecovery
<1>5. row \in TaskRow /\ row.lockedBy = 0 /\ (~Expired(t) => task[t].lockedBy = 0)
  <2>1. CASE Expired(t)
    BY <2>1, <1>4, RecoveredRow DEF RecoveredTasks
  <2>2. CASE ~Expired(t)
    BY <2>2, <1>2, <1>4 DEF RecoveredTasks, ClaimableAfterRecovery, Claimable, Expired
  <2>3. QED
    BY <2>1, <2>2
<1>6. row.next \in Nat \cup {Null}
  BY <1>5 DEF TaskRow
<1>7. /\ new \in RunRow /\ new.task = t /\ new.runner = runner /\ new.status = "running"
  BY <1>6, StartedRunRow DEF StartedRun
<1>8. /\ task'[t] \in TaskRow
      /\ task'[t].lockedBy = runner /\ task'[t].lastRun = id
      /\ task'[t].lockedUntil = LockExpiry(now)
      /\ \A u \in Tasks \ {t} : task'[u] = task[u]
  <2> HIDE DEF row, id
  <2> DEFINE claimed == Claimed(row, runner, id)
  <2>1. /\ claimed \in TaskRow
        /\ claimed.lockedBy = runner /\ claimed.lastRun = id
        /\ claimed.lockedUntil = LockExpiry(now)
    BY <1>1, <1>3, <1>5, ClaimedRow
  <2>2. task' = [task EXCEPT ![t] = claimed]
    BY <1>2 DEF row, id
  <2> HIDE DEF claimed
  <2>3. QED
    BY <1>1, <2>1, <2>2 DEF StoreTypeOK
<1> HIDE DEF row, new
<1>9. /\ run'[id] = new
      /\ \A r \in RunIds \ {id} : run'[r] = RecoveredRuns({t})[r]
  BY <1>2, <1>3 DEF RecoveredRuns
<1>10. StoreTypeOK'
  <2>1. RecoveredRuns({t}) \in [RunIds -> RunRow \cup {Null}]
    BY <1>1, RecoveredType
  <2>2. run' \in [RunIds -> RunRow \cup {Null}]
    BY <1>2, <1>7, <2>1
  <2>3. task' \in [Tasks -> TaskRow \cup {Null, Deleted}]
    BY <1>1, <1>2, <1>8 DEF StoreTypeOK
  <2>4. QED
    <3>1. now' \in Nat /\ runSeq' = id
      BY <1>1, <1>2
    <3>2. id \in 0..MaxRuns
      BY <1>1, <1>2, BoundAssumption
    <3>3. QED
      BY <2>2, <2>3, <3>1, <3>2 DEF StoreTypeOK
<1>11. Locked(t)' /\ \A u \in Tasks \ {t} : Locked(u)' <=> Locked(u)
  BY <1>8, <1>10, AbsentAssumption DEF Locked, Exists
<1>12. run[id] = Null
  BY <1>1, <1>3 DEF RunsNumbered
(* A run of another task is not touched by this task's recovery.           *)
<1>13. \A r \in RunIds \ {id} : Running(r) /\ run[r].task # t => run'[r] = run[r]
  <2> SUFFICES ASSUME NEW r \in RunIds \ {id}, Running(r), run[r].task # t
               PROVE  run'[r] = run[r]
    OBVIOUS
  <2>1. ~(Expired(t) /\ task[t].lastRun = r)
    BY <1>1 DEF LocksHaveRuns, Expired, ExpiredLock, Locked
  <2>2. QED
    BY <1>9, <2>1 DEF RecoveredRuns
(* This task has no run in progress but the new one.                       *)
<1>14. \A r \in RunIds \ {id} : Running(r)' => Running(r) /\ run[r].task # t /\ run'[r] = run[r]
  <2> SUFFICES ASSUME NEW r \in RunIds \ {id}, Running(r)'
               PROVE  Running(r) /\ run[r].task # t
    BY <1>13
  <2>1. run'[r] = RecoveredRuns({t})[r]
    BY <1>9
  <2>2. CASE run[r] # Null /\ run[r].status = "running" /\ Expired(t) /\ task[t].lastRun = r
    <3>1. run'[r] = [run[r] EXCEPT !.status = "abandoned"] /\ run[r] \in RunRow
      BY <1>1, <2>1, <2>2 DEF RecoveredRuns, StoreTypeOK
    <3>2. run'[r].status = "abandoned"
      BY <3>1 DEF RunRow
    <3>3. QED
      BY <3>2 DEF Running
  <2>3. CASE ~(run[r] # Null /\ run[r].status = "running" /\ Expired(t) /\ task[t].lastRun = r)
    <3>1. run'[r] = run[r]
      BY <2>1, <2>3 DEF RecoveredRuns
    <3>2. Running(r)
      BY <3>1 DEF Running
    <3>3. ~(Expired(t) /\ task[t].lastRun = r)
      BY <2>3, <3>2 DEF Running
    <3>4. run[r].task # t
      BY <1>1, <1>5, <3>2, <3>3 DEF RunsHaveLocks, Locked
    <3>5. QED
      BY <3>2, <3>4
  <2>4. QED
    BY <2>2, <2>3
<1>15. LocksHaveRuns'
  <2> SUFFICES ASSUME NEW u \in Tasks, Locked(u)'
               PROVE  (/\ task[u].lockedUntil # Null
                       /\ task[u].lastRun \in RunIds
                       /\ Running(task[u].lastRun)
                       /\ run[task[u].lastRun].task = u
                       /\ run[task[u].lastRun].runner = task[u].lockedBy)'
    BY DEF LocksHaveRuns
  <2>1. CASE u = t
    <3>1. LockExpiry(now) # Null
      BY <1>1, LockExpiryNat, NullAssumption
    <3>2. new # Null
      BY <1>7, AbsentAssumption
    <3>3. QED
      BY <1>3, <1>7, <1>8, <1>9, <2>1, <3>1, <3>2 DEF Running
  <2>2. CASE u # t
    <3>1. Locked(u) /\ task'[u] = task[u]
      BY <1>8, <1>11, <2>2
    <3>2. /\ task[u].lastRun \in RunIds /\ Running(task[u].lastRun)
          /\ run[task[u].lastRun].task = u
          /\ run[task[u].lastRun].runner = task[u].lockedBy
          /\ task[u].lockedUntil # Null
      BY <1>1, <3>1 DEF LocksHaveRuns
    <3>3. task[u].lastRun # id
      BY <1>12, <3>2 DEF Running
    <3>4. run'[task[u].lastRun] = run[task[u].lastRun]
      BY <1>13, <2>2, <3>2, <3>3
    <3>5. QED
      BY <3>1, <3>2, <3>4 DEF Running
  <2>3. QED
    BY <2>1, <2>2
<1>16. RunsHaveLocks'
  <2> SUFFICES ASSUME NEW r \in RunIds, Running(r)'
               PROVE  (Locked(run[r].task) /\ task[run[r].task].lastRun = r)'
    BY DEF RunsHaveLocks
  <2>1. CASE r = id
    BY <1>7, <1>8, <1>9, <1>11, <2>1
  <2>2. CASE r # id
    <3>1. Running(r) /\ run[r].task # t /\ run'[r] = run[r]
      BY <1>14, <2>2
    <3>2. run[r].task \in Tasks \ {t}
      BY <1>1, <3>1 DEF StoreTypeOK, Running, RunRow
    <3>3. QED
      BY <1>1, <1>8, <1>11, <3>1, <3>2 DEF RunsHaveLocks
  <2>3. QED
    BY <2>1, <2>2
<1>17. RunsNumbered'
  <2> SUFFICES ASSUME NEW r \in RunIds, r > id
               PROVE  run'[r] = Null
    BY <1>2 DEF RunsNumbered
  <2>1. run[r] = Null /\ r # id
    BY <1>1 DEF RunsNumbered, RunIds
  <2>2. QED
    BY <1>9, <2>1 DEF RecoveredRuns
<1>18. RunsKept
  <2>1. ASSUME NEW r \in RunIds, r <= runSeq, run'[r] # Null
        PROVE  /\ run[r] # Null
               /\ run'[r].task = run[r].task
               /\ run'[r].runner = run[r].runner
    <3>1. r # id
      BY <1>1, <2>1 DEF RunIds
    <3>2. run'[r] = RecoveredRuns({t})[r]
      BY <1>9, <3>1
    <3>3. run[r] \in RunRow
      BY <1>1, <2>1, <3>2 DEF RecoveredRuns, StoreTypeOK
    <3>4. QED
      BY <3>2, <3>3, AbsentAssumption DEF RecoveredRuns, RunRow
  <2>2. QED
    BY <1>1, <1>2, <2>1 DEF RunsKept
<1>19. run'[runSeq'] # Null
  BY <1>2, <1>7, <1>9, AbsentAssumption
<1>20. QED
  BY <1>1, <1>2, <1>3, <1>7, <1>8, <1>9, <1>10, <1>15, <1>16, <1>17, <1>18, <1>19,
     LockHalvesNext DEF StoreInv

-----------------------------------------------------------------------------
(* The inductive invariant.  LockMatchesRun is not inductive by itself: a  *)
(* completion is right only because a worker that executes a run holds the *)
(* id, the task and the runner the tables know, and the next run id is one *)
(* no row has.                                                             *)

MemTypeOK ==
  /\ phase \in {"down", "starting", "up"}
  /\ epoch \in Nat
  /\ bootAt \in Nat
  /\ heap \in [Tasks -> HeapItem \cup {Null}]
  /\ dirty \in SUBSET Tasks
  /\ wake \in BOOLEAN
  /\ loop \in LoopRow
  /\ queue \in Seq(Job) /\ Len(queue) <= DispatchQueueSize
  /\ manual \in Seq(Tasks) /\ Len(manual) <= ManualQueueSize
  /\ worker \in [Workers -> WorkerRow]
  /\ pending \in SUBSET Tasks
  /\ toggle \in ToggleRow \cup {Null}
  /\ spent \in Budget

(* Types of the tables and of the memory, taken apart.                     *)
LEMMA TypeHalves == TypeOK <=> StoreTypeOK /\ MemTypeOK
BY DEF TypeOK, MemTypeOK

Busy(w) == worker[w].pc # "idle"

(* What a worker knows of the run it executes is what the tables know.     *)
Owns(w) ==
  /\ Busy(w) => phase # "down" /\ worker[w].task \in Tasks
  /\ worker[w].pc = "running" =>
       /\ worker[w].run \in RunIds /\ worker[w].run <= runSeq
       /\ run[worker[w].run] # Null =>
            /\ run[worker[w].run].task = worker[w].task
            /\ run[worker[w].run].runner = epoch

WorkersOwn == \A w \in Workers : Owns(w)

Started == phase # "down" => epoch # 0

LoopRests == phase = "down" => loop = IdleLoop

IInv == StoreInv /\ MemTypeOK /\ WorkersOwn /\ Started /\ LoopRests

(* A worker that does not step keeps what it owns.                         *)
LEMMA OwnsKept ==
  ASSUME runSeq \in Nat, runSeq' \in Nat, RunsKept, NEW v \in Workers, Owns(v),
         worker'[v] = worker[v], epoch' = epoch, phase' = "down" => phase = "down"
  PROVE  Owns(v)'
<1>1. (Busy(v) => phase # "down" /\ worker[v].task \in Tasks)'
  BY DEF Owns, Busy
<1>2. ASSUME worker[v].pc = "running"
      PROVE  /\ worker[v].run \in RunIds /\ worker[v].run <= runSeq'
             /\ run'[worker[v].run] # Null =>
                  /\ run'[worker[v].run].task = worker[v].task
                  /\ run'[worker[v].run].runner = epoch
  BY <1>2 DEF Owns, RunsKept, RunIds
<1>3. QED
  BY <1>1, <1>2 DEF Owns

(* A step that leaves the workers alone keeps the invariant, if it keeps   *)
(* the tables and the types.                                               *)
LEMMA WorkersRest ==
  ASSUME IInv, StoreInv', RunsKept, MemTypeOK',
         UNCHANGED <<epoch, worker>>, phase' = "down" <=> phase = "down",
         phase # "down" \/ loop' = loop
  PROVE  IInv'
BY OwnsKept DEF IInv, Started, LoopRests, StoreInv, StoreTypeOK, WorkersOwn

(* A step of one worker that is not executing a run afterwards.            *)
LEMMA WorkerSteps ==
  ASSUME IInv, StoreInv', RunsKept, MemTypeOK', NEW w \in Workers,
         UNCHANGED <<epoch, phase>>, phase # "down",
         NEW row \in WorkerRow, worker' = [worker EXCEPT ![w] = row],
         row.pc # "running", row.pc # "idle" => row.task \in Tasks
  PROVE  IInv'
<1>1. Started' /\ LoopRests'
  BY DEF IInv, Started, LoopRests
<1>2. runSeq \in Nat /\ runSeq' \in Nat
  BY DEF IInv, StoreInv, StoreTypeOK
<1>3. worker'[w] = row /\ \A v \in Workers \ {w} : worker'[v] = worker[v]
  BY DEF IInv, MemTypeOK
<1>4. Owns(w)'
  BY <1>3 DEF Owns, Busy
<1>5. \A v \in Workers \ {w} : Owns(v)'
  BY <1>2, <1>3, OwnsKept DEF IInv, WorkersOwn
<1>6. WorkersOwn'
  BY <1>4, <1>5 DEF WorkersOwn
<1>7. QED
  BY <1>1, <1>6 DEF IInv

(* Types of what the actions write.                                        *)
LEMMA FaultType ==
  ASSUME spent \in Budget, Fault
  PROVE  spent' \in Budget
BY BudgetAssumption DEF Budget, Fault

(* A service call uses up its share of the bound.                          *)
LEMMA EditType ==
  ASSUME spent \in Budget, Edit
  PROVE  spent' \in Budget
BY BudgetAssumption DEF Budget, Edit

(* NextRunAt yields an instant.                                            *)
LEMMA NextRunAtNat ==
  ASSUME NEW row \in TaskRow, NEW at \in Nat
  PROVE  NextRunAt(row, at) \in Nat
BY NextFireNat DEF TaskRow, NextRunAt

(* The initial values of the memory.                                       *)
LEMMA IdleTypes ==
  /\ NoRows \in [Tasks -> TaskRow \cup {Null}]
  /\ NoRows \in [Tasks -> HeapItem \cup {Null}]
  /\ IdleLoop \in LoopRow /\ DuePass \in LoopRow
  /\ IdleWorker \in WorkerRow
BY BoundAssumption DEF NoRows, IdleLoop, LoopRow, DuePass, IdleWorker, WorkerRow

(* What the loop makes of its local variables.                             *)
LEMMA LoopTypes ==
  ASSUME loop \in LoopRow, NEW t \in Tasks, NEW at \in Nat, NEW row \in TaskRow
  PROVE  /\ loop.snap \in [Tasks -> TaskRow \cup {Null}] /\ loop.at \in Nat
         /\ loop.todo \in SUBSET Tasks /\ loop.refresh \in Tasks \cup {Null}
         /\ Loaded[t] \in LoopRow
         /\ [Loaded[t] EXCEPT !.refresh = t] \in LoopRow
         /\ [loop EXCEPT !.todo = @ \ {t}] \in LoopRow
         /\ [loop EXCEPT !.todo = @ \ {t}, !.snap[t] = row, !.at = at] \in LoopRow
         /\ [DuePass EXCEPT !.at = at, !.snap[t] = row] \in LoopRow
BY IdleTypes DEF LoopRow, Loaded

(* What remove and upsert make of the index.                               *)
LEMMA HeapTypes ==
  ASSUME heap \in [Tasks -> HeapItem \cup {Null}], NEW t \in Tasks
  PROVE  /\ Remove(t) => heap' \in [Tasks -> HeapItem \cup {Null}]
         /\ \A next, version \in Nat :
              Upsert(t, next, version) => heap' \in [Tasks -> HeapItem \cup {Null}] /\ wake'
BY DEF Remove, Upsert, HeapItem

-----------------------------------------------------------------------------
(* The loop.  It writes the heap, the dirty set, the wake token and the    *)
(* dispatch queue; only two of its actions touch the tables.               *)

(* A step of the loop keeps the invariant when the tables do and what it   *)
(* writes has its type.                                                    *)
LEMMA LoopWrites ==
  ASSUME IInv, StoreInv', RunsKept, UNCHANGED aroundLoop, phase # "down",
         phase' \in {"starting", "up"},
         heap' \in [Tasks -> HeapItem \cup {Null}], dirty' \in SUBSET Tasks,
         wake' \in BOOLEAN, loop' \in LoopRow, spent' \in Budget,
         queue' \in Seq(Job), Len(queue') <= DispatchQueueSize
  PROVE  IInv'
BY WorkersRest DEF IInv, MemTypeOK, aroundLoop

(* The first statement of reconcile.                                       *)
LEMMA ReconcileKeeps ==
  ASSUME IInv, Reconcile
  PROVE  IInv'
BY MarkExpiredKeeps, LoopWrites DEF IInv, Reconcile, StoreInv, StoreTypeOK, MemTypeOK, LoopRow

(* The second one, with the pruning of the index.                          *)
LEMMA ReconcileListKeeps ==
  ASSUME IInv, ReconcileList
  PROVE  IInv'
<1>1. StoreInv' /\ RunsKept
  BY StutterKeeps DEF IInv, ReconcileList
<1> DEFINE listed == {t \in Tasks : Exists(t) /\ task[t].enabled}
           snap   == [t \in Tasks |-> IF t \in listed THEN task[t] ELSE Null]
<1>2. snap \in [Tasks -> TaskRow \cup {Null}]
  BY ExistingRow DEF IInv, StoreInv
<1>3. loop' = [loop EXCEPT !.pc = "work", !.snap = snap]
  BY DEF ReconcileList
<1>4. loop' \in LoopRow
  <2> HIDE DEF snap
  <2>1. QED
    BY <1>2, <1>3 DEF IInv, MemTypeOK, LoopRow
<1>5. heap' \in [Tasks -> HeapItem \cup {Null}]
  BY DEF IInv, MemTypeOK, ReconcileList
<1>6. phase # "down"
  BY DEF IInv, LoopRests, IdleLoop, ReconcileList
<1>7. QED
  BY <1>1, <1>4, <1>5, <1>6, LoopWrites DEF IInv, MemTypeOK, ReconcileList

(* The loop takes the wake token.                                          *)
LEMMA WakeKeeps ==
  ASSUME IInv, Wake
  PROVE  IInv'
BY StutterKeeps, LoopWrites DEF IInv, Wake, MemTypeOK, LoopRow

(* The loop takes the dirty set, or is done with it.                       *)
LEMMA DrainDirtyKeeps ==
  ASSUME IInv, DrainDirty
  PROVE  IInv'
BY StutterKeeps, IdleTypes, LoopWrites DEF IInv, DrainDirty, LoopRests, IdleLoop, MemTypeOK,
   LoopRow

(* The loop reads a dirty task.                                            *)
LEMMA ReloadDirtyKeeps ==
  ASSUME IInv, NEW t \in Tasks, ReloadDirty(t)
  PROVE  IInv'
<1>1. StoreInv' /\ RunsKept
  BY StutterKeeps DEF IInv, ReloadDirty
<1>2. phase # "down"
  BY DEF IInv, LoopRests, IdleLoop, ReloadDirty
<1>3. loop \in LoopRow /\ now \in Nat
  BY DEF IInv, StoreInv, StoreTypeOK, MemTypeOK
<1>4. CASE Exists(t) /\ task[t].enabled
  <2>1. task[t] \in TaskRow
    BY <1>4, ExistingRow DEF IInv, StoreInv
  <2>2. /\ heap' = heap
        /\ loop' = [loop EXCEPT !.todo = @ \ {t}, !.snap[t] = task[t], !.at = now]
    BY <1>4 DEF ReloadDirty
  <2>3. loop' \in LoopRow
    BY <1>3, <2>1, <2>2, LoopTypes
  <2>4. QED
    BY <1>1, <1>2, <2>2, <2>3, LoopWrites DEF IInv, MemTypeOK, ReloadDirty
<1>5. CASE ~(Exists(t) /\ task[t].enabled)
  <2>1. loop' = [loop EXCEPT !.todo = @ \ {t}] /\ Remove(t)
    BY <1>5 DEF ReloadDirty
  <2>2. loop' \in LoopRow
    BY <1>3, <2>1 DEF LoopRow
  <2>3. heap' \in [Tasks -> HeapItem \cup {Null}]
    BY <2>1, HeapTypes DEF IInv, MemTypeOK
  <2>4. QED
    BY <1>1, <1>2, <2>2, <2>3, LoopWrites DEF IInv, MemTypeOK, ReloadDirty
<1>6. QED
  BY <1>4, <1>5

(* A row the loop has read and not yet loaded.                             *)
LEMMA LoadingRow ==
  ASSUME IInv, NEW t \in Tasks, Loading(t)
  PROVE  /\ loop.snap[t] \in TaskRow /\ loop.at \in Nat /\ phase # "down"
         /\ Loaded[t] \in LoopRow
         /\ [Loaded[t] EXCEPT !.refresh = t] \in LoopRow
<1>1. loop \in LoopRow
  BY DEF IInv, MemTypeOK
<1>2. loop.snap \in [Tasks -> TaskRow \cup {Null}] /\ loop.at \in Nat
  BY <1>1 DEF LoopRow
<1>3. loop.snap[t] \in TaskRow
  BY <1>2 DEF Loading
<1>4. Loaded[t] \in LoopRow /\ [Loaded[t] EXCEPT !.refresh = t] \in LoopRow
  BY <1>1, <1>2, <1>3, LoopTypes
<1>5. phase # "down"
  BY DEF IInv, LoopRests, IdleLoop, Loading
<1>6. QED
  BY <1>2, <1>3, <1>4, <1>5

(* loadTask, in each of its outcomes.                                      *)
LEMMA LoadKeeps ==
  ASSUME IInv, NEW t \in Tasks,
         \/ LoadLocked(t) \/ LoadIndexed(t) \/ LoadRescheduled(t) \/ LoadOutdated(t)
         \/ LoadFails(t)
  PROVE  IInv'
<1>1. /\ loop.snap[t] \in TaskRow /\ loop.at \in Nat /\ phase # "down"
      /\ Loaded[t] \in LoopRow
      /\ [Loaded[t] EXCEPT !.refresh = t] \in LoopRow
  BY LoadingRow DEF LoadLocked, LoadIndexed, LoadRescheduled, LoadOutdated, LoadFails,
     Rescheduling
<1>2. heap \in [Tasks -> HeapItem \cup {Null}] /\ phase \in {"starting", "up"}
  BY <1>1 DEF IInv, MemTypeOK
<1>3. CASE LoadLocked(t)
  BY <1>3, StutterKeeps, <1>2, HeapTypes, <1>1, LoopWrites DEF IInv, LoadLocked, MemTypeOK
<1>4. CASE LoadIndexed(t)
  <2>1. StoreInv' /\ RunsKept
    BY <1>4, StutterKeeps DEF IInv, LoadIndexed
  <2>2. loop.snap[t].next \in Nat /\ loop.snap[t].version \in Nat
    BY <1>1, NextRunAtNat, <1>4 DEF LoadIndexed, TaskRow
  <2>3. heap' \in [Tasks -> HeapItem \cup {Null}] /\ wake'
    BY <1>2, <1>4, <2>2, HeapTypes DEF LoadIndexed
  <2>4. QED
    BY <1>1, <1>2, <1>4, <2>1, <2>3, LoopWrites DEF IInv, MemTypeOK, LoadIndexed, Upsert
<1>5. CASE LoadRescheduled(t)
  BY <1>1, NextRunAtNat, <1>5, UpdateNextRunKeeps, <1>2, LoopWrites DEF IInv, LoadRescheduled,
     MemTypeOK
<1>6. CASE LoadOutdated(t)
  BY <1>6, StutterKeeps, <1>2, HeapTypes, <1>1, LoopWrites DEF IInv, LoadOutdated, MemTypeOK,
     ReloadTask
<1>7. CASE LoadFails(t)
  BY <1>7, StutterKeeps, FaultType, <1>1, <1>2, LoopWrites DEF IInv, LoadFails, MemTypeOK
<1>8. QED
  BY <1>3, <1>4, <1>5, <1>6, <1>7

(* The second read of loadTask.                                            *)
LEMMA RefreshKeeps ==
  ASSUME IInv, Refresh \/ RefreshFails
  PROVE  IInv'
<1>1. loop.refresh # Null /\ loop' = [loop EXCEPT !.refresh = Null]
  BY DEF Refresh, RefreshFails
<1>2. StoreInv' /\ RunsKept
  BY StutterKeeps DEF IInv, Refresh, RefreshFails
<1>3. loop \in LoopRow /\ loop.refresh \in Tasks /\ loop' \in LoopRow
  BY <1>1 DEF IInv, MemTypeOK, LoopRow
<1>4. phase # "down"
  BY <1>1 DEF IInv, LoopRests, IdleLoop
<1>5. CASE RefreshFails
  BY <1>5, FaultType, <1>2, <1>3, <1>4, LoopWrites DEF IInv, MemTypeOK, RefreshFails
<1>6. CASE Refresh
  <2> DEFINE t == loop.refresh
  <2>1. heap \in [Tasks -> HeapItem \cup {Null}] /\ wake \in BOOLEAN
    BY DEF IInv, MemTypeOK
  <2>2. \/ UNCHANGED <<heap, wake>>
        \/ Remove(t) /\ UNCHANGED wake
        \/ /\ Exists(t) /\ task[t].next # Null
           /\ Upsert(t, task[t].next, task[t].version)
    BY <1>6 DEF Refresh
  <2>3. heap' \in [Tasks -> HeapItem \cup {Null}] /\ wake' \in BOOLEAN
    <3>1. Exists(t) /\ task[t].next # Null => task[t].next \in Nat /\ task[t].version \in Nat
      BY <1>3, ExistingRow DEF IInv, StoreInv, TaskRow
    <3> HIDE DEF t
    <3>2. CASE Upsert(t, task[t].next, task[t].version) /\ Exists(t) /\ task[t].next # Null
      BY <1>3, <2>1, <3>1, <3>2, HeapTypes DEF t, Upsert
    <3>3. CASE Remove(t) /\ UNCHANGED wake
      BY <1>3, <2>1, <3>3, HeapTypes DEF t
    <3>4. QED
      BY <2>1, <2>2, <3>2, <3>3
  <2>4. QED
    BY <1>2, <1>3, <1>4, <1>6, <2>3, LoopWrites DEF IInv, MemTypeOK, Refresh
<1>7. QED
  BY <1>5, <1>6

(* Nothing is dispatched before Start has returned.                        *)
LEMMA DispatchingPhase ==
  ASSUME IInv, NEW t \in Tasks, Dispatching(t)
  PROVE  /\ phase = "up" /\ phase # "down" /\ phase \in {"starting", "up"}
         /\ StoreTypeOK /\ now \in Nat /\ DuePass \in LoopRow
BY IdleTypes DEF IInv, StoreInv, StoreTypeOK, Dispatching

(* dispatchDue, in each of its outcomes: the send respects the capacity.   *)
LEMMA DispatchKeeps ==
  ASSUME IInv, NEW t \in Tasks,
         \/ DispatchParked(t) \/ DispatchStale(t) \/ DispatchSent(t) \/ DispatchFails(t)
  PROVE  IInv'
<1>1. /\ phase = "up" /\ phase # "down" /\ phase \in {"starting", "up"}
      /\ StoreTypeOK /\ now \in Nat /\ DuePass \in LoopRow
  BY DispatchingPhase DEF DispatchParked, DispatchStale, DispatchSent, DispatchFails
<1>2. UNCHANGED storeVars /\ Remove(t)
  BY DEF DispatchParked, DispatchStale, DispatchSent, DispatchFails, ReloadTask
<1>3. heap' \in [Tasks -> HeapItem \cup {Null}]
  BY <1>2, HeapTypes DEF IInv, MemTypeOK
<1>4. StoreInv' /\ RunsKept
  BY <1>2, StutterKeeps DEF IInv
<1>5. CASE DispatchParked(t)
  BY <1>1, <1>3, <1>4, <1>5, LoopWrites DEF IInv, MemTypeOK, DispatchParked
<1>6. CASE DispatchStale(t)
  <2>1. task[t] \in TaskRow
    BY <1>1, <1>6, ExistingRow DEF DispatchStale, Runnable
  <2>2. loop' \in LoopRow
    BY <1>1, <1>6, <2>1, LoopTypes DEF IInv, MemTypeOK, DispatchStale
  <2>3. QED
    BY <1>1, <1>3, <1>4, <1>6, <2>2, LoopWrites DEF IInv, MemTypeOK, DispatchStale
<1>7. CASE DispatchSent(t)
  <2>1. task[t] \in TaskRow
    BY <1>1, <1>7, ExistingRow DEF DispatchSent, Runnable
  <2>2. [task |-> t, version |-> task[t].version] \in Job
    BY <2>1 DEF TaskRow, Job
  <2>3. queue \in Seq(Job) /\ Len(queue) \in Nat /\ Len(queue) < DispatchQueueSize
    BY <1>7 DEF IInv, MemTypeOK, DispatchSent
  <2>4. queue' = Append(queue, [task |-> t, version |-> task[t].version])
    BY <1>7 DEF DispatchSent
  <2>5. queue' \in Seq(Job) /\ Len(queue') = Len(queue) + 1
    BY <2>2, <2>3, <2>4
  <2>6. Len(queue') <= DispatchQueueSize
    BY <2>3, <2>5, CapacityAssumption
  <2>7. QED
    BY <1>1, <1>3, <1>4, <1>7, <2>5, <2>6, LoopWrites DEF IInv, MemTypeOK, DispatchSent
<1>8. CASE DispatchFails(t)
  BY <1>8, FaultType, <1>1, <1>3, <1>4, LoopWrites DEF IInv, MemTypeOK, DispatchFails, ReloadTask
<1>9. QED
  BY <1>5, <1>6, <1>7, <1>8

(* The end of a dispatch pass.                                             *)
LEMMA DispatchEndsKeeps ==
  ASSUME IInv, DispatchEnds
  PROVE  IInv'
BY StutterKeeps, IdleTypes, LoopWrites DEF IInv, DispatchEnds, LoopRests, IdleLoop, MemTypeOK

-----------------------------------------------------------------------------
(* The workers.                                                            *)

(* A worker takes a task off its queue.                                    *)
LEMMA TakeKeeps ==
  ASSUME IInv, NEW w \in Workers, TakeDispatch(w) \/ TakeManual(w)
  PROVE  IInv'
<1>1. StoreInv' /\ RunsKept
  BY StutterKeeps DEF IInv, TakeDispatch, TakeManual
<1>2. CASE TakeDispatch(w)
  <2>1. queue \in Seq(Job) /\ queue # <<>> /\ Len(queue) <= DispatchQueueSize
    BY <1>2 DEF IInv, MemTypeOK, TakeDispatch
  <2>2. /\ Head(queue) \in Job
        /\ Tail(queue) \in Seq(Job) /\ Len(Tail(queue)) <= DispatchQueueSize
    BY <2>1, CapacityAssumption
  <2> DEFINE row == [pc |-> "wait", task |-> Head(queue).task, trigger |-> "schedule",
                     version |-> Head(queue).version, run |-> 0]
  <2>3. row \in WorkerRow /\ row.task \in Tasks
    BY <2>2, BoundAssumption DEF Job, WorkerRow
  <2>4. worker' = [worker EXCEPT ![w] = row] /\ UNCHANGED <<epoch, phase>> /\ phase # "down"
    BY <1>2 DEF TakeDispatch
  <2>5. MemTypeOK'
    <3> HIDE DEF row
    <3>1. worker' \in [Workers -> WorkerRow]
      BY <2>3, <2>4 DEF IInv, MemTypeOK
    <3>2. QED
      BY <1>2, <2>2, <3>1 DEF IInv, MemTypeOK, TakeDispatch
  <2>6. row.pc # "running"
    OBVIOUS
  <2>7. QED
    <3> HIDE DEF row
    <3>1. QED
      BY <1>1, <2>3, <2>4, <2>5, <2>6, WorkerSteps
<1>3. CASE TakeManual(w)
  <2>1. manual \in Seq(Tasks) /\ manual # <<>> /\ Len(manual) <= ManualQueueSize
    BY <1>3 DEF IInv, MemTypeOK, TakeManual
  <2>2. /\ Head(manual) \in Tasks
        /\ Tail(manual) \in Seq(Tasks) /\ Len(Tail(manual)) <= ManualQueueSize
    BY <2>1, CapacityAssumption
  <2> DEFINE row == [pc |-> "wait", task |-> Head(manual), trigger |-> "manual",
                     version |-> 0, run |-> 0]
  <2>3. row \in WorkerRow /\ row.task \in Tasks
    BY <2>2, BoundAssumption DEF WorkerRow
  <2>4. worker' = [worker EXCEPT ![w] = row] /\ UNCHANGED <<epoch, phase>> /\ phase # "down"
    BY <1>3 DEF TakeManual
  <2>5. MemTypeOK'
    <3> HIDE DEF row
    <3>1. worker' \in [Workers -> WorkerRow]
      BY <2>3, <2>4 DEF IInv, MemTypeOK
    <3>2. QED
      BY <1>3, <2>2, <3>1 DEF IInv, MemTypeOK, TakeManual
  <2>6. row.pc # "running"
    OBVIOUS
  <2>7. QED
    <3> HIDE DEF row
    <3>1. QED
      BY <1>1, <2>3, <2>4, <2>5, <2>6, WorkerSteps
<1>4. QED
  BY <1>2, <1>3

(* The row a run leaves behind: the worker reloads the task it had.        *)
LEMMA ReturnedWorker ==
  ASSUME IInv, NEW w \in Workers, Busy(w)
  PROVE  /\ [IdleWorker EXCEPT !.pc = "reload", !.task = worker[w].task] \in WorkerRow
         /\ worker[w].task \in Tasks /\ phase # "down" /\ epoch \in Nat \ {0}
         /\ worker[w] \in WorkerRow
BY IdleTypes DEF IInv, WorkersOwn, Owns, Started, MemTypeOK, WorkerRow

(* A run that returns keeps the invariant when its last statement does.    *)
LEMMA RunReturnsKeeps ==
  ASSUME IInv, NEW w \in Workers, Busy(w), RunReturns(w), StoreInv', RunsKept,
         UNCHANGED aroundWorker, spent' \in Budget
  PROVE  IInv'
<1> DEFINE row == [IdleWorker EXCEPT !.pc = "reload", !.task = worker[w].task]
<1>1. row \in WorkerRow /\ row.pc = "reload" /\ row.task = worker[w].task
      /\ worker[w].task \in Tasks /\ phase # "down"
  BY ReturnedWorker DEF IdleWorker
<1>2. worker' = [worker EXCEPT ![w] = row]
  BY DEF RunReturns
<1> HIDE DEF row
<1>3. MemTypeOK'
  BY <1>1, <1>2 DEF IInv, MemTypeOK, aroundWorker
<1>4. QED
  BY <1>1, <1>2, <1>3, WorkerSteps DEF aroundWorker

(* A claim: the worker knows the run the tables hold.                      *)
LEMMA ClaimKeeps ==
  ASSUME IInv, NEW w \in Workers, Claim(w)
  PROVE  IInv'
<1> DEFINE t == worker[w].task
           row == [worker[w] EXCEPT !.pc = "running", !.run = runSeq', !.version = task'[t].version]
<1>1. Busy(w)
  BY DEF Claim, HasSlot, Busy
<1>2. /\ t \in Tasks /\ worker[w].trigger \in {"schedule", "manual"}
      /\ epoch \in Nat \ {0} /\ worker[w] \in WorkerRow /\ phase # "down"
  BY <1>1, ReturnedWorker DEF WorkerRow
<1>3. BeginRun(t, worker[w].trigger, worker[w].version, epoch)
  BY DEF Claim
<1>4. /\ StoreInv' /\ RunsKept
      /\ runSeq' \in RunIds
      /\ run'[runSeq'] # Null
      /\ run'[runSeq'].task = t
      /\ run'[runSeq'].runner = epoch
      /\ task'[t] \in TaskRow
  <2> HIDE DEF t
  <2>1. QED
    BY <1>2, <1>3, BeginRunKeeps DEF IInv
<1>5. row \in WorkerRow /\ row.task = t /\ row.pc = "running" /\ row.run = runSeq'
  BY <1>4, <1>2 DEF TaskRow, StoreInv, StoreTypeOK, WorkerRow
<1>6. worker' = [worker EXCEPT ![w] = row] /\ UNCHANGED <<aroundWorker, spent>>
  BY DEF Claim
<1> HIDE DEF t, row
<1>7. worker'[w] = row /\ \A v \in Workers \ {w} : worker'[v] = worker[v]
  BY <1>6 DEF IInv, MemTypeOK
<1>8. MemTypeOK'
  BY <1>5, <1>6 DEF IInv, MemTypeOK, aroundWorker
<1>9. Started' /\ LoopRests'
  BY <1>6 DEF IInv, Started, LoopRests, aroundWorker
<1>10. runSeq \in Nat /\ runSeq' \in Nat /\ runSeq' <= runSeq'
  BY <1>4 DEF IInv, StoreInv, StoreTypeOK, RunIds
<1>11. Owns(w)'
  BY <1>2, <1>4, <1>5, <1>6, <1>7, <1>10 DEF Owns, Busy, aroundWorker
<1>12. \A v \in Workers \ {w} : Owns(v)'
  BY <1>4, <1>6, <1>7, <1>10, OwnsKept DEF IInv, WorkersOwn, aroundWorker
<1>13. WorkersOwn'
  BY <1>11, <1>12 DEF WorkersOwn
<1>14. QED
  BY <1>4, <1>8, <1>9, <1>13 DEF IInv

(* A claim that was refused or failed.                                     *)
LEMMA RefusedKeeps ==
  ASSUME IInv, NEW w \in Workers, ClaimRefused(w) \/ ClaimFails(w)
  PROVE  IInv'
<1>1. Busy(w) /\ RunReturns(w) /\ UNCHANGED aroundWorker
  BY DEF ClaimRefused, ClaimFails, HasSlot, Busy
<1>2. CASE ClaimRefused(w)
  BY <1>1, <1>2, ReturnedWorker, BeginRunRefusedKeeps, RunReturnsKeeps DEF IInv, ClaimRefused,
     MemTypeOK
<1>3. CASE ClaimFails(w)
  BY <1>3, StutterKeeps, FaultType, <1>1, RunReturnsKeeps DEF IInv, ClaimFails, MemTypeOK
<1>4. QED
  BY <1>2, <1>3

(* A completion, or a completion the database did not take.                *)
LEMMA FinishKeeps ==
  ASSUME IInv, NEW w \in Workers, Finish(w) \/ FinishFails(w)
  PROVE  IInv'
<1>1. /\ Busy(w) /\ worker[w].pc = "running"
      /\ RunReturns(w) /\ UNCHANGED aroundWorker
  BY DEF Finish, FinishFails, Busy
<1>2. CASE Finish(w)
  BY <1>2, <1>1, ReturnedWorker, FinishRunKeeps, RunReturnsKeeps DEF Finish, IInv, WorkersOwn,
     Owns, MemTypeOK
<1>3. CASE FinishFails(w)
  BY <1>3, StutterKeeps, FaultType, <1>1, RunReturnsKeeps DEF IInv, FinishFails, MemTypeOK
<1>4. QED
  BY <1>2, <1>3

(* The reload that ends a run.                                             *)
LEMMA ReloadAfterRunKeeps ==
  ASSUME IInv, NEW w \in Workers, ReloadAfterRun(w)
  PROVE  IInv'
BY StutterKeeps, ReturnedWorker, IdleTypes, WorkerSteps DEF IInv, ReloadAfterRun, Busy, MemTypeOK,
   ReloadTask, IdleWorker

-----------------------------------------------------------------------------
(* The service, the retention pass and the clock: the workers and the loop *)
(* stay where they are.                                                    *)

(* A step outside loop and workers keeps the invariant when the tables do. *)
LEMMA ServiceWrites ==
  ASSUME IInv, StoreInv', RunsKept,
         UNCHANGED <<phase, epoch, bootAt, heap, loop, queue, worker>>,
         dirty' \in SUBSET Tasks, wake' \in BOOLEAN, pending' \in SUBSET Tasks,
         manual' \in Seq(Tasks), Len(manual') <= ManualQueueSize,
         toggle' \in ToggleRow \cup {Null}, spent' \in Budget
  PROVE  IInv'
BY WorkersRest DEF IInv, MemTypeOK

(* Create and Update.                                                      *)
LEMMA EditKeeps ==
  ASSUME IInv, NEW t \in Tasks, NEW enabled \in BOOLEAN,
         NEW sched \in Schedules, NEW missed \in Policies,
         Create(t, enabled, sched, missed) \/ Update(t, enabled, sched, missed)
  PROVE  IInv'
<1>1. pending' \in SUBSET Tasks
  BY DEF IInv, MemTypeOK, Create, Update
<1>2. CASE Create(t, enabled, sched, missed)
  BY <1>2, CreateRowKeeps, <1>1, ServiceWrites DEF IInv, Create, MemTypeOK, aroundService
<1>3. CASE Update(t, enabled, sched, missed)
  BY <1>3, UpdateRowKeeps, EditType, <1>1, ServiceWrites DEF IInv, Update, MemTypeOK, aroundService
<1>4. QED
  BY <1>2, <1>3

(* Delete.                                                                 *)
LEMMA DeleteKeeps ==
  ASSUME IInv, NEW t \in Tasks, Delete(t)
  PROVE  IInv'
BY DeleteRowKeeps, EditType, ServiceWrites DEF IInv, Delete, MemTypeOK, aroundService

(* The reload that ends a service call.                                    *)
LEMMA ServiceReloadKeeps ==
  ASSUME IInv, NEW t \in Tasks, ServiceReload(t)
  PROVE  IInv'
BY StutterKeeps, ServiceWrites DEF IInv, ServiceReload, MemTypeOK, ReloadTask

(* RunNow respects the capacity of its queue.                              *)
LEMMA RunNowKeeps ==
  ASSUME IInv, NEW t \in Tasks, RunNow(t)
  PROVE  IInv'
BY StutterKeeps, CapacityAssumption, ServiceWrites DEF IInv, RunNow, MemTypeOK, aroundService

(* SetEnabled reads the row.                                               *)
LEMMA SetEnabledReadKeeps ==
  ASSUME IInv, NEW t \in Tasks, NEW enabled \in BOOLEAN, SetEnabledRead(t, enabled)
  PROVE  IInv'
BY StutterKeeps, ExistingRow, NextFireNat, EditType, ServiceWrites DEF IInv, SetEnabledRead,
   StoreInv, StoreTypeOK, TaskRow, ToggleRow, MemTypeOK, aroundService

(* SetEnabled writes what it has read.                                     *)
LEMMA SetEnabledWriteKeeps ==
  ASSUME IInv, SetEnabledWrite
  PROVE  IInv'
BY SetEnabledRowKeeps, ServiceWrites DEF IInv, MemTypeOK, SetEnabledWrite, ToggleRow, aroundService

(* The hourly retention pass.                                              *)
LEMMA PruneKeeps ==
  ASSUME IInv, NEW r \in RunIds, Prune(r)
  PROVE  IInv'
BY PruneRunKeeps, EditType, ServiceWrites DEF IInv, Prune, MemTypeOK, aroundService

(* Time passes.                                                            *)
LEMMA ClockKeeps ==
  ASSUME IInv, Clock
  PROVE  IInv'
BY TickKeeps, ServiceWrites DEF IInv, Clock, MemTypeOK, memVars

-----------------------------------------------------------------------------
(* The process.                                                            *)

(* The process dies: locks and runs stay in the tables, no worker owns one. *)
LEMMA MemoryLostKeeps ==
  ASSUME IInv, MemoryLost, UNCHANGED storeVars, spent' \in Budget
  PROVE  IInv'
<1>1. StoreInv' /\ RunsKept
  BY StutterKeeps DEF IInv
<1>2. MemTypeOK'
  <2>1. heap' \in [Tasks -> HeapItem \cup {Null}] /\ loop' \in LoopRow
    BY IdleTypes DEF MemoryLost
  <2>2. worker' \in [Workers -> WorkerRow]
    BY IdleTypes DEF MemoryLost
  <2>3. /\ queue' \in Seq(Job) /\ Len(queue') <= DispatchQueueSize
        /\ manual' \in Seq(Tasks) /\ Len(manual') <= ManualQueueSize
    BY CapacityAssumption DEF MemoryLost
  <2>4. QED
    BY <2>1, <2>2, <2>3 DEF IInv, MemTypeOK, MemoryLost
<1>3. WorkersOwn'
  BY DEF WorkersOwn, Owns, Busy, MemoryLost, IdleWorker
<1>4. Started' /\ LoopRests'
  BY DEF Started, LoopRests, MemoryLost
<1>5. QED
  BY <1>1, <1>2, <1>3, <1>4 DEF IInv

(* The process starts, under a runnerID of its own.                        *)
LEMMA BootKeeps ==
  ASSUME IInv, Boot
  PROVE  IInv'
<1>1. StoreInv' /\ RunsKept
  BY StutterKeeps DEF IInv, Boot
<1>2. now \in Nat /\ epoch + 1 \in Nat \ {0}
  BY DEF IInv, StoreInv, StoreTypeOK, MemTypeOK
<1>3. spent' \in Budget
  <2>1. spent.boots + 1 \in 0..MaxBoots
    BY BudgetAssumption DEF IInv, MemTypeOK, Budget, Boot
  <2>2. QED
    BY <2>1 DEF IInv, MemTypeOK, Budget, Boot
<1>4. MemTypeOK'
  BY <1>2, <1>3 DEF IInv, MemTypeOK, Boot
<1>5. \A w \in Workers : worker'[w].pc = "idle"
  BY DEF IInv, WorkersOwn, Owns, Busy, Boot
<1>6. WorkersOwn'
  BY <1>5 DEF WorkersOwn, Owns, Busy
<1>7. Started' /\ LoopRests'
  BY <1>2 DEF Started, LoopRests, Boot
<1>8. QED
  BY <1>1, <1>4, <1>6, <1>7 DEF IInv

(* A statement of reconcile fails.                                         *)
LEMMA ReconcileFailsKeeps ==
  ASSUME IInv, ReconcileFails
  PROVE  IInv'
<1>1. StoreInv' /\ RunsKept /\ UNCHANGED storeVars
  BY StutterKeeps DEF IInv, ReconcileFails
<1>2. spent' \in Budget
  BY FaultType DEF IInv, MemTypeOK, ReconcileFails
<1>3. CASE phase = "up"
  BY <1>3, <1>1, <1>2, LoopWrites DEF ReconcileFails, IInv, MemTypeOK, LoopRow
<1>4. CASE phase # "up"
  BY <1>1, <1>2, <1>4, MemoryLostKeeps DEF ReconcileFails
<1>5. QED
  BY <1>3, <1>4

-----------------------------------------------------------------------------
(* Every behaviour of the task centre satisfies the inductive invariant.   *)

(* The invariant holds initially.                                          *)
LEMMA InitIInv == Init => IInv
<1> SUFFICES ASSUME Init
             PROVE  IInv
  OBVIOUS
<1>1. StoreTypeOK
  BY BoundAssumption DEF Init, StoreTypeOK
<1>2. LockMatchesRun /\ RunsNumbered
  BY DEF Init, LockMatchesRun, RunsNumbered, Locked, Exists, Running
<1>3. spent \in Budget
  BY BudgetAssumption DEF Init, Budget
<1>4. MemTypeOK
  <2>1. heap \in [Tasks -> HeapItem \cup {Null}] /\ loop \in LoopRow
    BY IdleTypes DEF Init
  <2>2. worker \in [Workers -> WorkerRow]
    BY IdleTypes DEF Init
  <2>3. /\ queue \in Seq(Job) /\ Len(queue) <= DispatchQueueSize
        /\ manual \in Seq(Tasks) /\ Len(manual) <= ManualQueueSize
    BY CapacityAssumption DEF Init
  <2>4. QED
    BY <1>3, <2>1, <2>2, <2>3 DEF Init, MemTypeOK
<1>5. WorkersOwn
  BY DEF Init, WorkersOwn, Owns, Busy, IdleWorker
<1>6. Started /\ LoopRests
  BY DEF Init, Started, LoopRests
<1>7. QED
  BY <1>1, <1>2, <1>4, <1>5, <1>6 DEF IInv, StoreInv

(* Every step of the loop keeps the invariant.                             *)
LEMMA LoopStepKeeps ==
  ASSUME IInv, LoopStep
  PROVE  IInv'
<1>1. CASE \E t \in Tasks : ReloadDirty(t)
  BY <1>1, ReloadDirtyKeeps
<1>2. CASE \E t \in Tasks :
             LoadLocked(t) \/ LoadIndexed(t) \/ LoadRescheduled(t) \/ LoadOutdated(t)
  BY <1>2, LoadKeeps
<1>3. CASE \E t \in Tasks : DispatchParked(t) \/ DispatchStale(t) \/ DispatchSent(t)
  BY <1>3, DispatchKeeps
<1>4. CASE Reconcile \/ ReconcileList \/ Wake \/ DrainDirty \/ Refresh \/ DispatchEnds
  BY <1>4, ReconcileKeeps, ReconcileListKeeps, WakeKeeps, DrainDirtyKeeps, RefreshKeeps,
     DispatchEndsKeeps
<1>5. QED
  BY <1>1, <1>2, <1>3, <1>4 DEF LoopStep

(* Every step of a worker keeps the invariant.                             *)
LEMMA WorkerStepKeeps ==
  ASSUME IInv, NEW w \in Workers, WorkerStep(w)
  PROVE  IInv'
BY TakeKeeps, ClaimKeeps, RefusedKeeps, FinishKeeps, ReloadAfterRunKeeps DEF WorkerStep

(* Every step of a service call keeps the invariant.                       *)
LEMMA ServiceStepKeeps ==
  ASSUME IInv, ServiceStep
  PROVE  IInv'
BY SetEnabledWriteKeeps, EditKeeps, SetEnabledReadKeeps, RunNowKeeps, DeleteKeeps,
   ServiceReloadKeeps DEF ServiceStep

(* Every failure of the database keeps the invariant.                      *)
LEMMA DbFaultKeeps ==
  ASSUME IInv, DbFault
  PROVE  IInv'
<1>1. CASE \E w \in Workers : ClaimFails(w) \/ FinishFails(w)
  BY <1>1, RefusedKeeps, FinishKeeps
<1>2. ASSUME NEW t \in Tasks, ReloadDirtyFails(t)
      PROVE  IInv'
  BY <1>2, StutterKeeps, FaultType, LoopWrites DEF IInv, ReloadDirtyFails, MemTypeOK, LoopRow,
     LoopRests, IdleLoop
<1>3. CASE \E t \in Tasks : LoadFails(t) \/ DispatchFails(t)
  BY <1>3, LoadKeeps, DispatchKeeps
<1>4. CASE ReconcileFails \/ RefreshFails
  BY <1>4, ReconcileFailsKeeps, RefreshKeeps
<1>5. QED
  BY <1>1, <1>2, <1>3, <1>4 DEF DbFault

(* Every step keeps the invariant.                                         *)
LEMMA NextKeeps == IInv /\ [Next]_vars => IInv'
<1> SUFFICES ASSUME IInv, [Next]_vars
             PROVE  IInv'
  OBVIOUS
<1>1. CASE Boot
  BY <1>1, BootKeeps
<1>2. CASE Crash
  BY <1>2, MemoryLostKeeps DEF IInv, MemTypeOK, Crash
<1>3. CASE LoopStep
  BY <1>3, LoopStepKeeps
<1>4. CASE \E w \in Workers : WorkerStep(w)
  BY <1>4, WorkerStepKeeps
<1>5. CASE ServiceStep
  BY <1>5, ServiceStepKeeps
<1>6. CASE DbFault
  BY <1>6, DbFaultKeeps
<1>7. CASE \E r \in RunIds : Prune(r)
  BY <1>7, PruneKeeps
<1>8. CASE Clock
  BY <1>8, ClockKeeps
<1>9. CASE UNCHANGED vars
  BY <1>9, StutterKeeps, ServiceWrites DEF IInv, MemTypeOK, vars, memVars
<1>10. QED
  BY <1>1, <1>2, <1>3, <1>4, <1>5, <1>6, <1>7, <1>8, <1>9 DEF Next

(* The inductive invariant holds in every reachable state.                 *)
THEOREM Invariant == Spec => []IInv
<1>1. Init => IInv
  BY InitIInv
<1>2. IInv /\ [Next]_vars => IInv'
  BY NextKeeps
<1>3. QED
  BY <1>1, <1>2, PTL DEF Spec

(* Every variable of the tables, the engine, the runner and the service    *)
(* keeps its type, for any number of tasks, workers and faults: in         *)
(* particular neither queue ever holds more than its capacity.             *)
THEOREM TypeCorrect == Spec => []TypeOK
<1>1. IInv => TypeOK
  BY TypeHalves DEF IInv, StoreInv
<1>2. QED
  BY <1>1, Invariant, PTL

(* No run outlives its lock, no lock outlives its run and no task has two  *)
(* runs in progress, whatever is edited, recovered, retried or restarted.  *)
THEOREM LockCorrect == Spec => []LockMatchesRun
<1>1. IInv => LockMatchesRun
  BY DEF IInv, StoreInv
<1>2. QED
  BY <1>1, Invariant, PTL
-----------------------------------------------------------------------------
(* TaskCenter implements TaskLease: every statement of the repository is a *)
(* step of the lease protocol or leaves its variables alone.               *)

(* What the refinement mapping gives a task and a run.                     *)
HolderOf(t) == IF Locked(t) THEN task[t].lastRun ELSE 0
ExpiryOf(t) == IF Locked(t) THEN task[t].lockedUntil ELSE 0
OutcomeOf(r) ==
  IF run[r] = Null THEN IF r <= runSeq THEN "forgotten" ELSE "none"
  ELSE IF run[r].status = "running" THEN "running"
  ELSE IF run[r].status = "abandoned" THEN "abandoned" ELSE "done"

(* The mapped values have the types of the lease protocol, and tell which  *)
(* runs are in progress.                                                   *)
LEMMA MappedTypes ==
  ASSUME StoreInv
  PROVE  /\ \A t \in Tasks : HolderOf(t) \in RunIds \cup {0} /\ ExpiryOf(t) \in Nat
         /\ \A t \in Tasks : HolderOf(t) # 0 <=> Locked(t)
         /\ \A r \in RunIds : OutcomeOf(r) = "running" <=> Running(r)
         /\ \A r \in RunIds : OutcomeOf(r) = "none" <=> r > runSeq
<1>1. /\ StoreTypeOK /\ LocksHaveRuns /\ RunsHaveLocks /\ RunsNumbered
      /\ 0 \notin RunIds /\ runSeq \in Nat /\ RunIds \subseteq Nat
  BY LockHalves DEF StoreInv, StoreTypeOK, RunIds
<1>2. ASSUME NEW t \in Tasks
      PROVE  /\ HolderOf(t) \in RunIds \cup {0} /\ ExpiryOf(t) \in Nat
             /\ HolderOf(t) # 0 <=> Locked(t)
  <2>1. CASE Locked(t)
    BY <1>1, <2>1, ExistingRow DEF Locked, LocksHaveRuns, TaskRow, HolderOf, ExpiryOf
  <2>2. CASE ~Locked(t)
    BY <2>2 DEF HolderOf, ExpiryOf
  <2>3. QED
    BY <2>1, <2>2
<1>3. ASSUME NEW r \in RunIds
      PROVE  /\ OutcomeOf(r) = "running" <=> Running(r)
             /\ OutcomeOf(r) = "none" <=> r > runSeq
  BY <1>1 DEF OutcomeOf, Running, RunsNumbered
<1>4. QED
  BY <1>2, <1>3

(* Nothing the mapping looks at has changed.                               *)
LEMMA LeaseRests ==
  ASSUME now' = now,
         \A t \in Tasks : HolderOf(t)' = HolderOf(t) /\ ExpiryOf(t)' = ExpiryOf(t),
         \A r \in RunIds : OutcomeOf(r)' = OutcomeOf(r)
  PROVE  UNCHANGED Leases!leaseVars
BY DEF Leases!leaseVars, HolderOf, ExpiryOf, OutcomeOf

(* A statement that leaves the locks and the runs alone leaves the leases  *)
(* alone.                                                                  *)
LEMMA SameLockRests ==
  ASSUME StoreInv, NEW t \in Tasks, task[t] # Deleted, NEW row \in TaskRow,
         Exists(t) => SameLock(row, task[t]),
         ~Exists(t) => row.lockedBy = 0,
         task' = [task EXCEPT ![t] = row],
         UNCHANGED <<now, run, runSeq>>
  PROVE  UNCHANGED Leases!leaseVars
BY AbsentAssumption, LeaseRests DEF StoreInv, StoreTypeOK, HolderOf, ExpiryOf, Locked, Exists,
   SameLock, OutcomeOf

(* Neither does a step that touches no table.                              *)
LEMMA StutterRests ==
  ASSUME UNCHANGED storeVars
  PROVE  UNCHANGED Leases!leaseVars
BY LeaseRests DEF storeVars, HolderOf, ExpiryOf, OutcomeOf, Locked, Exists

(* Time passes.                                                            *)
LEMMA TickPasses ==
  ASSUME StoreInv, Tick
  PROVE  Leases!Pass
BY DEF StoreInv, StoreTypeOK, Tick, Leases!Pass, Locked, Exists

(* A run that ended is pruned: it is forgotten.                            *)
LEMMA PruneForgets ==
  ASSUME StoreInv, NEW r \in RunIds, PruneRun(r)
  PROVE  Leases!ForgetEnded(r)
<1>1. /\ run[r] # Null /\ run[r].status # "running" /\ run' = [run EXCEPT ![r] = Null]
      /\ UNCHANGED <<now, task, runSeq>>
  BY DEF PruneRun
<1>2. /\ run \in [RunIds -> RunRow \cup {Null}] /\ r <= runSeq
  BY <1>1 DEF StoreInv, StoreTypeOK, RunsNumbered, RunIds
<1>3. OutcomeOf(r) \in {"done", "abandoned"}
  BY <1>1 DEF OutcomeOf
<1>4. \A q \in RunIds : OutcomeOf(q)' = IF q = r THEN "forgotten" ELSE OutcomeOf(q)
  BY <1>1, <1>2 DEF OutcomeOf
<1>5. UNCHANGED <<now, task>>
  BY <1>1
<1>6. QED
  BY <1>3, <1>4, <1>5 DEF Leases!ForgetEnded, OutcomeOf, Locked, Exists

(* A deleted task takes its runs along.                                    *)
LEMMA DeleteForgets ==
  ASSUME StoreInv, NEW t \in Tasks, DeleteRow(t)
  PROVE  \E R \in SUBSET RunIds : Leases!Forget(t, R)
<1>0. PICK R \in SUBSET RunIds : R = {r \in RunIds : run[r] # Null /\ run[r].task = t}
  OBVIOUS
<1>1. /\ task' = [task EXCEPT ![t] = Deleted]
      /\ run' = [r \in RunIds |-> IF run[r] # Null /\ run[r].task = t THEN Null ELSE run[r]]
      /\ UNCHANGED <<now, runSeq>>
  BY DEF DeleteRow
<1>2. /\ StoreTypeOK /\ LocksHaveRuns /\ RunsHaveLocks /\ RunsNumbered
      /\ runSeq \in Nat /\ RunIds \subseteq Nat
  BY LockHalves DEF StoreInv, StoreTypeOK, RunIds
<1>3. \A r \in R : r <= runSeq
  BY <1>0, <1>2 DEF RunsNumbered
<1>4. \A r \in R : OutcomeOf(r) # "none" /\ (OutcomeOf(r) = "running" => HolderOf(t) = r)
  BY <1>0, <1>2, <1>3 DEF OutcomeOf, HolderOf, RunsHaveLocks, Running
<1>5. HolderOf(t) # 0 => HolderOf(t) \in R
  BY <1>0, <1>2 DEF HolderOf, LocksHaveRuns, Running
<1>6. \A u \in Tasks : /\ HolderOf(u)' = IF u = t THEN 0 ELSE HolderOf(u)
                       /\ ExpiryOf(u)' = IF u = t THEN 0 ELSE ExpiryOf(u)
  BY <1>1, <1>2 DEF HolderOf, ExpiryOf, Locked, Exists, StoreTypeOK
<1>7. \A r \in RunIds : OutcomeOf(r)' = IF r \in R THEN "forgotten" ELSE OutcomeOf(r)
  BY <1>0, <1>1, <1>2, <1>3 DEF OutcomeOf
<1>8. Leases!Forget(t, R)
  BY <1>1, <1>4, <1>5, <1>6, <1>7 DEF Leases!Forget, HolderOf, ExpiryOf, OutcomeOf
<1>9. QED
  BY <1>8

(* What the recovery of a set of tasks does to the leases.                 *)
LEMMA RecoveredLeases ==
  ASSUME StoreInv, NEW S \in SUBSET Tasks, NEW r \in RunIds, NEW E,
         E = {t \in S : Expired(t)}
  PROVE  /\ \A t \in E : Locked(t) /\ ExpiryOf(t) < now
         /\ RecoveredRuns(S)[r] = Null <=> run[r] = Null
         /\ IF \E t \in E : HolderOf(t) = r
            THEN RecoveredRuns(S)[r] # Null /\ RecoveredRuns(S)[r].status = "abandoned"
            ELSE RecoveredRuns(S)[r] = run[r]
<1>1. StoreTypeOK /\ LocksHaveRuns
  BY LockHalves DEF StoreInv
<1>2. \A t \in E : /\ Locked(t) /\ ExpiryOf(t) < now /\ HolderOf(t) = task[t].lastRun
                   /\ Running(task[t].lastRun)
  BY <1>1 DEF Locked, Expired, ExpiredLock, ExpiryOf, HolderOf, LocksHaveRuns
<1>3. CASE \E t \in E : HolderOf(t) = r
  BY <1>1, <1>2, <1>3, AbsentAssumption DEF Running, StoreTypeOK, RecoveredRuns, RunRow
<1>4. CASE ~\E t \in E : HolderOf(t) = r
  BY <1>2, <1>4 DEF RecoveredRuns
<1>5. QED
  BY <1>2, <1>3, <1>4

(* Locks that ran out are recovered: the leases are revoked.               *)
LEMMA RecoveryRevokes ==
  ASSUME StoreInv, NEW S \in SUBSET Tasks,
         task' = RecoveredTasks(S), run' = RecoveredRuns(S),
         UNCHANGED <<now, runSeq>>
  PROVE  \E E \in SUBSET Tasks : Leases!Revoke(E)
<1>0. PICK E \in SUBSET Tasks : E = {t \in S : Expired(t)}
  OBVIOUS
<1>1. StoreTypeOK
  BY DEF StoreInv
<1>2. \A t \in Tasks : IF t \in E THEN task'[t].lockedBy = 0 ELSE task'[t] = task[t]
  BY <1>0, <1>1, ExistingRow, RecoveredRow DEF RecoveredTasks, Expired
<1>3. \A t \in Tasks : /\ HolderOf(t)' = IF t \in E THEN 0 ELSE HolderOf(t)
                       /\ ExpiryOf(t)' = IF t \in E THEN 0 ELSE ExpiryOf(t)
  BY <1>2 DEF HolderOf, ExpiryOf, Locked, Exists
<1>4. ASSUME NEW r \in RunIds
      PROVE  /\ \A t \in E : Locked(t) /\ ExpiryOf(t) < now
             /\ OutcomeOf(r)' = IF \E t \in E : HolderOf(t) = r
                                THEN "abandoned" ELSE OutcomeOf(r)
  BY <1>0, RecoveredLeases DEF OutcomeOf
<1>5. \A t \in E : HolderOf(t) # 0 /\ ExpiryOf(t) < now
  BY <1>0, MappedTypes DEF Expired, ExpiredLock, Locked, ExpiryOf
<1>6. Leases!Revoke(E)
  BY <1>3, <1>4, <1>5
  DEF Leases!Revoke, Leases!Revoked, Leases!Revocable, HolderOf, ExpiryOf, OutcomeOf
<1>7. QED
  BY <1>6

(* The completion ends the lease of the run, or finds it revoked.          *)
LEMMA FinishEnds ==
  ASSUME StoreInv, NEW t \in Tasks, NEW r \in RunIds, NEW version,
         NEW runner \in Nat \ {0},
         run[r] # Null => run[r].task = t /\ run[r].runner = runner,
         FinishRun(t, r, version, runner)
  PROVE  Leases!End(t) \/ UNCHANGED Leases!leaseVars
<1>1. /\ StoreTypeOK /\ LocksHaveRuns /\ RunsHaveLocks /\ now \in Nat
      /\ UNCHANGED <<now, runSeq>>
  BY LockHalves DEF StoreInv, StoreTypeOK, FinishRun
<1>2. CASE Running(r)
  <2>1. Locked(t) /\ task[t].lastRun = r /\ task[t].lockedBy = runner
    BY <1>1, <1>2 DEF RunsHaveLocks, LocksHaveRuns, Running
  <2>2. run' = [run EXCEPT ![r].status = "ended"]
    BY <1>2 DEF FinishRun, Running
  <2>3. task[t] \in TaskRow
    BY <1>1, <2>1, ExistingRow DEF Locked
  <2>4. PICK row \in TaskRow : row.lockedBy = 0 /\ task' = [task EXCEPT ![t] = row]
    BY <2>1, <1>1, <2>3, FinishedRow, ReleasedRow DEF FinishRun, Locked
  <2>5. run[r] \in RunRow /\ run'[r] = [run[r] EXCEPT !.status = "ended"]
    BY <1>1, <1>2, <2>2 DEF StoreTypeOK, Running
  <2>6. run'[r] # Null /\ run'[r].status = "ended"
    BY <2>5, AbsentAssumption DEF RunRow
  <2>7. \A u \in Tasks : /\ HolderOf(u)' = IF u = t THEN 0 ELSE HolderOf(u)
                         /\ ExpiryOf(u)' = IF u = t THEN 0 ELSE ExpiryOf(u)
    BY <1>1, <2>4 DEF HolderOf, ExpiryOf, Locked, Exists, StoreTypeOK
  <2>8. \A q \in RunIds : OutcomeOf(q)' = IF q = r THEN "done" ELSE OutcomeOf(q)
    BY <1>1, <2>2, <2>6 DEF OutcomeOf, StoreTypeOK
  <2>9. HolderOf(t) = r /\ HolderOf(t) # 0
    BY <2>1, MappedTypes DEF HolderOf
  <2>10. Leases!End(t)
    BY <1>1, <2>7, <2>8, <2>9 DEF Leases!End, HolderOf, ExpiryOf, OutcomeOf
  <2>11. QED
    BY <2>10
<1>3. CASE ~Running(r)
  BY <1>3, <1>1, StutterRests DEF FinishRun, Running, LocksHaveRuns, Locked, storeVars
<1>4. QED
  BY <1>2, <1>3

(* The claim grants a lease to a new run.                                  *)
LEMMA BeginRunGrants ==
  ASSUME StoreInv, NEW t \in Tasks, NEW trigger \in {"schedule", "manual"}, NEW version,
         NEW runner \in Nat \ {0}, BeginRun(t, trigger, version, runner)
  PROVE  Leases!Grant(t, runSeq + 1)
<1> DEFINE row == RecoveredTasks({t})[t]
           id  == runSeq + 1
           new == StartedRun(t, trigger, runner, row.next)
           E   == {u \in {t} : Expired(u)}
<1>1. /\ StoreTypeOK /\ LocksHaveRuns /\ RunsNumbered /\ now \in Nat /\ runSeq \in Nat
  BY LockHalves DEF StoreInv, StoreTypeOK
<1>2. /\ runSeq < MaxRuns
      /\ ClaimableAfterRecovery(t, trigger, version)
      /\ task' = [task EXCEPT ![t] = Claimed(row, runner, id)]
      /\ run' = [RecoveredRuns({t}) EXCEPT ![id] = new]
      /\ runSeq' = id /\ now' = now
  BY DEF BeginRun
<1>3. id \in RunIds /\ id \in Nat /\ run[id] = Null /\ OutcomeOf(id) = "none"
  BY <1>1, <1>2, BoundAssumption DEF RunIds, RunsNumbered, OutcomeOf
<1>4. StoreInv' /\ run'[id] # Null
  BY <1>2, BeginRunKeeps
<1>5. task[t] \in TaskRow /\ row \in TaskRow
  BY <1>1, <1>2, ExistingRow, RecoveredRow DEF ClaimableAfterRecovery, RecoveredTasks
<1>6. /\ Locked(t)' /\ task'[t].lastRun = id /\ task'[t].lockedUntil = LockExpiry(now)
      /\ \A u \in Tasks \ {t} : task'[u] = task[u]
  <2> HIDE DEF row, id
  <2>1. /\ Claimed(row, runner, id) \in TaskRow
        /\ Claimed(row, runner, id).lockedBy = runner
        /\ Claimed(row, runner, id).lockedUntil = LockExpiry(now)
        /\ Claimed(row, runner, id).lastRun = id
    BY <1>1, <1>3, <1>5, ClaimedRow
  <2>2. task' = [task EXCEPT ![t] = Claimed(row, runner, id)]
    BY <1>2 DEF row, id
  <2>3. QED
    BY <1>1, <2>1, <2>2, AbsentAssumption DEF Locked, Exists, StoreTypeOK
<1>7. Locked(t) => t \in E
  BY <1>2 DEF ClaimableAfterRecovery, Claimable, RecoveredTasks, Expired, Locked
<1>8. HolderOf(t) = 0 \/ (HolderOf(t) # 0 /\ ExpiryOf(t) < now)
  BY <1>7 DEF HolderOf, ExpiryOf, Expired, ExpiredLock
<1>9. \A u \in Tasks : /\ HolderOf(u)' = IF u = t THEN id ELSE HolderOf(u)
                       /\ u # t => ExpiryOf(u)' = ExpiryOf(u)
  BY <1>6 DEF HolderOf, ExpiryOf, Locked, Exists
<1>10. ExpiryOf(t)' >= now + (Lease - 1) /\ \A u \in Tasks : ExpiryOf(u)' \in Nat
  <2>1. LockExpiry(now) >= now + (Lease - 1)
    BY <1>1, LeaseAssumption DEF LockExpiry
  <2>2. \A u \in Tasks : ExpiryOf(u)' \in Nat
    BY <1>4, LockHalvesNext, AbsentAssumption DEF StoreInv, ExpiryOf, LocksHaveRuns, Locked,
       Exists, StoreTypeOK, TaskRow
  <2>3. QED
    BY <1>6, <2>1, <2>2 DEF ExpiryOf
<1> HIDE DEF row, new
<1>11. ASSUME NEW r \in RunIds
       PROVE  OutcomeOf(r)' = IF r = id THEN "running"
                              ELSE IF HolderOf(t) # 0 /\ HolderOf(t) = r THEN "abandoned"
                              ELSE OutcomeOf(r)
  <2>1. CASE r = id
    BY <1>2, <1>3, <1>4, <2>1 DEF RecoveredRuns, new, StartedRun, OutcomeOf
  <2>2. CASE r # id
    <3>1. run'[r] = RecoveredRuns({t})[r]
      BY <1>2, <2>2 DEF RecoveredRuns
    <3>2. (r <= runSeq)' <=> r <= runSeq
      BY <1>1, <1>2, <2>2 DEF RunIds
    <3>3. E = IF Locked(t) THEN {t} ELSE {}
      BY <1>7 DEF Expired, ExpiredLock, Locked
    <3>4. /\ RecoveredRuns({t})[r] = Null <=> run[r] = Null
          /\ IF \E u \in E : HolderOf(u) = r
             THEN RecoveredRuns({t})[r] # Null /\ RecoveredRuns({t})[r].status = "abandoned"
             ELSE RecoveredRuns({t})[r] = run[r]
      BY RecoveredLeases
    <3>5. (\E u \in E : HolderOf(u) = r) <=> HolderOf(t) # 0 /\ HolderOf(t) = r
      BY MappedTypes, <3>3
    <3>6. CASE HolderOf(t) # 0 /\ HolderOf(t) = r
      BY <2>2, <3>1, <3>4, <3>5, <3>6 DEF OutcomeOf
    <3>7. CASE ~(HolderOf(t) # 0 /\ HolderOf(t) = r)
      BY <3>1, <3>4, <3>5, <3>7, <3>2, <2>2 DEF OutcomeOf
    <3>8. QED
      BY <3>6, <3>7
  <2>3. QED
    BY <2>1, <2>2
<1>12. /\ id # 0 /\ now' = now
  BY <1>1, <1>2
<1> HIDE DEF id, E
<1>13. Leases!Grant(t, id)
  BY <1>3, <1>8, <1>9, <1>10, <1>11, <1>12
  DEF Leases!Grant, Leases!Revoked, Leases!Revocable, HolderOf, ExpiryOf, OutcomeOf
<1>14. QED
  BY <1>13 DEF id

(* Every step of a worker is a step of the lease protocol or none.         *)
LEMMA WorkerLeases ==
  ASSUME IInv, NEW w \in Workers, WorkerStep(w)
  PROVE  [Leases!LeaseNext]_Leases!leaseVars
<1>1. CASE Claim(w) \/ ClaimRefused(w)
  <2>1. Busy(w)
    BY <1>1 DEF Claim, ClaimRefused, HasSlot, Busy
  <2>2. /\ worker[w].task \in Tasks /\ worker[w].trigger \in {"schedule", "manual"}
        /\ epoch \in Nat \ {0}
    BY <2>1, ReturnedWorker DEF WorkerRow
  <2>3. CASE Claim(w)
    <3>1. Leases!Grant(worker[w].task, runSeq + 1)
      BY <2>2, <2>3, BeginRunGrants DEF IInv, Claim
    <3>2. runSeq + 1 \in RunIds
      BY <2>3, BoundAssumption DEF IInv, StoreInv, StoreTypeOK, RunIds, Claim, BeginRun
    <3>3. QED
      BY <2>2, <3>1, <3>2 DEF Leases!LeaseNext, Leases!Grant
  <2>4. CASE ClaimRefused(w)
    BY <2>2, <2>4, RecoveryRevokes DEF IInv, ClaimRefused, BeginRunRefused, Leases!LeaseNext
  <2>5. QED
    BY <1>1, <2>3, <2>4
<1>2. CASE Finish(w)
  BY <1>2, ReturnedWorker, FinishEnds DEF Finish, Busy, IInv, WorkersOwn, Owns, Leases!End,
     Leases!LeaseNext
<1>3. CASE TakeDispatch(w) \/ TakeManual(w) \/ ReloadAfterRun(w)
  BY <1>3, StutterRests DEF TakeDispatch, TakeManual, ReloadAfterRun
<1>4. QED
  BY <1>1, <1>2, <1>3 DEF WorkerStep

(* So is every step of the loop.                                           *)
LEMMA LoopLeases ==
  ASSUME IInv, LoopStep
  PROVE  [Leases!LeaseNext]_Leases!leaseVars
<1>1. CASE Reconcile
  BY <1>1, RecoveryRevokes DEF IInv, Reconcile, MarkExpiredRunningAbandoned, Leases!LeaseNext
<1>2. ASSUME NEW t \in Tasks, LoadRescheduled(t)
      PROVE  UNCHANGED Leases!leaseVars
  BY <1>2, LoadingRow, NextRunAtNat, ExistingRow, RescheduledRow, SameLockRests DEF
     LoadRescheduled, Rescheduling, UpdateNextRun, UpdateNextRunMatches, IInv, StoreInv, Exists
<1>3. CASE ReconcileList \/ Wake \/ DrainDirty \/ Refresh \/ DispatchEnds
  BY <1>3, StutterRests DEF ReconcileList, Wake, DrainDirty, Refresh, DispatchEnds
<1>4. ASSUME NEW t \in Tasks,
             \/ ReloadDirty(t) \/ LoadLocked(t) \/ LoadIndexed(t) \/ LoadOutdated(t)
             \/ DispatchParked(t) \/ DispatchStale(t) \/ DispatchSent(t)
      PROVE  UNCHANGED Leases!leaseVars
  BY <1>4, StutterRests DEF ReloadDirty, LoadLocked, LoadIndexed, LoadOutdated,
     DispatchParked, DispatchStale, DispatchSent
<1>5. QED
  BY <1>1, <1>2, <1>3, <1>4 DEF LoopStep

(* So is every service call, and the retention pass.                       *)
LEMMA ServiceLeases ==
  ASSUME IInv, ServiceStep \/ \E r \in RunIds : Prune(r)
  PROVE  [Leases!LeaseNext]_Leases!leaseVars
<1>1. CASE SetEnabledWrite
  <2>1. PICK t \in Tasks, enabled \in BOOLEAN, next \in Nat \cup {Null} :
          SetEnabledRow(t, enabled, next)
    BY <1>1 DEF IInv, MemTypeOK, ToggleRow, SetEnabledWrite
  <2>2. CASE Exists(t)
    BY <2>2, ExistingRow, <2>1, ToggledRow, SameLockRests DEF IInv, StoreInv, SetEnabledRow, Exists
  <2>3. CASE ~Exists(t)
    BY <2>1, <2>3, StutterRests DEF SetEnabledRow, storeVars
  <2>4. QED
    BY <2>2, <2>3
<1>2. ASSUME NEW t \in Tasks, NEW enabled \in BOOLEAN, NEW sched \in Schedules,
             NEW missed \in Policies,
             Create(t, enabled, sched, missed) \/ Update(t, enabled, sched, missed)
      PROVE  UNCHANGED Leases!leaseVars
  <2>1. now \in Nat /\ Null # Deleted
    BY NullAssumption DEF IInv, StoreInv, StoreTypeOK
  <2>2. CASE Create(t, enabled, sched, missed)
    BY <2>1, <2>2, NewRowType, SameLockRests DEF IInv, Create, CreateRow, Exists
  <2>3. CASE Update(t, enabled, sched, missed)
    BY <2>3, ExistingRow, <2>1, EditedRow, SameLockRests DEF IInv, StoreInv, Update, UpdateRow,
       Exists
  <2>4. QED
    BY <1>2, <2>2, <2>3
<1>3. ASSUME NEW t \in Tasks, Delete(t)
      PROVE  Leases!LeaseNext
  BY <1>3, DeleteForgets DEF IInv, Delete, Leases!LeaseNext
<1>4. ASSUME NEW r \in RunIds, Prune(r)
      PROVE  Leases!LeaseNext
  BY <1>4, PruneForgets DEF IInv, Prune, Leases!LeaseNext
<1>5. ASSUME NEW t \in Tasks, ServiceReload(t) \/ RunNow(t)
      PROVE  UNCHANGED Leases!leaseVars
  BY <1>5, StutterRests DEF ServiceReload, RunNow
<1>6. ASSUME NEW t \in Tasks, NEW enabled \in BOOLEAN, SetEnabledRead(t, enabled)
      PROVE  UNCHANGED Leases!leaseVars
  BY <1>6, StutterRests DEF SetEnabledRead
<1>7. QED
  BY <1>1, <1>2, <1>3, <1>4, <1>5, <1>6 DEF ServiceStep

(* A failing statement changes no table.                                   *)
LEMMA DbFaultLeases ==
  ASSUME DbFault
  PROVE  UNCHANGED Leases!leaseVars
BY StutterRests DEF DbFault, ReconcileFails, RefreshFails, ReloadDirtyFails, LoadFails,
   DispatchFails, ClaimFails, FinishFails

(* Every step of the task centre is a step of the lease protocol or none.  *)
LEMMA NextLeases == IInv /\ [Next]_vars => [Leases!LeaseNext]_Leases!leaseVars
BY TickPasses, StutterRests, WorkerLeases, LoopLeases, ServiceLeases, DbFaultLeases DEF IInv,
   Clock, Leases!LeaseNext, Boot, Crash, vars, Next

(* The tables, the engine, the runner and the service together implement   *)
(* the lease protocol, for any number of tasks and runs: a task is leased  *)
(* to one run at a time, no lease is taken back before its run had the     *)
(* task's timeout and half a minute, and what a run came to is final.      *)
THEOREM LeaseRefinement == Spec => ImplementsLease
<1>1. Init => Leases!LeaseInit
  BY BoundAssumption DEF Init, Leases!LeaseInit, Locked, Exists, RunIds
<1>2. IInv /\ [Next]_vars => [Leases!LeaseNext]_Leases!leaseVars
  BY NextLeases
<1>3. QED
  BY <1>1, <1>2, Invariant, PTL DEF Spec, ImplementsLease, Leases!LeaseSpec

-----------------------------------------------------------------------------
(* What a statement makes of a row: a version tells the definition, and a  *)
(* row that says "running" was claimed.                                    *)

ParkedRow(row) ==
  /\ row.enabled <=> row.next # Null
  /\ row.enabled <=> row.status # "disabled"
  /\ row.status = "running" => row.lockedBy # 0
  /\ row.lockedBy = 0 => row.lockedUntil = Null
  /\ row.version >= 1

RowsParked == \A t \in Tasks : Exists(t) => ParkedRow(task[t])

SameDefinition(new, old) ==
  /\ new.enabled = old.enabled /\ new.status = old.status
  /\ new.sched = old.sched /\ new.missed = old.missed
  /\ new.next = old.next /\ new.lastRun = old.lastRun

(* Two values of one row before and after a statement.                     *)
Moved(old, new) ==
  \/ new.version = old.version /\ SameDefinition(new, old)
  \/ new.version > old.version /\ (new.status = "running" => new.lastRun = runSeq + 1)

RowsMoved ==
  \A t \in Tasks :
    /\ task[t] # Null => task'[t] # Null
    /\ task[t] # Null /\ Exists(t)' => Exists(t) /\ Moved(task[t], task'[t])

(* A recovered row is idle or parked.                                      *)
LEMMA RecoveredParked ==
  ASSUME NEW row \in TaskRow, ParkedRow(row)
  PROVE  ParkedRow(Recovered(row)) /\ Moved(row, Recovered(row))
BY DEF Recovered, TaskRow, ParkedRow, Moved

(* A completion reschedules a row that is on.                              *)
LEMMA FinishedParked ==
  ASSUME NEW row \in TaskRow, ParkedRow(row), row.enabled, now \in Nat
  PROVE  ParkedRow(Finished(row)) /\ Moved(row, Finished(row))
BY NextFireNat, NullAssumption DEF TaskRow, Finished, ParkedRow, Moved

(* A row that only loses its lock keeps its definition.                    *)
LEMMA ReleasedParked ==
  ASSUME NEW row \in TaskRow, ParkedRow(row), row.status # "running"
  PROVE  ParkedRow(Released(row)) /\ Moved(row, Released(row))
BY DEF Released, TaskRow, ParkedRow, Moved, SameDefinition

(* A claim is of a row that is on.                                         *)
LEMMA ClaimedParked ==
  ASSUME NEW row \in TaskRow, ParkedRow(row), row.enabled, NEW runner \in Nat \ {0},
         now \in Nat
  PROVE  /\ ParkedRow(Claimed(row, runner, runSeq + 1))
         /\ Moved(row, Claimed(row, runner, runSeq + 1))
         /\ Claimed(row, runner, runSeq + 1).version > row.version
         /\ Claimed(row, runner, runSeq + 1).enabled
BY DEF Claimed, TaskRow, ParkedRow, Moved

(* The engine reschedules rows that are on.                                *)
LEMMA RescheduledParked ==
  ASSUME NEW row \in TaskRow, ParkedRow(row), row.enabled, NEW next \in Nat
  PROVE  ParkedRow(Rescheduled(row, next)) /\ Moved(row, Rescheduled(row, next))
BY NullAssumption DEF Rescheduled, TaskRow, ParkedRow, Moved

(* A firing is built for a task that is on, and for no other.              *)
LEMMA BuiltNextParked ==
  ASSUME NEW enabled \in BOOLEAN, NEW sched \in Schedules, now \in Nat
  PROVE  enabled <=> BuiltNext(enabled, sched) # Null
BY NextFireNat, NullAssumption DEF BuiltNext

(* An edit leaves a row parked or with a firing.                           *)
LEMMA EditedParked ==
  ASSUME NEW row \in TaskRow, ParkedRow(row), now \in Nat,
         NEW enabled \in BOOLEAN, NEW sched \in Schedules, NEW missed \in Policies
  PROVE  /\ ParkedRow(Edited(row, enabled, sched, missed))
         /\ Moved(row, Edited(row, enabled, sched, missed))
BY BuiltNextParked DEF Edited, BuiltStatus, TaskRow, ParkedRow, Moved

(* So does a toggle that brings a firing when it switches on.              *)
LEMMA ToggledParked ==
  ASSUME NEW row \in TaskRow, ParkedRow(row), NEW enabled \in BOOLEAN, NEW next,
         enabled => next # Null
  PROVE  ParkedRow(Toggled(row, enabled, next)) /\ Moved(row, Toggled(row, enabled, next))
BY DEF Toggled, BuiltStatus, TaskRow, ParkedRow, Moved

(* A new row is parked or has a firing.                                    *)
LEMMA NewRowParked ==
  ASSUME now \in Nat,
         NEW enabled \in BOOLEAN, NEW sched \in Schedules, NEW missed \in Policies
  PROVE  ParkedRow(NewRow(enabled, sched, missed))
BY BuiltNextParked DEF NewRow, BuiltStatus, ParkedRow

(* A statement about one row.                                              *)
LEMMA OneRowMoves ==
  ASSUME StoreTypeOK, RowsParked, NEW t \in Tasks, Exists(t), NEW row \in TaskRow,
         ParkedRow(row), Moved(task[t], row), task' = [task EXCEPT ![t] = row]
  PROVE  RowsParked' /\ RowsMoved
BY AbsentAssumption DEF StoreTypeOK, Moved, SameDefinition, Exists, RowsParked, ParkedRow,
   RowsMoved

(* A statement about no row.                                               *)
LEMMA NoRowMoves ==
  ASSUME RowsParked, UNCHANGED task
  PROVE  RowsParked' /\ RowsMoved
BY DEF RowsParked, ParkedRow, RowsMoved, Moved, SameDefinition, Exists

(* The recovery of a set of tasks.                                         *)
LEMMA RecoveryMoves ==
  ASSUME StoreTypeOK, RowsParked, NEW S \in SUBSET Tasks, task' = RecoveredTasks(S)
  PROVE  RowsParked' /\ RowsMoved
<1>1. ASSUME NEW t \in Tasks
      PROVE  /\ Exists(t)' <=> Exists(t)
             /\ task[t] # Null => task'[t] # Null
             /\ Exists(t) => ParkedRow(task[t])' /\ Moved(task[t], task'[t])
  <2>1. CASE t \in S /\ Expired(t)
    BY <2>1, ExistingRow, RecoveredRow, RecoveredParked, AbsentAssumption DEF Expired, RowsParked,
       RecoveredTasks, Exists, ParkedRow
  <2>2. CASE ~(t \in S /\ Expired(t))
    BY <2>2 DEF RecoveredTasks, Exists, Moved, SameDefinition, RowsParked, ParkedRow
  <2>3. QED
    BY <2>1, <2>2
<1>2. QED
  BY <1>1 DEF RowsParked, RowsMoved

(* A new row.                                                              *)
LEMMA CreateMoves ==
  ASSUME StoreTypeOK, RowsParked, NEW t \in Tasks, NEW enabled \in BOOLEAN,
         NEW sched \in Schedules, NEW missed \in Policies,
         CreateRow(t, enabled, sched, missed)
  PROVE  RowsParked' /\ RowsMoved
<1> DEFINE row == NewRow(enabled, sched, missed)
<1>1. ParkedRow(row) /\ task[t] = Null
  BY NewRowParked DEF StoreTypeOK, CreateRow
<1>2. \A u \in Tasks : task'[u] = IF u = t THEN row ELSE task[u]
  BY DEF StoreTypeOK, CreateRow
<1> HIDE DEF row
<1>3. QED
  BY <1>1, <1>2 DEF RowsParked, RowsMoved, ParkedRow, Exists, Moved, SameDefinition

(* A deleted row.                                                          *)
LEMMA DeleteMoves ==
  ASSUME StoreTypeOK, RowsParked, NEW t \in Tasks, DeleteRow(t)
  PROVE  RowsParked' /\ RowsMoved
BY NullAssumption DEF StoreTypeOK, DeleteRow, RowsParked, RowsMoved, ParkedRow, Exists, Moved,
   SameDefinition

(* The completion reschedules the task only if nobody changed it since the *)
(* claim, so it never switches a parked task back on.                      *)
LEMMA FinishMoves ==
  ASSUME StoreInv, RowsParked, NEW t \in Tasks, NEW r \in RunIds, NEW version,
         NEW runner \in Nat \ {0},
         run[r] # Null => run[r].task = t /\ run[r].runner = runner,
         Exists(t) =>
           /\ task[t].version = version => task[t].enabled
           /\ task[t].lastRun = r /\ task[t].version # version => task[t].status # "running",
         FinishRun(t, r, version, runner)
  PROVE  RowsParked' /\ RowsMoved
<1>1. StoreTypeOK /\ LocksHaveRuns /\ RunsHaveLocks /\ now \in Nat
  BY LockHalves DEF StoreInv, StoreTypeOK
<1>2. CASE Running(r)
  <2>1. Locked(t) /\ task[t].lastRun = r /\ task[t].lockedBy = runner
    BY <1>1, <1>2 DEF RunsHaveLocks, LocksHaveRuns, Running
  <2>2. Exists(t) /\ task[t] \in TaskRow /\ ParkedRow(task[t])
    BY <1>1, <2>1, ExistingRow DEF Locked, RowsParked
  <2>3. CASE task[t].version = version
    <3>1. task' = [task EXCEPT ![t] = Finished(task[t])]
      BY <1>2, <2>1, <2>2, <2>3 DEF FinishRun, ClaimStands, Running
    <3>2. task[t].enabled
      BY <2>2, <2>3
    <3>3. QED
      BY <1>1, <2>2, <3>1, <3>2, FinishedRow, FinishedParked, OneRowMoves
  <2>4. CASE task[t].version # version
    <3>1. task' = [task EXCEPT ![t] = Released(task[t])]
      BY <2>1, <2>2, <2>4 DEF FinishRun, ClaimStands
    <3>2. task[t].status # "running"
      BY <2>1, <2>2, <2>4
    <3>3. QED
      BY <1>1, <2>2, <3>1, <3>2, ReleasedRow, ReleasedParked, OneRowMoves
  <2>5. QED
    BY <2>3, <2>4
<1>3. CASE ~Running(r)
  BY <1>1, <1>3, NoRowMoves DEF LocksHaveRuns, Locked, FinishRun, Running
<1>4. QED
  BY <1>2, <1>3

(* The claim gives the row a version that is new, and the row is on.       *)
LEMMA BeginRunMoves ==
  ASSUME StoreInv, RowsParked, NEW t \in Tasks, NEW trigger \in {"schedule", "manual"},
         NEW version, NEW runner \in Nat \ {0}, BeginRun(t, trigger, version, runner)
  PROVE  /\ RowsParked' /\ RowsMoved
         /\ Exists(t) /\ task'[t] # Null /\ task'[t].enabled
         /\ task'[t].version > task[t].version
         /\ task'[t].version \in Nat
<1> DEFINE row == RecoveredTasks({t})[t]
<1>1. StoreTypeOK /\ now \in Nat /\ runSeq \in Nat
  BY DEF StoreInv, StoreTypeOK
<1>2. /\ Exists(t) /\ row.enabled
      /\ task' = [task EXCEPT ![t] = Claimed(row, runner, runSeq + 1)]
  BY DEF BeginRun, ClaimableAfterRecovery, Claimable
<1>3. task[t] \in TaskRow /\ ParkedRow(task[t])
  BY <1>1, <1>2, ExistingRow DEF RowsParked
<1>4. /\ row \in TaskRow /\ ParkedRow(row)
      /\ row = task[t] \/ row = Recovered(task[t])
  BY <1>3, RecoveredRow, RecoveredParked DEF RecoveredTasks
<1> HIDE DEF row
<1>5. row.version >= task[t].version /\ row.version \in Nat /\ task[t].version \in Nat
  <2>1. row.version \in Nat /\ task[t].version \in Nat
    BY <1>3, <1>4 DEF TaskRow
  <2>2. Recovered(task[t]).version = task[t].version + 1
    BY <1>3 DEF Recovered, TaskRow
  <2>3. QED
    BY <1>4, <2>1, <2>2
<1> DEFINE new == Claimed(row, runner, runSeq + 1)
<1>6. /\ new \in TaskRow /\ ParkedRow(new) /\ new.version > row.version /\ new.enabled
      /\ new.lastRun = runSeq + 1
  BY <1>1, <1>2, <1>4, ClaimedRow, ClaimedParked
<1>7. new.version \in Nat
  BY <1>6 DEF TaskRow
<1> HIDE DEF new
<1>8. Moved(task[t], new) /\ new.version > task[t].version
  BY <1>5, <1>6, <1>7 DEF Moved
<1>9. task'[t] = new /\ task' = [task EXCEPT ![t] = new]
  BY <1>1, <1>2 DEF StoreTypeOK, new
<1>10. RowsParked' /\ RowsMoved
  BY <1>1, <1>2, <1>6, <1>8, <1>9, OneRowMoves
<1>11. QED
  BY <1>2, <1>6, <1>7, <1>8, <1>9, <1>10, AbsentAssumption

-----------------------------------------------------------------------------
(* DisabledIsParked is not inductive by itself: a completion and the       *)
(* loop's rescheduling write a firing without looking at enabled.  They    *)
(* are right because they carry a version at which the row was on, and no  *)
(* row returns to a version it had.                                        *)

WorkerKnows(w) ==
  worker[w].pc = "running" =>
    LET row == task[worker[w].task]
    IN /\ row # Null
       /\ Exists(worker[w].task) =>
            /\ worker[w].version <= row.version
            /\ row.version = worker[w].version => row.enabled
            /\ row.lastRun = worker[w].run /\ row.version # worker[w].version
                 => row.status # "running"

SnapKnows(t) ==
  loop.snap[t] # Null =>
    /\ task[t] # Null
    /\ loop.snap[t].enabled
    /\ Exists(t) =>
         /\ loop.snap[t].version <= task[t].version
         /\ task[t].version = loop.snap[t].version => SameDefinition(task[t], loop.snap[t])

(* A toggle under way is an edit, and brings a firing if it switches on.   *)
ToggleKnows == toggle # Null => spent.edits > 0 /\ (toggle.enabled => toggle.next # Null)

WorkersKnow == \A w \in Workers : WorkerKnows(w)
SnapsKnow   == \A t \in Tasks : SnapKnows(t)

ParkedInv == RowsParked /\ WorkersKnow /\ SnapsKnow /\ ToggleKnows

(* A worker that does not step still knows its row.                        *)
LEMMA WorkerKnowsOn ==
  ASSUME IInv, RowsMoved, StoreInv', NEW w \in Workers, WorkerKnows(w),
         worker'[w] = worker[w]
  PROVE  WorkerKnows(w)'
<1> SUFFICES ASSUME worker[w].pc = "running"
             PROVE  WorkerKnows(w)'
  BY DEF WorkerKnows
<1> DEFINE t == worker[w].task
<1>1. /\ t \in Tasks /\ worker[w].run \in RunIds /\ worker[w].run <= runSeq /\ task[t] # Null
      /\ runSeq \in Nat /\ worker[w].version \in Nat
  BY DEF IInv, WorkersOwn, Owns, Busy, WorkerKnows, StoreInv, StoreTypeOK, MemTypeOK, WorkerRow
<1>2. task'[t] # Null
  BY <1>1 DEF RowsMoved
<1>3. ASSUME Exists(t)'
      PROVE  /\ worker[w].version <= task'[t].version
             /\ task'[t].version = worker[w].version => task'[t].enabled
             /\ task'[t].lastRun = worker[w].run /\ task'[t].version # worker[w].version
                  => task'[t].status # "running"
  <2>1. Exists(t) /\ Moved(task[t], task'[t])
    BY <1>1, <1>3 DEF RowsMoved
  <2>2. task[t] \in TaskRow /\ task'[t] \in TaskRow
    BY <1>1, <1>3, <2>1, ExistingRow, AbsentAssumption DEF IInv, StoreInv, StoreTypeOK, Exists
  <2>3. task[t].version \in Nat /\ task'[t].version \in Nat
    BY <2>2 DEF TaskRow
  <2>4. /\ worker[w].version <= task[t].version
        /\ task[t].version = worker[w].version => task[t].enabled
        /\ task[t].lastRun = worker[w].run /\ task[t].version # worker[w].version
             => task[t].status # "running"
    BY <2>1 DEF WorkerKnows
  <2>5. worker[w].run # runSeq + 1
    BY <1>1 DEF RunIds
  <2>6. QED
    BY <1>1, <2>1, <2>3, <2>4, <2>5 DEF Moved, SameDefinition
<1>4. QED
  BY <1>2, <1>3 DEF WorkerKnows

(* What the loop read and has yet to load stays true of its version.       *)
LEMMA SnapKnowsOn ==
  ASSUME IInv, RowsMoved, StoreInv', NEW t \in Tasks, SnapKnows(t),
         loop'.snap[t] = loop.snap[t]
  PROVE  SnapKnows(t)'
<1> SUFFICES ASSUME loop.snap[t] # Null
             PROVE  SnapKnows(t)'
  BY DEF SnapKnows
<1>1. loop.snap[t] \in TaskRow
  BY DEF IInv, MemTypeOK, LoopRow
<1>2. task[t] # Null /\ task'[t] # Null /\ loop.snap[t].enabled
  BY DEF SnapKnows, RowsMoved
<1>3. ASSUME Exists(t)'
      PROVE  /\ loop.snap[t].version <= task'[t].version
             /\ task'[t].version = loop.snap[t].version
                  => SameDefinition(task'[t], loop.snap[t])
  <2>1. Exists(t) /\ Moved(task[t], task'[t])
    BY <1>2, <1>3 DEF RowsMoved
  <2>2. task[t] \in TaskRow /\ task'[t] \in TaskRow
    BY <1>3, <2>1, ExistingRow, AbsentAssumption DEF IInv, StoreInv, StoreTypeOK, Exists
  <2>3. task[t].version \in Nat /\ task'[t].version \in Nat /\ loop.snap[t].version \in Nat
    BY <1>1, <2>2 DEF TaskRow
  <2>4. /\ loop.snap[t].version <= task[t].version
        /\ task[t].version = loop.snap[t].version => SameDefinition(task[t], loop.snap[t])
    BY <2>1 DEF SnapKnows
  <2>5. QED
    BY <2>1, <2>3, <2>4 DEF Moved, SameDefinition
<1>4. QED
  BY <1>2, <1>3 DEF SnapKnows

(* What the loop has just read of a task that is on.                       *)
LEMMA FreshSnapKnows ==
  ASSUME StoreInv', NEW t \in Tasks, loop'.snap[t] = task'[t],
         Exists(t)', task'[t].enabled
  PROVE  SnapKnows(t)'
BY AbsentAssumption DEF StoreInv, StoreTypeOK, Exists, TaskRow, SnapKnows, SameDefinition

(* One lemma for every action: the rows move on, a worker keeps its place  *)
(* or leaves its run, the loop forgets rows or has just read them.         *)
LEMMA ParkedOn ==
  ASSUME IInv, ParkedInv, StoreInv', RowsParked', RowsMoved,
         \A w \in Workers : \/ worker'[w] = worker[w] \/ worker'[w].pc # "running"
                            \/ WorkerKnows(w)',
         \A t \in Tasks : \/ loop'.snap[t] = loop.snap[t] \/ loop'.snap[t] = Null
                          \/ SnapKnows(t)',
         ToggleKnows'
  PROVE  ParkedInv'
BY WorkerKnowsOn, SnapKnowsOn DEF ParkedInv, WorkersKnow, WorkerKnows, SnapsKnow, SnapKnows

(* An action that writes no row, no worker and no snapshot.                *)
LEMMA ParkedRests ==
  ASSUME IInv, ParkedInv, IInv', UNCHANGED task,
         \A w \in Workers : worker'[w] = worker[w] \/ worker'[w].pc # "running",
         \A t \in Tasks : loop'.snap[t] = loop.snap[t] \/ loop'.snap[t] = Null,
         UNCHANGED toggle \/ toggle' = Null, spent'.edits = spent.edits
  PROVE  ParkedInv'
BY NoRowMoves, ParkedOn DEF ParkedInv, ToggleKnows, IInv

(* The loop's bookkeeping changes no snapshot but the one it is about.     *)
LEMMA LoopSnaps ==
  ASSUME loop \in LoopRow, NEW t \in Tasks
  PROVE  /\ Loaded[t].snap = [loop.snap EXCEPT ![t] = Null]
         /\ Loaded[t].pc = loop.pc /\ Loaded[t].todo = loop.todo
         /\ Loaded[t].at = loop.at /\ Loaded[t].refresh = loop.refresh
         /\ IdleLoop.snap = NoRows /\ DuePass.snap = NoRows
         /\ loop.snap \in [Tasks -> TaskRow \cup {Null}]
BY DEF Loaded, LoopRow, IdleLoop, DuePass

(* What the loop's other records hold of what it read.                     *)
LEMMA LoopReads ==
  ASSUME loop \in LoopRow, NEW t \in Tasks, NEW at, NEW row
  PROVE  /\ [Loaded[t] EXCEPT !.refresh = t].snap = [loop.snap EXCEPT ![t] = Null]
         /\ [loop EXCEPT !.todo = @ \ {t}].snap = loop.snap
         /\ [loop EXCEPT !.todo = @ \ {t}, !.snap[t] = row, !.at = at].snap
              = [loop.snap EXCEPT ![t] = row]
         /\ [DuePass EXCEPT !.at = at, !.snap[t] = row].snap = [NoRows EXCEPT ![t] = row]
BY DEF Loaded, LoopRow, DuePass, IdleLoop

(* A failing statement uses up no edit, an edit does.                      *)
LEMMA Budgets ==
  ASSUME spent \in Budget
  PROVE  /\ Fault => spent'.edits = spent.edits /\ spent'.faults > 0
         /\ Edit => spent'.edits > 0 /\ spent'.faults = spent.faults
BY BudgetAssumption DEF Budget, Fault, Edit

(* The loop reads rows that are on, and reschedules at their version.      *)
LEMMA LoopParked ==
  ASSUME IInv, ParkedInv, IInv', LoopStep
  PROVE  ParkedInv'
<1>1. /\ loop \in LoopRow /\ StoreTypeOK /\ StoreInv'
      /\ loop.snap \in [Tasks -> TaskRow \cup {Null}]
      /\ RowsParked /\ SnapsKnow
  BY DEF IInv, MemTypeOK, LoopRow, StoreInv, ParkedInv
<1>2. CASE Reconcile
  BY <1>1, <1>2, RecoveryMoves, ParkedOn DEF Reconcile, MarkExpiredRunningAbandoned, LoopRow,
     aroundLoop, ParkedInv, ToggleKnows
<1>3. CASE ReconcileList
  BY <1>1, <1>3, NoRowMoves, FreshSnapKnows, ParkedOn DEF ReconcileList, storeVars, LoopRow,
     Exists, aroundLoop, ParkedInv, ToggleKnows
<1>4. CASE Wake \/ DrainDirty \/ Refresh \/ DispatchEnds
  <2>1. \A t \in Tasks : loop'.snap[t] = loop.snap[t] \/ loop'.snap[t] = Null
    BY <1>1, <1>4 DEF Wake, DrainDirty, Refresh, DispatchEnds, LoopRow, IdleLoop, NoRows
  <2>2. UNCHANGED <<task, worker, toggle, spent>>
    BY <1>4 DEF Wake, DrainDirty, Refresh, DispatchEnds, storeVars, aroundLoop
  <2>3. QED
    BY <2>1, <2>2, ParkedRests
<1>5. ASSUME NEW t \in Tasks, ReloadDirty(t) \/ DispatchStale(t)
      PROVE  ParkedInv'
  <2>1. RowsParked' /\ RowsMoved /\ UNCHANGED <<task, worker, toggle, spent>>
    BY <1>1, <1>5, NoRowMoves DEF ReloadDirty, DispatchStale, storeVars, aroundLoop
  <2>2. \A u \in Tasks : \/ loop'.snap[u] = loop.snap[u] \/ loop'.snap[u] = Null
                         \/ u = t /\ loop'.snap[u] = task[u] /\ Exists(u) /\ task[u].enabled
    <3>1. CASE ReloadDirty(t)
      <4>1. \/ loop'.snap = loop.snap
            \/ loop'.snap = [loop.snap EXCEPT ![t] = task[t]] /\ Exists(t) /\ task[t].enabled
        <5>1. CASE Exists(t) /\ task[t].enabled
          <6>1. loop' = [loop EXCEPT !.todo = @ \ {t}, !.snap[t] = task[t], !.at = now]
            BY <3>1, <5>1 DEF ReloadDirty
          <6>2. QED
            BY <1>1, <5>1, <6>1, LoopReads
        <5>2. CASE ~(Exists(t) /\ task[t].enabled)
          BY <1>1, <3>1, <5>2, LoopReads DEF ReloadDirty
        <5>3. QED
          BY <5>1, <5>2
      <4>2. QED
        BY <1>1, <4>1
    <3>2. CASE DispatchStale(t)
      <4>1. loop'.snap = [NoRows EXCEPT ![t] = task[t]] /\ Exists(t) /\ task[t].enabled
        BY <3>2 DEF DispatchStale, DuePass, IdleLoop, Runnable
      <4>2. QED
        BY <1>1, <4>1 DEF NoRows
    <3>3. QED
      BY <1>5, <3>1, <3>2
  <2>3. \A u \in Tasks : \/ loop'.snap[u] = loop.snap[u] \/ loop'.snap[u] = Null
                         \/ SnapKnows(u)'
    BY <1>1, <2>1, <2>2, FreshSnapKnows DEF Exists
  <2>4. QED
    BY <1>1, <2>1, <2>3, ParkedOn DEF ParkedInv, ToggleKnows
<1>6. ASSUME NEW t \in Tasks, LoadRescheduled(t)
      PROVE  ParkedInv'
  <2>1. /\ loop.snap[t] \in TaskRow /\ loop.at \in Nat /\ loop.snap[t] # Null
        /\ UpdateNextRun(t, loop.snap[t].version, NextRunAt(loop.snap[t], loop.at))
    BY <1>6, LoadingRow DEF LoadRescheduled, Rescheduling, Loading
  <2>2. PICK next \in Nat : UpdateNextRun(t, loop.snap[t].version, next)
    BY <2>1, NextRunAtNat DEF UpdateNextRun
  <2>3. Exists(t) /\ task[t].version = loop.snap[t].version
    BY <2>2 DEF UpdateNextRun, UpdateNextRunMatches
  <2>4. task[t] \in TaskRow /\ ParkedRow(task[t]) /\ task[t].enabled
    BY <1>1, <2>1, <2>3, ExistingRow DEF RowsParked, SnapsKnow, SnapKnows, SameDefinition
  <2>5. RowsParked' /\ RowsMoved
    BY <1>1, <2>2, <2>3, <2>4, RescheduledRow, RescheduledParked, OneRowMoves
    DEF UpdateNextRun
  <2>6. \A u \in Tasks : loop'.snap[u] = loop.snap[u] \/ loop'.snap[u] = Null
    <3>1. loop'.snap = [loop.snap EXCEPT ![t] = Null]
      BY <1>1, <1>6, LoopReads DEF LoadRescheduled
    <3>2. QED
      BY <1>1, <3>1
  <2>7. QED
    BY <1>1, <1>6, <2>5, <2>6, ParkedOn DEF LoadRescheduled, aroundLoop, ParkedInv, ToggleKnows
<1>7. ASSUME NEW t \in Tasks, LoadLocked(t) \/ LoadIndexed(t) \/ LoadOutdated(t)
      PROVE  ParkedInv'
  BY <1>7, <1>1, LoopSnaps, ParkedRests DEF LoadLocked, LoadIndexed, LoadOutdated, storeVars,
     aroundLoop
<1>8. ASSUME NEW t \in Tasks, DispatchParked(t) \/ DispatchSent(t)
      PROVE  ParkedInv'
  <2>1. loop' = DuePass /\ UNCHANGED <<task, worker, toggle, spent>>
    BY <1>8 DEF DispatchParked, DispatchSent, storeVars, aroundLoop
  <2>2. \A u \in Tasks : loop'.snap[u] = Null
    BY <1>1, <2>1, LoopSnaps, <1>8 DEF NoRows
  <2>3. QED
    BY <2>1, <2>2, ParkedRests
<1>9. QED
  BY <1>2, <1>3, <1>4, <1>5, <1>6, <1>7, <1>8 DEF LoopStep

(* A worker knows its row from the claim until it returns.                 *)
LEMMA WorkerParked ==
  ASSUME IInv, ParkedInv, IInv', NEW w \in Workers, WorkerStep(w)
  PROVE  ParkedInv'
<1>1. /\ StoreInv /\ StoreTypeOK /\ StoreInv' /\ RowsParked /\ WorkersKnow
      /\ worker \in [Workers -> WorkerRow]
  BY DEF IInv, MemTypeOK, StoreInv, ParkedInv
<1>2. CASE Claim(w)
  <2> DEFINE t == worker[w].task
  <2>1. /\ t \in Tasks /\ worker[w].trigger \in {"schedule", "manual"} /\ epoch \in Nat \ {0}
    BY <1>2, ReturnedWorker DEF WorkerRow, Claim, HasSlot, Busy
  <2>2. BeginRun(t, worker[w].trigger, worker[w].version, epoch)
    BY <1>2 DEF Claim
  <2>3. /\ RowsParked' /\ RowsMoved
        /\ task'[t] # Null /\ task'[t].enabled /\ task'[t].version \in Nat
    BY <1>1, <2>1, <2>2, BeginRunMoves
  <2>4. /\ \A v \in Workers : v # w => worker'[v] = worker[v]
        /\ worker'[w].task = t /\ worker'[w].version = task'[t].version
    BY <1>1, <1>2 DEF Claim, WorkerRow
  <2>5. WorkerKnows(w)'
    BY <2>3, <2>4 DEF WorkerKnows
  <2>6. QED
    BY <1>1, <1>2, <2>3, <2>4, <2>5, ParkedOn DEF Claim, aroundWorker, ParkedInv, ToggleKnows
<1>3. CASE ClaimRefused(w)
  <2>1. RowsParked' /\ RowsMoved
    BY <1>1, <1>3, ReturnedWorker, RecoveryMoves
    DEF ClaimRefused, HasSlot, Busy, BeginRunRefused
  <2>2. \A v \in Workers : worker'[v] = worker[v] \/ worker'[v].pc # "running"
    BY <1>1, <1>3 DEF ClaimRefused, RunReturns, IdleWorker
  <2>3. QED
    BY <1>1, <1>3, <2>1, <2>2, ParkedOn DEF ClaimRefused, aroundWorker, ParkedInv, ToggleKnows
<1>4. CASE Finish(w)
  <2>1. /\ worker[w].task \in Tasks /\ epoch \in Nat \ {0} /\ worker[w].run \in RunIds
        /\ run[worker[w].run] # Null =>
             run[worker[w].run].task = worker[w].task /\ run[worker[w].run].runner = epoch
        /\ FinishRun(worker[w].task, worker[w].run, worker[w].version, epoch)
        /\ worker[w].pc = "running"
    BY <1>4, ReturnedWorker DEF Finish, Busy, IInv, WorkersOwn, Owns
  <2>2. RowsParked' /\ RowsMoved
    BY <1>1, <2>1, FinishMoves DEF WorkersKnow, WorkerKnows
  <2>3. \A v \in Workers : worker'[v] = worker[v] \/ worker'[v].pc # "running"
    BY <1>1, <1>4 DEF Finish, RunReturns, IdleWorker
  <2>4. QED
    BY <1>1, <1>4, <2>2, <2>3, ParkedOn DEF Finish, aroundWorker, ParkedInv, ToggleKnows
<1>5. CASE TakeDispatch(w) \/ TakeManual(w) \/ ReloadAfterRun(w)
  BY <1>1, <1>5, ParkedRests DEF TakeDispatch, TakeManual, ReloadAfterRun, IdleWorker, storeVars
<1>6. QED
  BY <1>2, <1>3, <1>4, <1>5 DEF WorkerStep

(* A service call parks the row or gives it a firing.                      *)
LEMMA ServiceParked ==
  ASSUME IInv, ParkedInv, IInv', ServiceStep
  PROVE  ParkedInv'
<1>1. /\ StoreInv /\ StoreTypeOK /\ StoreInv' /\ RowsParked /\ now \in Nat /\ spent \in Budget
  BY DEF IInv, MemTypeOK, StoreInv, StoreTypeOK, ParkedInv
<1>2. UNCHANGED <<loop, worker>>
  BY DEF ServiceStep, SetEnabledWrite, Create, Update, SetEnabledRead, Delete, ServiceReload,
     RunNow, aroundService
<1>3. CASE SetEnabledWrite
  <2>1. PICK t \in Tasks, enabled \in BOOLEAN, next \in Nat \cup {Null} :
          SetEnabledRow(t, enabled, next) /\ (enabled => next # Null)
    BY <1>3 DEF IInv, MemTypeOK, ToggleRow, SetEnabledWrite, ParkedInv, ToggleKnows
  <2>2. CASE Exists(t)
    <3>1. task[t] \in TaskRow /\ ParkedRow(task[t])
      BY <1>1, <2>2, ExistingRow DEF RowsParked
    <3>2. RowsParked' /\ RowsMoved
      BY <1>1, <2>1, <2>2, <3>1, ToggledRow, ToggledParked, OneRowMoves DEF SetEnabledRow
    <3>3. QED
      BY <1>1, <1>2, <1>3, <3>2, ParkedOn DEF SetEnabledWrite, ToggleKnows
  <2>3. CASE ~Exists(t)
    BY <1>1, <1>2, <1>3, <2>1, <2>3, NoRowMoves, ParkedOn
    DEF SetEnabledRow, SetEnabledWrite, ToggleKnows
  <2>4. QED
    BY <2>2, <2>3
<1>4. ASSUME NEW t \in Tasks, NEW enabled \in BOOLEAN, NEW sched \in Schedules,
             NEW missed \in Policies, Create(t, enabled, sched, missed)
      PROVE  ParkedInv'
  BY <1>1, <1>2, <1>4, CreateMoves, ParkedOn DEF Create, ParkedInv, ToggleKnows
<1>5. ASSUME NEW t \in Tasks, NEW enabled \in BOOLEAN, NEW sched \in Schedules,
             NEW missed \in Policies, Update(t, enabled, sched, missed)
      PROVE  ParkedInv'
  <2>1. task[t] \in TaskRow /\ ParkedRow(task[t]) /\ Exists(t)
    BY <1>1, <1>5, ExistingRow DEF Update, UpdateRow, RowsParked
  <2>2. RowsParked' /\ RowsMoved
    BY <1>1, <1>5, <2>1, EditedRow, EditedParked, OneRowMoves DEF Update, UpdateRow
  <2>3. QED
    BY <1>1, <1>2, <1>5, <2>2, Budgets, ParkedOn DEF Update, ParkedInv, ToggleKnows
<1>6. ASSUME NEW t \in Tasks, Delete(t)
      PROVE  ParkedInv'
  BY <1>1, <1>2, <1>6, DeleteMoves, Budgets, ParkedOn DEF Delete, ParkedInv, ToggleKnows
<1>7. ASSUME NEW t \in Tasks, NEW enabled \in BOOLEAN, SetEnabledRead(t, enabled)
      PROVE  ParkedInv'
  <2>1. task[t] \in TaskRow
    BY <1>1, <1>7, ExistingRow DEF SetEnabledRead
  <2>2. NextFire(task[t].sched, now) # Null
    BY <1>1, <2>1, NextFireNat, NullAssumption DEF TaskRow
  <2>3. ToggleKnows'
    BY <1>1, <1>7, <2>2, Budgets DEF SetEnabledRead, ToggleKnows
  <2>4. QED
    BY <1>1, <1>2, <1>7, <2>3, NoRowMoves, ParkedOn DEF SetEnabledRead, storeVars
<1>8. ASSUME NEW t \in Tasks, ServiceReload(t) \/ RunNow(t)
      PROVE  ParkedInv'
  BY <1>2, <1>8, ParkedRests DEF ServiceReload, RunNow, storeVars
<1>9. QED
  BY <1>3, <1>4, <1>5, <1>6, <1>7, <1>8 DEF ServiceStep

(* A failing statement changes no row.                                     *)
LEMMA FaultParked ==
  ASSUME IInv, ParkedInv, IInv', DbFault \/ Boot \/ Crash \/ Clock \/ \E r \in RunIds : Prune(r)
  PROVE  ParkedInv'
<1>1. /\ loop \in LoopRow /\ worker \in [Workers -> WorkerRow] /\ spent \in Budget
      /\ loop.snap \in [Tasks -> TaskRow \cup {Null}]
  BY DEF IInv, MemTypeOK, LoopRow
<1>2. ASSUME MemoryLost, UNCHANGED task, spent'.edits = spent.edits
      PROVE  ParkedInv'
  BY <1>2, ParkedRests DEF MemoryLost, IdleLoop, NoRows, IdleWorker
<1>3. CASE Boot \/ Crash \/ Clock \/ \E r \in RunIds : Prune(r)
  <2>1. CASE Crash
    BY <1>2, <2>1 DEF Crash, storeVars
  <2>2. CASE Boot \/ Clock
    BY <1>1, <2>2, ParkedRests DEF Boot, Clock, memVars, Budget, Tick, storeVars
  <2>3. ASSUME NEW r \in RunIds, Prune(r)
        PROVE  ParkedInv'
    BY <1>1, <2>3, NoRowMoves, Budgets, ParkedOn
    DEF Prune, PruneRun, aroundService, IInv, ParkedInv, ToggleKnows
  <2>4. QED
    BY <1>3, <2>1, <2>2, <2>3
<1>4. CASE DbFault
  <2>1. UNCHANGED task /\ spent'.edits = spent.edits
    BY <1>1, <1>4, Budgets DEF DbFault, ReconcileFails, RefreshFails, ReloadDirtyFails,
       LoadFails, DispatchFails, ClaimFails, FinishFails, storeVars
  <2>2. CASE ReconcileFails
    <3>1. CASE MemoryLost
      BY <1>2, <2>1, <3>1
    <3>2. CASE ~MemoryLost
      BY <1>1, <2>2, <3>2, <2>1, ParkedRests DEF ReconcileFails, LoopRow, aroundLoop
    <3>3. QED
      BY <3>1, <3>2
  <2>3. CASE RefreshFails
    BY <1>1, <2>3, <2>1, ParkedRests DEF RefreshFails, LoopRow, aroundLoop
  <2>4. ASSUME NEW t \in Tasks, ReloadDirtyFails(t) \/ LoadFails(t) \/ DispatchFails(t)
        PROVE  ParkedInv'
    <3>1. \A u \in Tasks : loop'.snap[u] = loop.snap[u] \/ loop'.snap[u] = Null
      <4>1. \/ loop'.snap = loop.snap \/ loop'.snap = [loop.snap EXCEPT ![t] = Null]
            \/ loop'.snap = NoRows
        BY <1>1, <2>4, LoopSnaps, LoopReads DEF ReloadDirtyFails, LoadFails, DispatchFails
      <4>2. QED
        BY <1>1, <4>1 DEF NoRows
    <3>2. QED
      BY <2>1, <2>4, <3>1, ParkedRests
      DEF ReloadDirtyFails, LoadFails, DispatchFails, aroundLoop
  <2>5. ASSUME NEW w \in Workers, ClaimFails(w) \/ FinishFails(w)
        PROVE  ParkedInv'
    BY <1>1, <2>5, <2>1, ParkedRests DEF ClaimFails, FinishFails, RunReturns, IdleWorker,
       aroundWorker
  <2>6. QED
    BY <1>4, <2>2, <2>3, <2>4, <2>5 DEF DbFault
<1>5. QED
  BY <1>3, <1>4

(* Every step keeps ParkedInv.                                             *)
LEMMA NextParked == IInv /\ ParkedInv /\ IInv' /\ [Next]_vars => ParkedInv'
BY ParkedRests, LoopParked, WorkerParked, ServiceParked, FaultParked DEF vars, storeVars, memVars,
   Next

(* ParkedInv holds in every reachable state.                               *)
THEOREM ParkedInvariant == Spec => []ParkedInv
<1>1. Init => ParkedInv
  BY DEF Init, ParkedInv, RowsParked, WorkersKnow, WorkerKnows, SnapsKnow, SnapKnows,
     ToggleKnows, Exists, IdleWorker, IdleLoop, NoRows
<1>2. IInv /\ ParkedInv /\ IInv' /\ [Next]_vars => ParkedInv'
  BY NextParked
<1>3. QED
  BY <1>1, <1>2, Invariant, PTL DEF Spec

(* A task that is switched off stays parked, one that is on has a firing,  *)
(* and a row that says "running" is locked, whatever is edited between the *)
(* claim and the completion or between the loop's read and its write.      *)
THEOREM ParkedCorrect == Spec => []DisabledIsParked
<1>1. ParkedInv => DisabledIsParked
  BY DEF ParkedInv, RowsParked, ParkedRow, DisabledIsParked, Locked
<1>2. QED
  BY <1>1, ParkedInvariant, PTL

-----------------------------------------------------------------------------
(* As long as nobody edits, a firing only moves forward, so what a run was *)
(* for never comes back.                                                   *)

(* A multiple of the period is a whole second.                             *)
LEMMA WholeSeconds ==
  ASSUME NEW q \in Nat
  PROVE  (q * Period) % 2 = 0
<1>1. PICK h \in Nat : Period = 2 * h
  BY PeriodAssumption
<1>2. q * Period = 2 * (q * h) /\ q * h \in Nat
  BY <1>1, SMT
<1>3. \A n \in Nat : (2 * n) % 2 = 0
  BY SMT
<1>4. QED
  BY <1>2, <1>3

(* A firing that has come, or is taken for one that has.                   *)
DueAt(due, at) == due <= at \/ (due = at + 1 /\ due % 2 = 1)

(* The next firing after an instant is after it; and after a firing that   *)
(* the text comparison of the claim took for due, though it is half a      *)
(* second ahead.                                                           *)
LEMMA NextFireLater ==
  ASSUME NEW sched \in Schedules, NEW at \in Nat, NEW due \in Nat,
         DueAt(due, at)
  PROVE  NextFire(sched, at) > due
<1>1. Period \in Nat \ {0} /\ Period % 2 = 0 /\ (due <= at \/ (due = at + 1 /\ due % 2 = 1))
  BY PeriodAssumption DEF DueAt
<1>2. CASE sched = "interval"
  BY <1>1, <1>2 DEF NextFire
<1>3. CASE sched # "interval"
  <2> DEFINE q == (at \div Period) + 1
             f == q * Period
  <2>1. at < f
    BY <1>1, SMT
  <2>2. q \in Nat
    BY <1>1, SMT
  <2> HIDE DEF q
  <2>3. f % 2 = 0 /\ f \in Nat
    BY <1>1, <2>2, WholeSeconds, SMT
  <2>4. NextFire(sched, at) = f
    BY <1>3 DEF NextFire, q
  <2> HIDE DEF f
  <2>5. QED
    BY <1>1, <2>1, <2>3, <2>4
<1>4. QED
  BY <1>2, <1>3

(* A firing the claim takes for due is, but for that half second.          *)
LEMMA ClaimedIsDue ==
  ASSUME NEW due \in Nat, NEW at \in Nat, TextLeq(due, at)
  PROVE  DueAt(due, at)
BY DEF TextLeq, Second, DueAt

Counts(r) == run[r] # Null /\ run[r].trigger = "schedule" /\ run[r].status # "abandoned"

(* What the row says after a run of a firing, and during one.              *)
DueIsUsed(r) ==
  LET row == task[run[r].task]
  IN /\ row.next # Null
     /\ run[r].status = "ended" => run[r].due < row.next
     /\ run[r].status = "running" => run[r].due <= row.next

RunsDiffer ==
  \A r1, r2 \in RunIds :
    Counts(r1) /\ Counts(r2) /\ r1 # r2 /\ run[r1].task = run[r2].task
      => run[r1].due # run[r2].due

FiringsUsed ==
  \A r \in RunIds : Counts(r) =>
    /\ run[r].due # Null /\ task[run[r].task] # Null
    /\ DueAt(run[r].due, now)
    /\ Exists(run[r].task) => DueIsUsed(r)

(* The version a run was claimed at stands, or the firing has moved on.    *)
ClaimHolds(w) ==
  (/\ worker[w].pc = "running" /\ Exists(worker[w].task)
   /\ Counts(worker[w].run) /\ run[worker[w].run].status = "running")
  => \/ task[worker[w].task].version = worker[w].version
     \/ run[worker[w].run].due < task[worker[w].task].next

ClaimsHold == \A w \in Workers : ClaimHolds(w)

FiresInv == spent.edits = 0 => RunsDiffer /\ FiringsUsed /\ ClaimsHold

(* What a statement other than a claim does to the firings and the runs:   *)
(* a firing moves forward, or past every one that has come.                *)
Beyond(next) == \A due \in Nat : DueAt(due, now) => due < next

FiringsAdvance ==
  \A t \in Tasks : Exists(t)' /\ task[t] # Null =>
    /\ Exists(t)
    /\ task[t].next # Null =>
         task'[t].next # Null /\ (task'[t].next >= task[t].next \/ Beyond(task'[t].next))

RunAdvances(r, t) ==
  Exists(t)' /\ task[t] # Null =>
    /\ run'[r].status = "ended" /\ run[r].status # "ended"
         => task'[t].next # Null /\ run[r].due < task'[t].next
    /\ run'[r].status = "running" =>
         \/ task'[t].version = task[t].version /\ task'[t].next = task[t].next
         \/ run[r].due < task'[t].next

RunsAdvance ==
  \A r \in RunIds : Counts(r)' =>
    /\ Counts(r) /\ run'[r].task = run[r].task /\ run'[r].due = run[r].due
    /\ run'[r].status = run[r].status \/ run'[r].status = "ended"
    /\ \A t \in Tasks : run[r].task = t => RunAdvances(r, t)

FiringsMove == now' >= now /\ FiringsAdvance /\ RunsAdvance

(* The first two parts of FiresInv.                                        *)
LEMMA FiringsOn ==
  ASSUME StoreInv, StoreInv', RowsMoved, RunsDiffer, FiringsUsed, FiringsMove
  PROVE  RunsDiffer' /\ FiringsUsed'
<1>1. RunsDiffer'
  BY DEF RunsDiffer, FiringsMove, RunsAdvance
<1>2. ASSUME NEW r \in RunIds, Counts(r)'
      PROVE  (/\ run[r].due # Null /\ task[run[r].task] # Null
              /\ DueAt(run[r].due, now)
              /\ Exists(run[r].task) => DueIsUsed(r))'
  <2>0. Counts(r) /\ run[r].task \in Tasks
    BY <1>2 DEF FiringsMove, RunsAdvance, Counts, StoreInv, StoreTypeOK, RunRow
  <2> PICK t \in Tasks : t = run[r].task
    BY <2>0
  <2>1. /\ run[r].task = t /\ run'[r].task = t /\ run'[r].due = run[r].due
        /\ run'[r].status = run[r].status \/ run'[r].status = "ended"
        /\ RunAdvances(r, t)
    BY <1>2 DEF FiringsMove, RunsAdvance
  <2>2. /\ run[r] \in RunRow /\ t \in Tasks
        /\ run[r].due # Null /\ task[t] # Null /\ run[r].due \in Nat
        /\ DueAt(run[r].due, now)
    BY <2>0, <2>1 DEF FiringsUsed, Counts, StoreInv, StoreTypeOK, RunRow
  <2>3. now \in Nat /\ now' \in Nat /\ now' >= now
    BY DEF StoreInv, StoreTypeOK, FiringsMove
  <2>4. task'[t] # Null
    BY <2>2 DEF RowsMoved
  <2>5. DueAt(run[r].due, now)'
    BY <2>1, <2>2, <2>3 DEF DueAt
  <2>6. ASSUME Exists(t)'
        PROVE  /\ task'[t].next # Null
               /\ run'[r].status = "ended" => run[r].due < task'[t].next
               /\ run'[r].status = "running" => run[r].due <= task'[t].next
    <3>1. Exists(t) /\ DueIsUsed(r)
      BY <2>0, <2>1, <2>2, <2>6 DEF FiringsMove, FiringsAdvance, FiringsUsed
    <3>2. /\ task[t].next # Null /\ task'[t].next # Null
          /\ task'[t].next >= task[t].next \/ Beyond(task'[t].next)
      BY <2>1, <3>1, <2>2, <2>6 DEF DueIsUsed, FiringsMove, FiringsAdvance
    <3>3. task[t].next \in Nat /\ task'[t].next \in Nat
      BY <2>2, <2>6, <3>1, ExistingRow, AbsentAssumption, <3>2 DEF StoreInv, StoreTypeOK, Exists,
         TaskRow
    <3>4. CASE run'[r].status = run[r].status
      <4>1. CASE Beyond(task'[t].next)
        BY <2>2, <4>1, <3>2, <3>3 DEF Beyond
      <4>2. CASE task'[t].next >= task[t].next
        BY <2>1, <2>2, <3>1, <3>2, <3>3, <3>4, <4>2 DEF DueIsUsed
      <4>3. QED
        BY <3>2, <4>1, <4>2
    <3>5. CASE run'[r].status = "ended" /\ run[r].status # "ended"
      BY <2>1, <2>2, <2>6, <3>5 DEF RunAdvances
    <3>6. QED
      BY <2>1, <3>4, <3>5
  <2>7. QED
    BY <2>1, <2>2, <2>4, <2>5, <2>6 DEF DueIsUsed
<1>3. QED
  BY <1>1, <1>2 DEF FiringsUsed

(* The third part, for a worker that does not step.                        *)
LEMMA ClaimHoldsOn ==
  ASSUME IInv, ParkedInv, StoreInv', FiringsMove, FiringsUsed, RowsMoved,
         NEW w \in Workers, ClaimHolds(w), worker'[w] = worker[w]
  PROVE  ClaimHolds(w)'
<1> SUFFICES ASSUME worker[w].pc = "running"
             PROVE  ClaimHolds(w)'
  BY DEF ClaimHolds
<1>0. PICK t \in Tasks, r \in RunIds : t = worker[w].task /\ r = worker[w].run
  BY DEF IInv, WorkersOwn, Owns, Busy
<1> SUFFICES ASSUME Exists(t)', Counts(r)', run'[r].status = "running"
             PROVE  task'[t].version = worker[w].version \/ run'[r].due < task'[t].next
  BY <1>0 DEF ClaimHolds, Exists, Counts
<1>1. task[t] # Null /\ (run[r] # Null => run[r].task = t)
  BY <1>0 DEF IInv, WorkersOwn, Owns, Busy, ParkedInv, WorkersKnow, WorkerKnows
<1>2. Exists(t) /\ Counts(r) /\ run[r].task = t /\ run'[r].due = run[r].due
  BY <1>1 DEF FiringsMove, FiringsAdvance, RunsAdvance, Counts
<1>3. run[r].status = "running"
  BY <1>1, <1>2 DEF FiringsMove, RunsAdvance
<1>4. \/ task'[t].version = task[t].version /\ task'[t].next = task[t].next
      \/ run[r].due < task'[t].next
  BY <1>1, <1>2 DEF FiringsMove, RunsAdvance, RunAdvances
<1>5. task[t].version = worker[w].version \/ run[r].due < task[t].next
  BY <1>0, <1>2, <1>3 DEF ClaimHolds
<1>6. QED
  BY <1>2, <1>4, <1>5

(* Both together.                                                          *)
LEMMA FiresOn ==
  ASSUME IInv, ParkedInv, StoreInv', FiresInv, spent.edits = 0, FiringsMove, RowsMoved,
         \A w \in Workers : worker'[w] = worker[w] \/ worker'[w].pc # "running"
  PROVE  FiresInv'
<1>1. RunsDiffer /\ FiringsUsed /\ ClaimsHold
  BY DEF FiresInv
<1>2. RunsDiffer' /\ FiringsUsed'
  BY <1>1, FiringsOn DEF IInv
<1>3. ClaimsHold'
  BY <1>1, ClaimHoldsOn DEF ClaimsHold, ClaimHolds
<1>4. QED
  BY <1>2, <1>3 DEF FiresInv

(* A firing is not before itself.                                          *)
LEMMA SameFirings ==
  ASSUME StoreInv
  PROVE  \A t \in Tasks : Exists(t) /\ task[t].next # Null => task[t].next >= task[t].next
BY ExistingRow DEF StoreInv, TaskRow

(* A step that changes neither rows nor runs.                              *)
LEMMA FiringsRest ==
  ASSUME StoreInv, StoreInv', UNCHANGED <<task, run>>, now' >= now
  PROVE  FiringsMove
BY SameFirings DEF FiringsAdvance, Exists, RunsAdvance, RunAdvances, Counts, FiringsMove

(* A recovery leaves the firings alone and abandons the runs it takes the  *)
(* lock from.                                                              *)
LEMMA RecoveryFires ==
  ASSUME StoreInv, RowsParked, NEW S \in SUBSET Tasks,
         task' = RecoveredTasks(S), run' = RecoveredRuns(S), now' = now
  PROVE  FiringsMove
<1>1. StoreTypeOK /\ LocksHaveRuns /\ RunsHaveLocks /\ now \in Nat
  BY LockHalves DEF StoreInv, StoreTypeOK
<1>2. ASSUME NEW t \in Tasks, task[t] # Null, Exists(t)'
      PROVE  /\ Exists(t) /\ task'[t].next = task[t].next /\ task[t].next \in Nat \cup {Null}
             /\ ~(t \in S /\ Expired(t)) => task'[t] = task[t]
  BY <1>2, <1>1, ExistingRow DEF RecoveredTasks, Exists, Expired, Recovered, TaskRow
<1>3. FiringsAdvance
  BY <1>2 DEF FiringsAdvance
<1>4. ASSUME NEW r \in RunIds, Counts(r)'
      PROVE  /\ run'[r] = run[r] /\ run[r] # Null
             /\ run[r].status = "running" =>
                  ~(run[r].task \in S /\ Expired(run[r].task))
  <2>1. run'[r] = run[r]
    <3>1. CASE run'[r] = [run[r] EXCEPT !.status = "abandoned"] /\ run[r] # Null
      BY <1>1, <3>1, <1>4 DEF StoreTypeOK, RunRow, Counts
    <3>2. QED
      BY <3>1 DEF RecoveredRuns
  <2>2. run[r] # Null
    BY <1>4, <2>1 DEF Counts
  <2>3. ASSUME run[r].status = "running", run[r].task \in S, Expired(run[r].task)
        PROVE  FALSE
    BY <1>1, <2>2, <2>3, <2>1 DEF RunsHaveLocks, Running, RecoveredRuns, StoreTypeOK, RunRow
  <2>4. QED
    BY <2>1, <2>2, <2>3
<1>5. RunsAdvance
  BY <1>2, <1>4 DEF RunsAdvance, RunAdvances, Counts
<1>6. QED
  BY <1>1, <1>3, <1>5 DEF FiringsMove

(* A new row has no run.                                                   *)
LEMMA CreateFires ==
  ASSUME StoreInv, NEW t \in Tasks, NEW row, task[t] = Null,
         task' = [task EXCEPT ![t] = row], UNCHANGED <<now, run>>
  PROVE  FiringsMove
BY SameFirings DEF StoreInv, StoreTypeOK, FiringsAdvance, Exists, RunsAdvance, RunAdvances, Counts,
   FiringsMove

(* Where loadTask moves a firing, it moves it forward, past the instant it *)
(* was read at.                                                            *)
LEMMA NextRunAtLater ==
  ASSUME NEW row \in TaskRow, NEW at \in Nat, row.next # Null, NextRunAt(row, at) # row.next
  PROVE  NextRunAt(row, at) > row.next /\ NextRunAt(row, at) > at
<1>1. row.next \in Nat /\ row.next <= at /\ row.sched \in Schedules
  BY DEF NextRunAt, TaskRow
<1>2. NextRunAt(row, at) = NextFire(row.sched, at)
  BY DEF NextRunAt
<1>3. NextFire(row.sched, at) > at
  BY <1>1, NextFireLater DEF DueAt
<1>4. QED
  BY <1>1, <1>2, <1>3, NextFireNat

(* So the rescheduling leaves behind the firing of a run in progress.      *)
LEMMA RescheduleFires ==
  ASSUME StoreInv, FiringsUsed, NEW t \in Tasks, NEW version, NEW next \in Nat,
         UpdateNextRun(t, version, next), task[t].next # Null, next > task[t].next
  PROVE  FiringsMove
<1>1. StoreTypeOK /\ now \in Nat
  BY DEF StoreInv, StoreTypeOK
<1>2. /\ Exists(t) /\ task' = [task EXCEPT ![t] = Rescheduled(task[t], next)]
      /\ UNCHANGED <<now, run>>
  BY DEF UpdateNextRun, UpdateNextRunMatches
<1>3. task[t] \in TaskRow /\ task[t].next \in Nat
  BY <1>1, <1>2, ExistingRow DEF TaskRow
<1>4. task'[t].next = next /\ \A u \in Tasks \ {t} : task'[u] = task[u]
  BY <1>3, <1>1, <1>2 DEF Rescheduled, TaskRow, StoreTypeOK
<1>5. FiringsAdvance
  BY <1>2, <1>3, <1>4, SameFirings, NullAssumption DEF FiringsAdvance, Exists
<1>6. ASSUME NEW r \in RunIds, Counts(r), run[r].task = t, run[r].status = "running"
      PROVE  run[r].due < next
  BY <1>1, <1>2, <1>6, <1>3 DEF FiringsUsed, StoreTypeOK, RunRow, Counts, DueIsUsed
<1>7. RunsAdvance
  BY <1>2, <1>4, <1>6 DEF RunsAdvance, RunAdvances, Counts
<1>8. QED
  BY <1>1, <1>2, <1>5, <1>7 DEF FiringsMove

(* A run ends with its firing behind the row's, and no other run of the    *)
(* task is in progress.                                                    *)
LEMMA EndedAdvances ==
  ASSUME NEW t \in Tasks, NEW r \in RunIds,
         run[r] # Null /\ run'[r] # Null /\ run[r].status = "running",
         run[r].task = t, run'[r].task = t, run'[r].due = run[r].due,
         run'[r].trigger = run[r].trigger, run'[r].status = "ended",
         \A q \in RunIds \ {r} : run'[q] = run[q],
         \A u \in Tasks \ {t} : task'[u] = task[u],
         Counts(r) => task'[t].next # Null /\ run[r].due < task'[t].next,
         \A q \in RunIds \ {r} : run[q] # Null /\ run[q].status = "running" => run[q].task # t
  PROVE  RunsAdvance
<1> SUFFICES ASSUME NEW q \in RunIds, Counts(q)'
             PROVE  /\ Counts(q) /\ run'[q].task = run[q].task /\ run'[q].due = run[q].due
                    /\ run'[q].status = run[q].status \/ run'[q].status = "ended"
                    /\ \A u \in Tasks : run[q].task = u => RunAdvances(q, u)
  BY DEF RunsAdvance
<1>1. CASE q = r
  BY <1>1 DEF Counts, RunAdvances
<1>2. CASE q # r
  <2>1. run'[q] = run[q] /\ Counts(q)
    BY <1>2 DEF Counts
  <2>2. ASSUME NEW u \in Tasks, run[q].task = u
        PROVE  RunAdvances(q, u)
    <3>1. CASE run[q].status = "running"
      BY <1>2, <2>1, <2>2, <3>1 DEF Counts, RunAdvances
    <3>2. CASE run[q].status # "running"
      BY <2>1, <3>2 DEF RunAdvances
    <3>3. QED
      BY <3>1, <3>2
  <2>3. QED
    BY <2>1, <2>2
<1>3. QED
  BY <1>1, <1>2

(* The completion leaves the firing behind, or finds that it was.          *)
LEMMA FinishFires ==
  ASSUME StoreInv, StoreInv', RowsParked, FiringsUsed,
         NEW t \in Tasks, NEW r \in RunIds, NEW version, NEW runner \in Nat \ {0},
         run[r] # Null => run[r].task = t /\ run[r].runner = runner,
         Exists(t) /\ Counts(r) /\ run[r].status = "running" =>
           task[t].version = version \/ run[r].due < task[t].next,
         FinishRun(t, r, version, runner)
  PROVE  FiringsMove
<1>1. /\ StoreTypeOK /\ LocksHaveRuns /\ RunsHaveLocks /\ now \in Nat /\ now' = now
  BY LockHalves DEF StoreInv, StoreTypeOK, FinishRun
<1>2. CASE Running(r)
  <2>1. Locked(t) /\ task[t].lastRun = r /\ task[t].lockedBy = runner
    BY <1>1, <1>2 DEF RunsHaveLocks, LocksHaveRuns, Running
  <2>2. run' = [run EXCEPT ![r].status = "ended"] /\ run[r] \in RunRow
    BY <1>1, <1>2 DEF FinishRun, Running, StoreTypeOK
  <2>3. Exists(t) /\ task[t] \in TaskRow /\ ParkedRow(task[t])
    BY <1>1, <2>1, ExistingRow DEF Locked, RowsParked
  <2>4. NextFire(task[t].sched, now) \in Nat /\ task[t].next \in Nat \cup {Null}
        /\ task[t].sched \in Schedules
    BY <1>1, <2>3, NextFireNat DEF TaskRow
  <2>5. /\ run'[r].status = "ended" /\ run'[r].task = run[r].task /\ run'[r].due = run[r].due
        /\ run'[r].trigger = run[r].trigger /\ run'[r] # Null /\ run[r].task = t
        /\ \A q \in RunIds \ {r} : run'[q] = run[q]
    BY <1>1, <2>2, <1>2, AbsentAssumption DEF StoreTypeOK, RunRow, Running
  <2>6. ASSUME Counts(r)
        PROVE  /\ run[r].due \in Nat /\ task[t].next # Null
               /\ run[r].due <= task[t].next
               /\ NextFire(task[t].sched, now) > run[r].due
    <3>1. /\ run[r].due \in Nat /\ DueIsUsed(r) /\ run[r].status = "running" /\ run[r].task = t
          /\ DueAt(run[r].due, now)
      BY <1>2, <2>2, <2>3, <2>6 DEF FiringsUsed, Running, RunRow
    <3>2. QED
      BY <1>1, <2>4, <3>1, NextFireLater DEF DueIsUsed
  <2>7. \A q \in RunIds \ {r} : run[q] # Null /\ run[q].status = "running" => run[q].task # t
    BY <1>1, <2>1 DEF RunsHaveLocks, Running
  <2>8. CASE task[t].version = version
    <3>1. task' = [task EXCEPT ![t] = Finished(task[t])]
      BY <1>2, <2>1, <2>3, <2>8 DEF FinishRun, ClaimStands, Running
    <3>2. Finished(task[t]).next = NextFire(task[t].sched, now)
      BY <2>3 DEF Finished, TaskRow
    <3>3. task'[t].next = NextFire(task[t].sched, now) /\ \A u \in Tasks \ {t} : task'[u] = task[u]
      BY <1>1, <3>1, <3>2 DEF StoreTypeOK
    <3>4. Beyond(task'[t].next)
      BY <1>1, <2>4, <3>3, NextFireLater DEF Beyond
    <3>5. FiringsAdvance
      BY <1>1, <2>3, <2>4, <3>3, <3>4, NullAssumption, SameFirings DEF FiringsAdvance, Exists
    <3>6. RunsAdvance
      <4>1. Counts(r) => task'[t].next # Null /\ run[r].due < task'[t].next
        BY <2>4, <2>6, <3>3, NullAssumption
      <4>2. QED
        BY <1>2, <2>5, <2>7, <3>3, <4>1, EndedAdvances DEF Running
    <3>7. QED
      BY <1>1, <3>5, <3>6 DEF FiringsMove
  <2>9. CASE task[t].version # version
    <3>1. task' = [task EXCEPT ![t] = Released(task[t])]
      BY <2>1, <2>3, <2>9 DEF FinishRun, ClaimStands
    <3>2. Released(task[t]).next = task[t].next
      BY <2>3 DEF Released, TaskRow
    <3>3. task'[t].next = task[t].next /\ \A u \in Tasks \ {t} : task'[u] = task[u]
      BY <1>1, <3>1, <3>2 DEF StoreTypeOK
    <3>4. Counts(r) => run[r].due < task[t].next
      BY <1>2, <2>3, <2>9 DEF Running
    <3>5. FiringsAdvance
      BY <2>3, <3>3, SameFirings DEF FiringsAdvance, Exists
    <3>6. RunsAdvance
      <4>1. Counts(r) => task'[t].next # Null /\ run[r].due < task'[t].next
        BY <2>6, <3>3, <3>4
      <4>2. QED
        BY <1>2, <2>5, <2>7, <3>3, <4>1, EndedAdvances DEF Running
    <3>7. QED
      BY <1>1, <3>5, <3>6 DEF FiringsMove
  <2>10. QED
    BY <2>8, <2>9
<1>3. CASE ~Running(r)
  BY <1>1, <1>3, FiringsRest DEF LocksHaveRuns, Locked, FinishRun, Running
<1>4. QED
  BY <1>2, <1>3

(* The claim starts the run of a firing that no other run counts for: the  *)
(* runs that have ended are behind it, the one in progress was recovered.  *)
LEMMA BeginRunFires ==
  ASSUME StoreInv, StoreInv', RowsMoved, RunsDiffer, FiringsUsed, NEW t \in Tasks,
         NEW trigger \in {"schedule", "manual"}, NEW version, NEW runner \in Nat \ {0},
         BeginRun(t, trigger, version, runner)
  PROVE  /\ RunsDiffer' /\ FiringsUsed'
         /\ \A u \in Tasks \ {t} : task'[u] = task[u]
         /\ \A r \in RunIds : r <= runSeq /\ Counts(r)' =>
              Counts(r) /\ run'[r] = run[r] /\ (run[r].status = "running" => run[r].task # t)
<1> DEFINE row == RecoveredTasks({t})[t]
           new == StartedRun(t, trigger, runner, row.next)
<1>1. /\ StoreTypeOK /\ LocksHaveRuns /\ RunsHaveLocks /\ RunsNumbered
      /\ now \in Nat /\ runSeq \in Nat
  BY LockHalves DEF StoreInv, StoreTypeOK
<1>3. PICK id \in RunIds : id = runSeq + 1 /\ id \in Nat
  BY <1>1, BoundAssumption DEF RunIds, BeginRun
<1>2. /\ runSeq < MaxRuns
      /\ ClaimableAfterRecovery(t, trigger, version)
      /\ task' = [task EXCEPT ![t] = Claimed(row, runner, id)]
      /\ run' = [RecoveredRuns({t}) EXCEPT ![id] = new]
      /\ runSeq' = id /\ now' = now
  BY <1>3 DEF BeginRun
<1>4. Exists(t) /\ task[t] \in TaskRow /\ row \in TaskRow /\ row.next = task[t].next
  <2>1. Exists(t) /\ task[t] \in TaskRow
    BY <1>1, <1>2, ExistingRow DEF ClaimableAfterRecovery
  <2>2. Recovered(task[t]) \in TaskRow /\ Recovered(task[t]).next = task[t].next
    BY <2>1, RecoveredRow DEF Recovered, TaskRow
  <2>3. row = task[t] \/ row = Recovered(task[t])
    BY DEF RecoveredTasks
  <2>4. QED
    BY <2>1, <2>2, <2>3
<1>5. Locked(t) => Expired(t)
  BY <1>2 DEF ClaimableAfterRecovery, Claimable, RecoveredTasks, Expired, Locked
<1>6. trigger = "schedule" => row.next # Null /\ TextLeq(row.next, now)
  BY <1>2 DEF ClaimableAfterRecovery, Claimable
<1>7. /\ new.task = t /\ new.trigger = trigger /\ new.status = "running"
      /\ new.due = IF trigger = "schedule" THEN task[t].next ELSE Null
  BY <1>4 DEF StartedRun
<1>8. task'[t].next = task[t].next /\ \A u \in Tasks \ {t} : task'[u] = task[u]
  <2> HIDE DEF row
  <2>1. Claimed(row, runner, id).next = row.next
    BY <1>4 DEF Claimed, TaskRow
  <2>2. QED
    BY <1>1, <1>2, <1>4, <2>1 DEF StoreTypeOK
<1> HIDE DEF row, new
<1>9. /\ run'[id] = new
      /\ \A r \in RunIds \ {id} : run'[r] = RecoveredRuns({t})[r]
  BY <1>2, <1>3 DEF RecoveredRuns
<1>10. ASSUME NEW r \in RunIds \ {id}, Counts(r)'
       PROVE  Counts(r) /\ run'[r] = run[r] /\ (run[r].status = "running" => run[r].task # t)
  <2>1. run'[r] = run[r]
    <3>1. CASE run'[r] = [run[r] EXCEPT !.status = "abandoned"] /\ run[r] # Null
      BY <1>1, <3>1, <1>10 DEF StoreTypeOK, RunRow, Counts
    <3>2. QED
      BY <1>9, <3>1 DEF RecoveredRuns
  <2>2. Counts(r)
    BY <1>10, <2>1 DEF Counts
  <2>3. ASSUME run[r].status = "running", run[r].task = t
        PROVE  FALSE
    <3>1. Locked(t) /\ task[t].lastRun = r /\ run[r] # Null
      BY <1>1, <2>2, <2>3 DEF RunsHaveLocks, Running, Counts
    <3>2. run'[r] = [run[r] EXCEPT !.status = "abandoned"] /\ run[r] \in RunRow
      BY <1>1, <1>5, <1>9, <2>3, <3>1 DEF RecoveredRuns, StoreTypeOK
    <3>3. run'[r].status = "abandoned"
      BY <3>2 DEF RunRow
    <3>4. QED
      BY <2>1, <2>3, <3>3
  <2>4. QED
    BY <2>1, <2>2, <2>3
(* The firing of the new run, if it counts.                                *)
<1>11. ASSUME Counts(id)'
       PROVE  /\ run'[id].task = t /\ run'[id].due = task[t].next /\ task[t].next \in Nat
              /\ DueAt(task[t].next, now) /\ run'[id].status = "running"
  <2>1. trigger = "schedule" /\ run'[id].task = t /\ run'[id].due = task[t].next
    BY <1>7, <1>9, <1>11 DEF Counts
  <2>2. task[t].next \in Nat /\ TextLeq(task[t].next, now)
    BY <1>4, <1>6, <2>1 DEF TaskRow
  <2>3. QED
    BY <1>1, <1>7, <1>9, <2>1, <2>2, ClaimedIsDue
(* The runs of this task that count have ended, and are behind.            *)
<1>12. ASSUME NEW r \in RunIds \ {id}, Counts(r)', run[r].task = t
       PROVE  run[r].due \in Nat /\ task[t].next \in Nat /\ run[r].due < task[t].next
  <2>1. Counts(r) /\ run[r].status # "running" /\ run[r] \in RunRow
    BY <1>1, <1>10, <1>12 DEF Counts, StoreTypeOK
  <2>2. run[r].status = "ended" /\ run[r].due \in Nat \cup {Null}
    BY <2>1 DEF RunRow, Counts
  <2>3. DueIsUsed(r) /\ run[r].due # Null
    BY <1>4, <1>12, <2>1 DEF FiringsUsed
  <2>4. QED
    BY <1>4, <1>12, <2>2, <2>3 DEF DueIsUsed, TaskRow
<1>13. RunsDiffer'
  <2> SUFFICES ASSUME NEW r1 \in RunIds, NEW r2 \in RunIds, Counts(r1)', Counts(r2)',
                      r1 # r2, run'[r1].task = run'[r2].task
               PROVE  run'[r1].due # run'[r2].due
    BY DEF RunsDiffer
  <2>1. CASE r1 # id /\ r2 # id
    BY <1>10, <2>1 DEF RunsDiffer
  <2>2. CASE r1 = id
    <3>1. run'[r2] = run[r2] /\ run[r2].task = t /\ r2 # id
      BY <1>10, <1>11, <2>2
    <3>2. QED
      BY <1>11, <1>12, <2>2, <3>1
  <2>3. CASE r2 = id
    <3>1. run'[r1] = run[r1] /\ run[r1].task = t /\ r1 # id
      BY <1>10, <1>11, <2>3
    <3>2. QED
      BY <1>11, <1>12, <2>3, <3>1
  <2>4. QED
    BY <2>1, <2>2, <2>3
<1>14. ASSUME NEW r \in RunIds, Counts(r)'
       PROVE  (/\ run[r].due # Null /\ task[run[r].task] # Null
               /\ DueAt(run[r].due, now)
               /\ Exists(run[r].task) => DueIsUsed(r))'
  <2>1. CASE r = id
    <3>1. run'[r].due \in Nat /\ run'[r].due # Null
      BY <1>11, <1>14, <2>1, NullAssumption
    <3>2. task'[t] # Null
      BY <1>4, AbsentAssumption DEF RowsMoved
    <3>3. QED
      BY <1>2, <1>8, <1>11, <1>14, <2>1, <3>1, <3>2, NullAssumption DEF DueIsUsed
  <2>2. CASE r # id
    <3>1. Counts(r) /\ run'[r] = run[r] /\ run[r] \in RunRow
      BY <1>1, <1>10, <1>14, <2>2 DEF Counts, StoreTypeOK
    <3>2. PICK u \in Tasks : u = run[r].task
      BY <3>1 DEF RunRow
    <3>3. /\ run[r].due # Null /\ task[u] # Null /\ DueAt(run[r].due, now)
          /\ Exists(u) => DueIsUsed(r)
      BY <3>1, <3>2 DEF FiringsUsed
    <3>4. task'[u] # Null /\ (Exists(u)' => Exists(u) /\ task'[u].next = task[u].next)
      <4>1. task'[u] # Null /\ (Exists(u)' => Exists(u))
        BY <3>3 DEF RowsMoved
      <4>2. QED
        BY <1>8, <4>1
    <3>5. Exists(u)' => DueIsUsed(r)'
      BY <3>1, <3>2, <3>3, <3>4 DEF DueIsUsed
    <3>6. QED
      BY <1>2, <3>1, <3>2, <3>3, <3>4, <3>5
  <2>3. QED
    BY <2>1, <2>2
<1>15. \A r \in RunIds : r <= runSeq => r # id
  BY <1>1, <1>3 DEF RunIds
<1>16. FiringsUsed'
  BY <1>14 DEF FiringsUsed
<1>17. QED
  BY <1>8, <1>10, <1>13, <1>15, <1>16

(* A worker that claimed holds the version its claim wrote.                *)
LEMMA ClaimFires ==
  ASSUME IInv, ParkedInv, IInv', FiresInv, NEW w \in Workers, Claim(w)
  PROVE  FiresInv'
<1> SUFFICES ASSUME spent'.edits = 0
             PROVE  FiresInv'
  BY DEF FiresInv
<1>1. /\ StoreInv /\ StoreInv' /\ RowsParked /\ RunsDiffer /\ FiringsUsed /\ ClaimsHold
      /\ worker \in [Workers -> WorkerRow] /\ runSeq \in Nat
  BY DEF IInv, MemTypeOK, StoreInv, StoreTypeOK, ParkedInv, FiresInv, Claim
<1>2. PICK t \in Tasks : t = worker[w].task
  BY ReturnedWorker DEF Claim, HasSlot, Busy
<1>3. /\ worker[w].trigger \in {"schedule", "manual"} /\ epoch \in Nat \ {0}
      /\ BeginRun(t, worker[w].trigger, worker[w].version, epoch)
  BY <1>2, ReturnedWorker DEF WorkerRow, Claim, HasSlot, Busy
<1>4. RowsMoved
  BY <1>1, <1>3, BeginRunMoves
<1>5. /\ RunsDiffer' /\ FiringsUsed'
      /\ \A u \in Tasks \ {t} : task'[u] = task[u]
      /\ \A r \in RunIds : r <= runSeq /\ Counts(r)' =>
           Counts(r) /\ run'[r] = run[r] /\ (run[r].status = "running" => run[r].task # t)
  BY <1>1, <1>3, <1>4, BeginRunFires
<1>6. /\ \A v \in Workers \ {w} : worker'[v] = worker[v]
      /\ worker'[w].task = t /\ worker'[w].version = task'[t].version
  BY <1>1, <1>2 DEF Claim, WorkerRow
<1>7. ClaimHolds(w)'
  BY <1>6 DEF ClaimHolds
<1>8. ASSUME NEW v \in Workers \ {w}
      PROVE  ClaimHolds(v)'
  <2> SUFFICES ASSUME worker[v].pc = "running", Exists(worker[v].task)',
                      Counts(worker[v].run)', run'[worker[v].run].status = "running"
               PROVE  ClaimHolds(v)'
    BY <1>6 DEF ClaimHolds, Exists, Counts
  <2>1. PICK u \in Tasks, r \in RunIds : u = worker[v].task /\ r = worker[v].run /\ r <= runSeq
    BY DEF IInv, WorkersOwn, Owns, Busy
  <2>2. Counts(r) /\ run'[r] = run[r] /\ (run[r].status = "running" => run[r].task # t)
    BY <1>5, <1>6, <2>1 DEF Counts
  <2>3. run[r].task = u
    BY <2>1, <2>2 DEF IInv, WorkersOwn, Owns, Counts
  <2>4. u # t /\ task'[u] = task[u]
    BY <1>5, <2>1, <2>2, <2>3
  <2>5. ClaimHolds(v)
    BY <1>1 DEF ClaimsHold
  <2>6. task[u].version = worker[v].version \/ run[r].due < task[u].next
    BY <1>6, <2>1, <2>2, <2>4, <2>5 DEF Exists, ClaimHolds
  <2>7. QED
    BY <1>6, <2>1, <2>2, <2>4, <2>6 DEF ClaimHolds
<1>9. ClaimsHold'
  BY <1>7, <1>8 DEF ClaimsHold
<1>10. QED
  BY <1>5, <1>9 DEF FiresInv

-----------------------------------------------------------------------------
(* Every step keeps FiresInv.                                              *)

(* A step that touches neither rows nor runs.                              *)
LEMMA FiresRest ==
  ASSUME IInv, ParkedInv, IInv', FiresInv, UNCHANGED <<task, run>>, now' >= now,
         spent'.edits = 0 => spent.edits = 0,
         \A w \in Workers : worker'[w] = worker[w] \/ worker'[w].pc # "running"
  PROVE  FiresInv'
BY FiringsRest, NoRowMoves, FiresOn DEF FiresInv, IInv, ParkedInv

(* The same instant is not before.                                         *)
LEMMA NowStays ==
  ASSUME IInv, UNCHANGED now
  PROVE  now' >= now
BY DEF IInv, StoreInv, StoreTypeOK

(* The loop: a recovery, a rescheduling, and steps that only read.         *)
LEMMA LoopFires ==
  ASSUME IInv, ParkedInv, IInv', FiresInv, LoopStep
  PROVE  FiresInv'
<1> SUFFICES ASSUME spent'.edits = 0
             PROVE  FiresInv'
  BY DEF FiresInv
<1>1. /\ StoreInv /\ StoreInv' /\ StoreTypeOK /\ RowsParked /\ SnapsKnow
  BY DEF IInv, StoreInv, ParkedInv
<1>2. CASE Reconcile
  BY <1>1, <1>2, RecoveryMoves, RecoveryFires, FiresOn DEF Reconcile, MarkExpiredRunningAbandoned,
     aroundLoop
<1>3. ASSUME NEW t \in Tasks, LoadRescheduled(t)
      PROVE  FiresInv'
  <2>1. /\ loop.snap[t] \in TaskRow /\ loop.at \in Nat /\ loop.snap[t] # Null
        /\ UpdateNextRun(t, loop.snap[t].version, NextRunAt(loop.snap[t], loop.at))
        /\ NextRunAt(loop.snap[t], loop.at) # loop.snap[t].next
    BY <1>3, LoadingRow DEF LoadRescheduled, Rescheduling, Loading
  <2>2. PICK next \in Nat : next = NextRunAt(loop.snap[t], loop.at)
    BY <2>1, NextRunAtNat
  <2>3. Exists(t) /\ task[t].version = loop.snap[t].version
    BY <2>1 DEF UpdateNextRun, UpdateNextRunMatches
  <2>4. /\ task[t] \in TaskRow /\ ParkedRow(task[t]) /\ task[t].enabled
        /\ task[t].next = loop.snap[t].next
    BY <1>1, <2>1, <2>3, ExistingRow DEF RowsParked, SnapsKnow, SnapKnows, SameDefinition
  <2>5. RowsMoved
    <3>1. Rescheduled(task[t], next) \in TaskRow
      BY <2>4, RescheduledRow
    <3>2. ParkedRow(Rescheduled(task[t], next)) /\ Moved(task[t], Rescheduled(task[t], next))
      BY <2>4, RescheduledParked
    <3>3. task' = [task EXCEPT ![t] = Rescheduled(task[t], next)]
      BY <2>1, <2>2 DEF UpdateNextRun
    <3>4. QED
      BY <1>1, <2>3, <3>1, <3>2, <3>3, OneRowMoves
  <2>6. task[t].next # Null /\ next > task[t].next
    BY <2>1, <2>2, <2>4, NextRunAtLater DEF ParkedRow
  <2>7. UNCHANGED <<worker, spent>>
    BY <1>3 DEF LoadRescheduled, aroundLoop
  <2>8. FiringsMove
    BY <2>7, <2>1, <2>2, <1>1, <2>6, RescheduleFires DEF FiresInv
  <2>9. QED
    BY <1>1, <2>5, <2>7, <2>8, FiresOn
<1>4. CASE ReconcileList \/ Wake \/ DrainDirty \/ Refresh \/ DispatchEnds
  BY <1>4, FiresRest, NowStays DEF ReconcileList, Wake, DrainDirty, Refresh, DispatchEnds,
     storeVars, aroundLoop
<1>5. ASSUME NEW t \in Tasks,
             \/ ReloadDirty(t) \/ LoadLocked(t) \/ LoadIndexed(t) \/ LoadOutdated(t)
             \/ DispatchParked(t) \/ DispatchStale(t) \/ DispatchSent(t)
      PROVE  FiresInv'
  BY <1>5, FiresRest, NowStays DEF ReloadDirty, LoadLocked, LoadIndexed, LoadOutdated,
     DispatchParked, DispatchStale, DispatchSent, storeVars, aroundLoop
<1>6. QED
  BY <1>2, <1>3, <1>4, <1>5 DEF LoopStep

(* The workers: a claim, a refusal and a completion.                       *)
LEMMA WorkerFires ==
  ASSUME IInv, ParkedInv, IInv', FiresInv, NEW w \in Workers, WorkerStep(w)
  PROVE  FiresInv'
<1> SUFFICES ASSUME spent'.edits = 0
             PROVE  FiresInv'
  BY DEF FiresInv
<1>1. /\ StoreInv /\ StoreTypeOK /\ StoreInv' /\ RowsParked /\ WorkersKnow
      /\ worker \in [Workers -> WorkerRow]
  BY DEF IInv, MemTypeOK, StoreInv, ParkedInv
<1>2. CASE Claim(w)
  BY <1>2, ClaimFires
<1>3. CASE ClaimRefused(w)
  BY <1>3, ReturnedWorker, <1>1, RecoveryMoves, RecoveryFires, FiresOn DEF ClaimRefused, HasSlot,
     Busy, BeginRunRefused, RunReturns, IdleWorker
<1>4. CASE Finish(w)
  <2>1. /\ worker[w].task \in Tasks /\ epoch \in Nat \ {0} /\ worker[w].run \in RunIds
        /\ run[worker[w].run] # Null =>
             run[worker[w].run].task = worker[w].task /\ run[worker[w].run].runner = epoch
        /\ FinishRun(worker[w].task, worker[w].run, worker[w].version, epoch)
        /\ worker[w].pc = "running" /\ spent' = spent
    BY <1>4, ReturnedWorker DEF Finish, Busy, IInv, WorkersOwn, Owns
  <2>2. RowsMoved
    BY <1>1, <2>1, FinishMoves DEF WorkersKnow, WorkerKnows
  <2>3. \A v \in Workers : worker'[v] = worker[v] \/ worker'[v].pc # "running"
    BY <1>1, <1>4 DEF Finish, RunReturns, IdleWorker
  <2>4. FiringsUsed /\ ClaimHolds(w)
    BY <2>1 DEF FiresInv, ClaimsHold
  <2>5. FiringsMove
    BY <1>1, <2>1, <2>4, FinishFires DEF ClaimHolds
  <2>6. QED
    BY <1>1, <2>1, <2>2, <2>3, <2>5, FiresOn
<1>5. CASE TakeDispatch(w) \/ TakeManual(w) \/ ReloadAfterRun(w)
  BY <1>1, <1>5, FiresRest, NowStays DEF TakeDispatch, TakeManual, ReloadAfterRun, IdleWorker,
     storeVars
<1>6. QED
  BY <1>2, <1>3, <1>4, <1>5 DEF WorkerStep

(* The service: every change of a row but a creation is an edit, and a     *)
(* toggle under way was one.                                               *)
LEMMA ServiceFires ==
  ASSUME IInv, ParkedInv, IInv', FiresInv, ServiceStep \/ \E r \in RunIds : Prune(r)
  PROVE  FiresInv'
<1> SUFFICES ASSUME spent'.edits = 0
             PROVE  FiresInv'
  BY DEF FiresInv
<1>1. /\ StoreInv /\ StoreTypeOK /\ StoreInv' /\ RowsParked /\ now \in Nat /\ spent \in Budget
      /\ toggle # Null => spent.edits > 0
      /\ spent.edits \in Nat
  <2>1. StoreInv /\ StoreInv' /\ spent \in Budget
    BY DEF IInv, MemTypeOK
  <2>2. StoreTypeOK
    BY <2>1 DEF StoreInv
  <2>3. now \in Nat
    BY <2>2 DEF StoreTypeOK
  <2>4. RowsParked /\ (toggle # Null => spent.edits > 0)
    BY DEF ParkedInv, ToggleKnows
  <2>5. spent.edits \in Nat
    BY <2>1, BudgetAssumption DEF Budget
  <2>6. QED
    BY <2>1, <2>2, <2>3, <2>4, <2>5
<1>2. ~Edit
  BY <1>1, Budgets
<1>3. ~SetEnabledWrite
  BY <1>1 DEF SetEnabledWrite
<1>4. ASSUME NEW t \in Tasks, NEW enabled \in BOOLEAN, NEW sched \in Schedules,
             NEW missed \in Policies, Create(t, enabled, sched, missed)
      PROVE  FiresInv'
  BY <1>1, <1>4, CreateMoves, CreateFires, FiresOn DEF Create, CreateRow, aroundService
<1>5. ASSUME NEW t \in Tasks, ServiceReload(t) \/ RunNow(t)
      PROVE  FiresInv'
  BY <1>5, FiresRest, NowStays DEF ServiceReload, RunNow, storeVars, aroundService
<1>6. QED
  BY <1>2, <1>3, <1>4, <1>5 DEF ServiceStep, Update, SetEnabledRead, Delete, Prune

(* Faults, restarts and the clock change no row and no run.                *)
LEMMA FaultFires ==
  ASSUME IInv, ParkedInv, IInv', FiresInv, DbFault \/ Boot \/ Crash \/ Clock
  PROVE  FiresInv'
<1>1. worker \in [Workers -> WorkerRow] /\ spent \in Budget /\ now \in Nat
  BY DEF IInv, MemTypeOK, StoreInv, StoreTypeOK
<1>2. UNCHANGED <<task, run>> /\ now' >= now
  BY <1>1, NowStays DEF DbFault, Boot, Crash, Clock, Tick, ReconcileFails, RefreshFails,
     ReloadDirtyFails, LoadFails, DispatchFails, ClaimFails, FinishFails, storeVars
<1>3. spent'.edits = spent.edits
  BY <1>1, Budgets DEF DbFault, Boot, Crash, Clock, ReconcileFails, RefreshFails,
     ReloadDirtyFails, LoadFails, DispatchFails, ClaimFails, FinishFails, memVars, Budget
<1>4. \A v \in Workers : worker'[v] = worker[v] \/ worker'[v].pc # "running"
  <2>1. ASSUME NEW w \in Workers, ClaimFails(w) \/ FinishFails(w)
        PROVE  \A v \in Workers : worker'[v] = worker[v] \/ worker'[v].pc # "running"
    BY <1>1, <2>1 DEF ClaimFails, FinishFails, RunReturns, IdleWorker
  <2>2. CASE Boot \/ Crash \/ Clock \/ ReconcileFails \/ RefreshFails
    BY <2>2 DEF Boot, Crash, Clock, ReconcileFails, RefreshFails, MemoryLost, IdleWorker,
       memVars, aroundLoop
  <2>3. ASSUME NEW t \in Tasks, ReloadDirtyFails(t) \/ LoadFails(t) \/ DispatchFails(t)
        PROVE  worker' = worker
    BY <2>3 DEF ReloadDirtyFails, LoadFails, DispatchFails, aroundLoop
  <2>4. QED
    BY <2>1, <2>2, <2>3 DEF DbFault
<1>5. QED
  BY <1>2, <1>3, <1>4, FiresRest

(* Every step keeps FiresInv.                                              *)
LEMMA NextFires == IInv /\ ParkedInv /\ FiresInv /\ IInv' /\ [Next]_vars => FiresInv'
BY FiresRest, NowStays, LoopFires, WorkerFires, ServiceFires, FaultFires DEF vars, storeVars,
   memVars, Next

(* FiresInv holds in every reachable state.                                *)
THEOREM FiresInvariant == Spec => []FiresInv
<1>1. Init => FiresInv
  BY DEF Init, FiresInv, RunsDiffer, FiringsUsed, ClaimsHold, ClaimHolds, Counts, IdleWorker
<1>2. IInv /\ ParkedInv /\ FiresInv /\ IInv' /\ [Next]_vars => FiresInv'
  BY NextFires
<1>3. QED
  BY <1>1, <1>2, Invariant, ParkedInvariant, PTL DEF Spec

(* One firing is executed once, through crashes, expiries, restarts and    *)
(* failing statements, as long as nobody edits.                            *)
THEOREM FiresCorrect == Spec => []FiresOnce
<1>1. FiresInv => FiresOnce
  BY DEF FiresInv, RunsDiffer, Counts, FiresOnce, OncePerFiring
<1>2. QED
  BY <1>1, FiresInvariant, PTL

-----------------------------------------------------------------------------
(* What every step does to the rows, whoever takes it.                     *)

(* Without an edit the policy stays and the firing moves forward, or into  *)
(* the future.                                                             *)
Carried(old, new) ==
  /\ new.missed = old.missed
  /\ old.next # Null =>
       new.next # Null /\ (new.next >= old.next \/ new.next > now)

RowsCarried == \A t \in Tasks : task[t] # Null /\ Exists(t)' => Carried(task[t], task'[t])

(* The statements that edit nothing, one row.                              *)
LEMMA CarriedRow ==
  ASSUME NEW row \in TaskRow, now \in Nat
  PROVE  /\ Carried(row, row) /\ Carried(row, Recovered(row))
         /\ Carried(row, Finished(row)) /\ Carried(row, Released(row))
         /\ \A runner, id : Carried(row, Claimed(row, runner, id))
                            /\ Carried(row, Claimed(Recovered(row), runner, id))
<1>1. row.next = Null \/ (row.next \in Nat /\ row.next >= row.next)
  BY DEF TaskRow
<1>2. NextFire(row.sched, now) > now /\ NextFire(row.sched, now) # Null
  BY NextFireLater, NextFireNat, NullAssumption DEF DueAt, TaskRow
<1>3. \A other \in TaskRow :
        other.missed = row.missed /\ other.next = row.next => Carried(row, other)
  BY <1>1 DEF Carried
<1>4. Recovered(row) \in TaskRow /\ Recovered(row).missed = row.missed
        /\ Recovered(row).next = row.next
  BY RecoveredRow DEF Recovered, TaskRow
<1>5. Carried(row, Finished(row))
  BY <1>2 DEF Finished, TaskRow, Carried
<1>6. Carried(row, Released(row))
  BY <1>1 DEF Released, TaskRow, Carried
<1>7. ASSUME NEW runner, NEW id, NEW other \in TaskRow,
             other.missed = row.missed, other.next = row.next
      PROVE  Carried(row, Claimed(other, runner, id))
  BY <1>1, <1>7 DEF Claimed, TaskRow, Carried
<1>8. QED
  BY <1>3, <1>4, <1>5, <1>6, <1>7

(* No row changes.                                                         *)
LEMMA NoRowCarried ==
  ASSUME StoreInv, UNCHANGED task
  PROVE  RowsCarried
BY ExistingRow, CarriedRow DEF StoreInv, StoreTypeOK, RowsCarried, Exists

(* One row.                                                                *)
LEMMA OneRowCarried ==
  ASSUME StoreInv, NEW t \in Tasks, NEW row, task' = [task EXCEPT ![t] = row],
         task[t] # Null => Carried(task[t], row)
  PROVE  RowsCarried
BY ExistingRow, CarriedRow DEF StoreInv, StoreTypeOK, RowsCarried, Exists

(* The recovery.                                                           *)
LEMMA RecoveryCarried ==
  ASSUME StoreInv, NEW S \in SUBSET Tasks, task' = RecoveredTasks(S)
  PROVE  RowsCarried
BY ExistingRow, CarriedRow DEF RowsCarried, RecoveredTasks, Exists, Expired, StoreInv, StoreTypeOK

(* Every step: a version tells a definition, and what is not an edit       *)
(* carries the firing on.                                                  *)
StepMoves == RowsMoved /\ (spent'.edits = 0 => RowsCarried)

(* The loop.                                                               *)
LEMMA LoopMoves ==
  ASSUME IInv, ParkedInv, IInv', LoopStep
  PROVE  StepMoves
<1>1. /\ StoreInv /\ StoreTypeOK /\ RowsParked /\ SnapsKnow
  BY DEF IInv, StoreInv, ParkedInv
<1>2. CASE Reconcile
  BY <1>2, <1>1, RecoveryMoves, RecoveryCarried DEF Reconcile, MarkExpiredRunningAbandoned,
     StepMoves
<1>3. ASSUME NEW t \in Tasks, LoadRescheduled(t)
      PROVE  StepMoves
  <2>1. /\ loop.snap[t] \in TaskRow /\ loop.at \in Nat /\ loop.snap[t] # Null
        /\ UpdateNextRun(t, loop.snap[t].version, NextRunAt(loop.snap[t], loop.at))
        /\ NextRunAt(loop.snap[t], loop.at) # loop.snap[t].next
    BY <1>3, LoadingRow DEF LoadRescheduled, Rescheduling, Loading
  <2>2. PICK next \in Nat : next = NextRunAt(loop.snap[t], loop.at)
    BY <2>1, NextRunAtNat
  <2>3. /\ Exists(t) /\ task[t].version = loop.snap[t].version
        /\ task' = [task EXCEPT ![t] = Rescheduled(task[t], next)]
    BY <2>1, <2>2 DEF UpdateNextRun, UpdateNextRunMatches
  <2>4. /\ task[t] \in TaskRow /\ ParkedRow(task[t]) /\ task[t].enabled
        /\ task[t].next = loop.snap[t].next
    BY <1>1, <2>1, <2>3, ExistingRow DEF RowsParked, SnapsKnow, SnapKnows, SameDefinition
  <2>5. RowsMoved
    BY <1>1, <2>3, <2>4, RescheduledRow, RescheduledParked, OneRowMoves
  <2>6. next > task[t].next /\ task[t].next \in Nat
    BY <2>4, <2>1, <2>2, NextRunAtLater DEF ParkedRow, TaskRow
  <2>7. Carried(task[t], Rescheduled(task[t], next))
    BY <2>4, NullAssumption, <2>6 DEF Rescheduled, TaskRow, Carried
  <2>8. RowsCarried
    BY <1>1, <2>3, <2>7, OneRowCarried
  <2>9. QED
    BY <2>5, <2>8 DEF StepMoves
<1>4. CASE task' = task
  BY <1>1, <1>4, NoRowMoves, NoRowCarried DEF StepMoves
<1>5. QED
  BY <1>2, <1>3, <1>4 DEF LoopStep, ReconcileList, Wake, DrainDirty, Refresh, DispatchEnds,
     ReloadDirty, LoadLocked, LoadIndexed, LoadOutdated, DispatchParked, DispatchStale,
     DispatchSent, storeVars

(* The workers.                                                            *)
LEMMA WorkerMoves ==
  ASSUME IInv, ParkedInv, IInv', NEW w \in Workers, WorkerStep(w)
  PROVE  StepMoves
<1>1. /\ StoreInv /\ StoreTypeOK /\ RowsParked /\ WorkersKnow /\ now \in Nat
  BY DEF IInv, StoreInv, StoreTypeOK, ParkedInv
<1>2. CASE Claim(w)
  <2>1. PICK t \in Tasks : t = worker[w].task
    BY <1>2, ReturnedWorker DEF Claim, HasSlot, Busy
  <2>2. /\ worker[w].trigger \in {"schedule", "manual"} /\ epoch \in Nat \ {0}
        /\ BeginRun(t, worker[w].trigger, worker[w].version, epoch)
    BY <1>2, <2>1, ReturnedWorker DEF WorkerRow, Claim, HasSlot, Busy
  <2>3. RowsMoved /\ Exists(t)
    BY <1>1, <2>2, BeginRunMoves
  <2>4. task[t] \in TaskRow
    BY <1>1, <2>3, ExistingRow
  <2>5. task' = [task EXCEPT ![t] = Claimed(RecoveredTasks({t})[t], epoch, runSeq + 1)]
    BY <2>2 DEF BeginRun
  <2>6. RecoveredTasks({t})[t] = task[t] \/ RecoveredTasks({t})[t] = Recovered(task[t])
    BY DEF RecoveredTasks
  <2>7. Carried(task[t], Claimed(RecoveredTasks({t})[t], epoch, runSeq + 1))
    BY <1>1, <2>4, <2>6, CarriedRow
  <2>8. RowsCarried
    BY <1>1, <2>5, <2>7, OneRowCarried
  <2>9. QED
    BY <2>3, <2>8 DEF StepMoves
<1>3. CASE ClaimRefused(w)
  BY <1>3, ReturnedWorker, <1>1, RecoveryMoves, RecoveryCarried DEF ClaimRefused, HasSlot, Busy,
     BeginRunRefused, StepMoves
<1>4. CASE Finish(w)
  <2>1. PICK t \in Tasks : t = worker[w].task
    BY <1>4, ReturnedWorker DEF Finish, Busy
  <2>2. /\ epoch \in Nat \ {0} /\ worker[w].run \in RunIds
        /\ run[worker[w].run] # Null =>
             run[worker[w].run].task = t /\ run[worker[w].run].runner = epoch
        /\ FinishRun(t, worker[w].run, worker[w].version, epoch)
        /\ worker[w].pc = "running"
    BY <1>4, <2>1, ReturnedWorker DEF Finish, Busy, IInv, WorkersOwn, Owns
  <2>3. RowsMoved
    BY <1>1, <2>1, <2>2, FinishMoves DEF WorkersKnow, WorkerKnows
  <2>4. \/ task' = task
        \/ Exists(t) /\ task' = [task EXCEPT ![t] = Finished(task[t])]
        \/ Exists(t) /\ task' = [task EXCEPT ![t] = Released(task[t])]
    BY <2>2 DEF FinishRun
  <2>5. Exists(t) => task[t] \in TaskRow
    BY <1>1, ExistingRow
  <2>6. RowsCarried
    BY <1>1, <2>4, <2>5, CarriedRow, OneRowCarried, NoRowCarried
  <2>7. QED
    BY <2>3, <2>6 DEF StepMoves
<1>5. CASE task' = task
  BY <1>1, <1>5, NoRowMoves, NoRowCarried DEF StepMoves
<1>6. QED
  BY <1>2, <1>3, <1>4, <1>5 DEF WorkerStep, TakeDispatch, TakeManual, ReloadAfterRun, storeVars

(* The service.                                                            *)
LEMMA ServiceMoves ==
  ASSUME IInv, ParkedInv, IInv', ServiceStep
  PROVE  StepMoves
<1>1. /\ StoreInv /\ StoreTypeOK /\ RowsParked /\ now \in Nat /\ spent \in Budget
      /\ toggle # Null => spent.edits > 0
  BY DEF IInv, MemTypeOK, StoreInv, StoreTypeOK, ParkedInv, ToggleKnows
<1>2. Edit => spent'.edits # 0
  BY <1>1, Budgets
<1>3. CASE SetEnabledWrite
  <2>1. PICK t \in Tasks, enabled \in BOOLEAN, next \in Nat \cup {Null} :
          SetEnabledRow(t, enabled, next) /\ (enabled => next # Null)
    BY <1>3 DEF IInv, MemTypeOK, ToggleRow, SetEnabledWrite, ParkedInv, ToggleKnows
  <2>2. spent'.edits # 0
    BY <1>1, <1>3, BudgetAssumption DEF SetEnabledWrite, Budget
  <2>3. CASE Exists(t)
    <3>1. task[t] \in TaskRow /\ ParkedRow(task[t])
      BY <1>1, <2>3, ExistingRow DEF RowsParked
    <3>2. RowsMoved
      BY <1>1, <2>1, <2>3, <3>1, ToggledRow, ToggledParked, OneRowMoves DEF SetEnabledRow
    <3>3. QED
      BY <2>2, <3>2 DEF StepMoves
  <2>4. CASE ~Exists(t)
    BY <1>1, <2>1, <2>2, <2>4, NoRowMoves DEF SetEnabledRow, StepMoves
  <2>5. QED
    BY <2>3, <2>4
<1>4. ASSUME NEW t \in Tasks, NEW enabled \in BOOLEAN, NEW sched \in Schedules,
             NEW missed \in Policies, Create(t, enabled, sched, missed)
      PROVE  StepMoves
  BY <1>1, <1>4, CreateMoves, OneRowCarried DEF Create, CreateRow, StepMoves
<1>5. ASSUME NEW t \in Tasks, NEW enabled \in BOOLEAN, NEW sched \in Schedules,
             NEW missed \in Policies, Update(t, enabled, sched, missed)
      PROVE  StepMoves
  <2>1. task[t] \in TaskRow /\ ParkedRow(task[t]) /\ Exists(t)
    BY <1>1, <1>5, ExistingRow DEF Update, UpdateRow, RowsParked
  <2>2. RowsMoved
    BY <1>1, <1>5, <2>1, EditedRow, EditedParked, OneRowMoves DEF Update, UpdateRow
  <2>3. QED
    BY <1>2, <1>5, <2>2 DEF Update, StepMoves
<1>6. ASSUME NEW t \in Tasks, Delete(t)
      PROVE  StepMoves
  BY <1>1, <1>2, <1>6, DeleteMoves DEF Delete, StepMoves
<1>7. CASE task' = task
  BY <1>1, <1>7, NoRowMoves, NoRowCarried DEF StepMoves
<1>8. QED
  BY <1>3, <1>4, <1>5, <1>6, <1>7
  DEF ServiceStep, SetEnabledRead, ServiceReload, RunNow, storeVars

(* All of them.                                                            *)
LEMMA NextMoves ==
  ASSUME IInv, ParkedInv, IInv', [Next]_vars
  PROVE  StepMoves
<1>1. StoreInv /\ RowsParked
  BY DEF IInv, ParkedInv
<1>2. CASE task' = task
  BY <1>1, <1>2, NoRowMoves, NoRowCarried DEF StepMoves
<1>3. CASE DbFault \/ Boot \/ Crash \/ Clock \/ (\E r \in RunIds : Prune(r)) \/ UNCHANGED vars
  BY <1>2, <1>3 DEF DbFault, Boot, Crash, Clock, Tick, Prune, PruneRun, ReconcileFails,
     RefreshFails, ReloadDirtyFails, LoadFails, DispatchFails, ClaimFails, FinishFails,
     vars, storeVars
<1>4. QED
  BY <1>3, LoopMoves, WorkerMoves, ServiceMoves DEF Next

-----------------------------------------------------------------------------
(* What the index, the queue and a waiting worker hold of a task with the  *)
(* skip policy is a firing after the start, or a version the row has left. *)

AfterBoot(t) ==
  spent.edits = 0 /\ Exists(t) /\ task[t].missed = "skip" =>
    task[t].next # Null /\ task[t].next >= bootAt

JobKnows(t, version) ==
  /\ version >= 1 /\ task[t] # Null
  /\ Exists(t) =>
       /\ version <= task[t].version
       /\ version = task[t].version => AfterBoot(t)

BootIsPast  == phase # "down" => bootAt <= now
DownIsEmpty == phase = "down" => heap = NoRows /\ queue = <<>>
HeapKnows   == \A t \in Tasks : heap[t] # Null => JobKnows(t, heap[t].version)
QueueKnows  == \A i \in 1..Len(queue) : JobKnows(queue[i].task, queue[i].version)

WaiterKnows(w) ==
  worker[w].pc = "wait" /\ worker[w].trigger = "schedule" =>
    JobKnows(worker[w].task, worker[w].version)

WaitersKnow == \A w \in Workers : WaiterKnows(w)

SnapsAreFresh ==
  /\ loop.pc = "list" => loop.at >= bootAt
  /\ \A t \in Tasks : loop.snap[t] # Null => loop.at >= bootAt /\ loop.snap[t].version >= 1

RefreshedIsLater ==
  loop.refresh # Null => task[loop.refresh] # Null /\ AfterBoot(loop.refresh)

SkipInv ==
  /\ BootIsPast /\ DownIsEmpty
  /\ HeapKnows /\ QueueKnows /\ WaitersKnow
  /\ SnapsAreFresh /\ RefreshedIsLater

(* What is known of a version stays known.                                 *)
LEMMA JobKnowsOn ==
  ASSUME StoreInv, StoreInv', RowsMoved, NEW t \in Tasks, NEW version \in Nat,
         JobKnows(t, version), bootAt' = bootAt, spent'.edits = 0 => spent.edits = 0
  PROVE  JobKnows(t, version)'
<1>1. version >= 1 /\ task'[t] # Null
  BY DEF JobKnows, RowsMoved
<1>2. ASSUME Exists(t)'
      PROVE  version <= task'[t].version /\ (version = task'[t].version => AfterBoot(t)')
  <2>1. Exists(t) /\ Moved(task[t], task'[t])
    BY <1>2 DEF JobKnows, RowsMoved
  <2>2. task[t] \in TaskRow /\ task'[t] \in TaskRow
    BY <1>2, <2>1, ExistingRow, AbsentAssumption DEF StoreInv, StoreTypeOK, Exists
  <2>3. task[t].version \in Nat /\ task'[t].version \in Nat
    BY <2>2 DEF TaskRow
  <2>4. version <= task[t].version /\ (version = task[t].version => AfterBoot(t))
    BY <2>1 DEF JobKnows
  <2>5. version <= task'[t].version
    BY <2>1, <2>3, <2>4 DEF Moved
  <2>6. ASSUME version = task'[t].version
        PROVE  AfterBoot(t)'
    BY <2>1, <2>3, <2>4, <2>6 DEF Moved, SameDefinition, AfterBoot
  <2>7. QED
    BY <2>5, <2>6
<1>3. QED
  BY <1>1, <1>2 DEF JobKnows

(* So does that a rescheduled task's firing is after the start.            *)
LEMMA AfterBootOn ==
  ASSUME StoreInv, StoreInv', StepMoves, NEW t \in Tasks, task[t] # Null, AfterBoot(t),
         bootAt' = bootAt, bootAt \in Nat, bootAt <= now, spent'.edits = 0 => spent.edits = 0
  PROVE  AfterBoot(t)'
<1> SUFFICES ASSUME spent'.edits = 0, Exists(t)', task'[t].missed = "skip"
             PROVE  task'[t].next # Null /\ task'[t].next >= bootAt
  BY DEF AfterBoot
<1>1. Exists(t) /\ Carried(task[t], task'[t])
  BY DEF StepMoves, RowsMoved, RowsCarried
<1>2. task[t] \in TaskRow /\ task'[t] \in TaskRow /\ now \in Nat
  BY <1>1, ExistingRow, AbsentAssumption DEF StoreInv, StoreTypeOK, Exists
<1>3. task[t].next # Null /\ task[t].next >= bootAt /\ task'[t].next # Null
  BY <1>1 DEF AfterBoot, Carried
<1>4. task[t].next \in Nat /\ task'[t].next \in Nat
  BY <1>2, <1>3 DEF TaskRow
<1>5. QED
  BY <1>1, <1>2, <1>3, <1>4 DEF Carried

(* A step that starts no process keeps what is known, if what it indexes,  *)
(* queues or reads is known.                                               *)
LEMMA SkipsOn ==
  ASSUME IInv, IInv', SkipInv, StepMoves, UNCHANGED bootAt, now' >= now,
         spent'.edits = 0 => spent.edits = 0,
         phase' = "down" => DownIsEmpty', phase' # "down" => phase # "down",
         \A t \in Tasks : heap'[t] = heap[t] \/ heap'[t] = Null \/ JobKnows(t, heap[t].version)',
         \/ queue' = queue \/ queue' = <<>>
         \/ queue # <<>> /\ queue' = Tail(queue)
         \/ \E t \in Tasks, version \in Nat :
              queue' = Append(queue, [task |-> t, version |-> version]) /\ JobKnows(t, version)',
         \A w \in Workers : worker'[w] = worker[w] \/ worker'[w].pc # "wait" \/ WaiterKnows(w)',
         loop'.pc = "list" => loop'.at >= bootAt,
         \A t \in Tasks :
           \/ loop'.snap[t] = Null
           \/ loop'.snap[t] = loop.snap[t] /\ loop'.at = loop.at
           \/ loop'.at >= bootAt /\ loop'.snap[t].version >= 1,
         loop'.refresh = Null \/ loop'.refresh = loop.refresh \/ RefreshedIsLater'
  PROVE  SkipInv'
<1>1. /\ StoreInv /\ StoreInv' /\ bootAt \in Nat /\ now \in Nat /\ now' \in Nat /\ RowsMoved
      /\ heap \in [Tasks -> HeapItem \cup {Null}] /\ queue \in Seq(Job)
      /\ worker \in [Workers -> WorkerRow] /\ loop \in LoopRow
  BY DEF IInv, StoreInv, StoreTypeOK, MemTypeOK, StepMoves
<1>2. BootIsPast' /\ DownIsEmpty'
  BY <1>1 DEF SkipInv, BootIsPast, DownIsEmpty
<1>3. HeapKnows'
  BY <1>1, JobKnowsOn DEF HeapKnows, HeapItem, SkipInv
<1>4. QueueKnows'
  <2>1. \A t \in Tasks, version \in Nat : JobKnows(t, version) => JobKnows(t, version)'
    BY <1>1, JobKnowsOn
  <2>2. \A i \in 1..Len(queue) : /\ queue[i].task \in Tasks /\ queue[i].version \in Nat
    <3>1. \A i \in 1..Len(queue) : queue[i] \in Job
      BY <1>1
    <3>2. QED
      BY <3>1 DEF Job
  <2>3. ASSUME NEW i \in 1..Len(queue')
        PROVE  \E t \in Tasks, version \in Nat :
                 t = queue'[i].task /\ version = queue'[i].version /\ JobKnows(t, version)'
    <3>1. ASSUME NEW j \in 1..Len(queue), queue'[i] = queue[j]
          PROVE  \E t \in Tasks, version \in Nat :
                   t = queue'[i].task /\ version = queue'[i].version /\ JobKnows(t, version)'
      BY <2>2, <2>1, <3>1 DEF SkipInv, QueueKnows
    <3>2. CASE queue' = queue
      BY <3>1, <3>2
    <3>3. CASE queue' = <<>>
      BY <3>3
    <3>4. CASE queue # <<>> /\ queue' = Tail(queue)
      BY <1>1, <3>4, <3>1
    <3>5. ASSUME NEW t \in Tasks, NEW version \in Nat,
                 queue' = Append(queue, [task |-> t, version |-> version]), JobKnows(t, version)'
          PROVE  \E u \in Tasks, v \in Nat :
                   u = queue'[i].task /\ v = queue'[i].version /\ JobKnows(u, v)'
      BY <1>1, <3>5, <3>1
    <3>6. QED
      BY <3>2, <3>3, <3>4, <3>5
  <2>4. QED
    BY <2>3 DEF QueueKnows
<1>5. WaitersKnow'
  BY <1>1, JobKnowsOn DEF WaitersKnow, WaiterKnows, IInv, WorkersOwn, Owns, Busy, WorkerRow,
     SkipInv
<1>6. SnapsAreFresh'
  BY DEF SkipInv, SnapsAreFresh
<1>7. RefreshedIsLater'
  BY <1>1, NullAssumption, AfterBootOn DEF RefreshedIsLater, LoopRow, SkipInv, IInv, LoopRests,
     IdleLoop, BootIsPast, RowsMoved
<1>8. QED
  BY <1>2, <1>3, <1>4, <1>5, <1>6, <1>7 DEF SkipInv

(* The loop's other local variables in what its steps write.               *)
LEMMA LoopFields ==
  ASSUME loop \in LoopRow, NEW t \in Tasks, NEW at, NEW row
  PROVE  /\ [Loaded[t] EXCEPT !.refresh = t].at = loop.at
         /\ [Loaded[t] EXCEPT !.refresh = t].pc = loop.pc
         /\ [Loaded[t] EXCEPT !.refresh = t].refresh = t
         /\ [Loaded[t] EXCEPT !.refresh = t].todo = loop.todo
         /\ [loop EXCEPT !.todo = @ \ {t}].at = loop.at
         /\ [loop EXCEPT !.todo = @ \ {t}].pc = loop.pc
         /\ [loop EXCEPT !.todo = @ \ {t}].refresh = loop.refresh
         /\ [loop EXCEPT !.todo = @ \ {t}].todo = loop.todo \ {t}
         /\ [loop EXCEPT !.todo = @ \ {t}, !.snap[t] = row, !.at = at].at = at
         /\ [loop EXCEPT !.todo = @ \ {t}, !.snap[t] = row, !.at = at].pc = loop.pc
         /\ [loop EXCEPT !.todo = @ \ {t}, !.snap[t] = row, !.at = at].refresh = loop.refresh
         /\ [loop EXCEPT !.todo = @ \ {t}, !.snap[t] = row, !.at = at].todo = loop.todo \ {t}
         /\ [DuePass EXCEPT !.at = at, !.snap[t] = row].at = at
         /\ [DuePass EXCEPT !.at = at, !.snap[t] = row].pc = "due"
         /\ [DuePass EXCEPT !.at = at, !.snap[t] = row].refresh = Null
         /\ [DuePass EXCEPT !.at = at, !.snap[t] = row].todo = {}
         /\ IdleLoop.pc = "idle" /\ IdleLoop.refresh = Null /\ IdleLoop.todo = {}
         /\ DuePass.pc = "due" /\ DuePass.refresh = Null /\ DuePass.todo = {}
BY DEF Loaded, LoopRow, DuePass, IdleLoop

(* What no step of the loop touches.                                       *)
LEMMA LoopAround ==
  ASSUME IInv, LoopStep
  PROVE  /\ UNCHANGED <<now, epoch, bootAt, worker, pending, spent, runSeq>>
         /\ phase # "down" /\ (phase' = phase \/ phase' = "up")
<1>1. CASE Reconcile \/ ReconcileList \/ Wake \/ DrainDirty \/ Refresh \/ DispatchEnds
  <2>1. phase # "down"
    BY <1>1, NullAssumption DEF IInv, LoopRests, IdleLoop, Reconcile, ReconcileList, Wake,
       DrainDirty, Refresh, DispatchEnds
  <2>2. QED
    BY <1>1, <2>1 DEF Reconcile, ReconcileList, Wake, DrainDirty, Refresh, DispatchEnds,
       MarkExpiredRunningAbandoned, storeVars, aroundLoop
<1>2. ASSUME NEW t \in Tasks,
             \/ ReloadDirty(t) \/ LoadLocked(t) \/ LoadIndexed(t) \/ LoadOutdated(t)
             \/ LoadRescheduled(t)
             \/ DispatchParked(t) \/ DispatchStale(t) \/ DispatchSent(t)
      PROVE  /\ UNCHANGED <<now, epoch, bootAt, worker, pending, spent, runSeq>>
             /\ phase # "down" /\ (phase' = phase \/ phase' = "up")
  <2>1. phase # "down"
    BY <1>2 DEF IInv, LoopRests, IdleLoop, ReloadDirty, LoadLocked, LoadIndexed,
       LoadOutdated, LoadRescheduled, Rescheduling, Loading, Dispatching, DispatchParked,
       DispatchStale, DispatchSent
  <2>2. QED
    BY <1>2, <2>1 DEF ReloadDirty, LoadLocked, LoadIndexed, LoadOutdated, LoadRescheduled,
       UpdateNextRun, DispatchParked, DispatchStale, DispatchSent, storeVars, aroundLoop
<1>3. QED
  BY <1>1, <1>2 DEF LoopStep

(* SkipsOn for a step of the loop.                                         *)
LEMMA LoopSkipsOn ==
  ASSUME IInv, ParkedInv, IInv', SkipInv, LoopStep,
         \A t \in Tasks : heap'[t] = heap[t] \/ heap'[t] = Null \/ JobKnows(t, heap[t].version)',
         queue' = queue \/ \E t \in Tasks, version \in Nat :
           queue' = Append(queue, [task |-> t, version |-> version]) /\ JobKnows(t, version)',
         loop'.pc = "list" => loop'.at >= bootAt,
         \A t \in Tasks :
           \/ loop'.snap[t] = Null
           \/ loop'.snap[t] = loop.snap[t] /\ loop'.at = loop.at
           \/ loop'.at >= bootAt /\ loop'.snap[t].version >= 1,
         loop'.refresh = Null \/ loop'.refresh = loop.refresh \/ RefreshedIsLater'
  PROVE  SkipInv'
BY LoopAround, LoopMoves, NowStays, SkipsOn

(* loadTask: a firing that stands is in the future, or the task makes up   *)
(* for it; one that moves, moves into the future.                          *)
LEMMA LoadSkips ==
  ASSUME IInv, ParkedInv, IInv', SkipInv, NEW t \in Tasks,
         LoadIndexed(t) \/ LoadRescheduled(t)
  PROVE  SkipInv'
<1>1. /\ loop.snap[t] \in TaskRow /\ loop.at \in Nat /\ loop.snap[t] # Null
      /\ SnapKnows(t) /\ RowsParked /\ loop \in LoopRow /\ bootAt \in Nat
      /\ heap \in [Tasks -> HeapItem \cup {Null}] /\ UNCHANGED <<bootAt, spent>> /\ StoreInv
      /\ loop.snap \in [Tasks -> TaskRow \cup {Null}]
  BY LoadingRow DEF LoadIndexed, LoadRescheduled, Rescheduling, Loading, ParkedInv, SnapsKnow,
     IInv, MemTypeOK, aroundLoop, LoopRow
<1>2. loop.at >= bootAt /\ loop.snap[t].version >= 1
  BY <1>1 DEF SkipInv, SnapsAreFresh
<1>3. LoopStep
  BY DEF LoopStep
<1>4. \A u \in Tasks : Loaded[t].snap[u] = loop.snap[u] \/ Loaded[t].snap[u] = Null
  BY <1>1, LoopSnaps
<1>5. loop.pc # "list"
  BY DEF LoadIndexed, LoadRescheduled, Rescheduling, Loading
<1>6. CASE LoadIndexed(t)
  <2>1. /\ UNCHANGED <<task, queue>> /\ loop' = Loaded[t]
        /\ heap' = [heap EXCEPT ![t] = [next |-> loop.snap[t].next, version |-> loop.snap[t].version]]
        /\ NextRunAt(loop.snap[t], loop.at) = loop.snap[t].next
    BY <1>6 DEF LoadIndexed, Upsert, storeVars
  <2>2. JobKnows(t, loop.snap[t].version)
    <3>1. task[t] # Null /\ (Exists(t) => loop.snap[t].version <= task[t].version)
      BY <1>1 DEF SnapKnows
    <3>2. ASSUME Exists(t), loop.snap[t].version = task[t].version, task[t].missed = "skip"
          PROVE  task[t].next # Null /\ task[t].next >= bootAt
      <4>1. SameDefinition(task[t], loop.snap[t]) /\ ParkedRow(task[t]) /\ loop.snap[t].enabled
        BY <1>1, <3>2 DEF SnapKnows, RowsParked
      <4>2. /\ loop.snap[t].next = task[t].next /\ loop.snap[t].missed = "skip"
            /\ task[t].next # Null
        BY <3>2, <4>1 DEF SameDefinition, ParkedRow
      <4>3. loop.snap[t].next > loop.at
        BY <2>1, <4>2, <1>1, NextFireLater DEF NextRunAt, DueAt, TaskRow
      <4>4. loop.snap[t].next \in Nat
        BY <1>1, <4>2 DEF TaskRow
      <4>5. QED
        BY <1>1, <1>2, <4>2, <4>3, <4>4
    <3>3. QED
      BY <1>2, <3>1, <3>2 DEF JobKnows, AfterBoot
  <2>3. PICK version \in Nat : version = loop.snap[t].version
    BY <1>1 DEF TaskRow
  <2>4. JobKnows(t, version)'
    BY <1>1, <2>1, <2>2, <2>3 DEF JobKnows, AfterBoot, Exists
  <2>5. \A u \in Tasks : heap'[u] = heap[u] \/ JobKnows(u, heap[u].version)'
    BY <1>1, <2>1, <2>3, <2>4 DEF JobKnows
  <2>6. loop'.at = loop.at /\ loop'.pc = loop.pc /\ loop'.refresh = loop.refresh
    BY <1>1, <2>1, LoopSnaps
  <2>7. QED
    BY <1>3, <1>4, <1>5, <2>1, <2>5, <2>6, LoopSkipsOn
<1>7. CASE LoadRescheduled(t)
  <2>1. /\ UNCHANGED <<heap, queue>> /\ loop' = [Loaded[t] EXCEPT !.refresh = t]
        /\ UpdateNextRun(t, loop.snap[t].version, NextRunAt(loop.snap[t], loop.at))
        /\ NextRunAt(loop.snap[t], loop.at) # loop.snap[t].next
    BY <1>7 DEF LoadRescheduled, Rescheduling
  <2>2. PICK next \in Nat : next = NextRunAt(loop.snap[t], loop.at)
    BY <1>1, NextRunAtNat
  <2>3. /\ Exists(t) /\ task[t].version = loop.snap[t].version
        /\ task' = [task EXCEPT ![t] = Rescheduled(task[t], next)]
    BY <2>1, <2>2 DEF UpdateNextRun, UpdateNextRunMatches
  <2>4. /\ task[t] \in TaskRow /\ ParkedRow(task[t]) /\ task[t].enabled
        /\ task[t].next = loop.snap[t].next
    BY <1>1, <2>3, ExistingRow DEF RowsParked, SnapKnows, SameDefinition, StoreInv
  <2>5. next > loop.at
    BY <2>4, <1>1, <2>1, <2>2, NextRunAtLater DEF ParkedRow
  <2>6. task'[t].next = next /\ task'[t] # Null
    <3>1. Rescheduled(task[t], next) \in TaskRow /\ Rescheduled(task[t], next).next = next
      BY <2>4, RescheduledRow DEF Rescheduled, TaskRow
    <3>2. QED
      BY <1>1, <2>3, <3>1, AbsentAssumption DEF StoreInv, StoreTypeOK
  <2>7. /\ loop'.at = loop.at /\ loop'.pc = loop.pc /\ loop'.refresh = t
        /\ loop'.snap = Loaded[t].snap
    BY <1>1, <2>1, LoopFields, LoopSnaps, LoopReads
  <2>8. RefreshedIsLater'
    BY <1>1, <1>2, <2>5, <2>6, NullAssumption, <2>7 DEF AfterBoot, RefreshedIsLater, Exists
  <2>9. QED
    BY <1>3, <1>4, <1>5, <2>1, <2>7, <2>8, LoopSkipsOn
<1>8. QED
  BY <1>6, <1>7

(* The other steps of the loop.                                            *)
LEMMA LoopSkips ==
  ASSUME IInv, ParkedInv, IInv', SkipInv, LoopStep
  PROVE  SkipInv'
<1>1. /\ loop \in LoopRow /\ heap \in [Tasks -> HeapItem \cup {Null}]
      /\ loop.snap \in [Tasks -> TaskRow \cup {Null}]
      /\ now \in Nat /\ bootAt \in Nat /\ StoreTypeOK /\ RowsParked /\ HeapKnows
  BY DEF IInv, MemTypeOK, LoopRow, StoreInv, StoreTypeOK, ParkedInv, SkipInv
<1>2. UNCHANGED <<now, bootAt, worker, spent>> /\ phase # "down" /\ now >= bootAt
  BY LoopAround DEF SkipInv, BootIsPast
<1>3. \A t \in Tasks : Exists(t) => task[t] \in TaskRow /\ task[t].version >= 1
  BY <1>1, ExistingRow DEF RowsParked, ParkedRow
<1>4. CASE Reconcile
  BY <1>1, <1>4, <1>2, LoopSkipsOn DEF Reconcile, LoopRow, SkipInv, SnapsAreFresh
<1>5. CASE ReconcileList
  BY <1>1, <1>5, <1>3, LoopSkipsOn DEF ReconcileList, LoopRow, SkipInv, SnapsAreFresh
<1>6. CASE Wake \/ DrainDirty \/ DispatchEnds
  BY <1>1, <1>6, LoopSkipsOn DEF Wake, DrainDirty, DispatchEnds, LoopRow, IdleLoop, NoRows
<1>7. CASE Refresh
  <2>1. PICK t \in Tasks : t = loop.refresh
    BY <1>1, <1>7 DEF Refresh, LoopRow
  <2>2. /\ loop'.snap = loop.snap /\ loop'.pc = loop.pc /\ loop'.at = loop.at
        /\ loop'.refresh = Null /\ UNCHANGED <<task, queue>>
    BY <1>1, <1>7 DEF Refresh, LoopRow, storeVars
  <2>3. \/ heap' = heap \/ heap' = [heap EXCEPT ![t] = Null]
        \/ Exists(t) /\ heap' = [heap EXCEPT ![t] = [next |-> task[t].next, version |-> task[t].version]]
    BY <1>7, <2>1 DEF Refresh, Remove, Upsert
  <2>4. ASSUME Exists(t)
        PROVE  JobKnows(t, task[t].version)'
    BY <2>1, NullAssumption, <1>3, <2>4, <1>2, <2>2 DEF SkipInv, RefreshedIsLater, TaskRow,
       JobKnows, AfterBoot, Exists
  <2>5. \A u \in Tasks : heap'[u] = heap[u] \/ heap'[u] = Null \/ JobKnows(u, heap[u].version)'
    BY <1>1, <2>3, <2>2, <2>4 DEF JobKnows
  <2>6. \A u \in Tasks : loop'.snap[u] = loop.snap[u] /\ loop'.at = loop.at
    BY <2>2
  <2>7. loop'.pc = "list" => loop'.at >= bootAt
    BY <2>2 DEF SkipInv, SnapsAreFresh
  <2>8. QED
    BY <2>2, <2>5, <2>6, <2>7, LoopSkipsOn
<1>8. ASSUME NEW t \in Tasks, ReloadDirty(t) \/ DispatchStale(t)
      PROVE  SkipInv'
  <2>1. UNCHANGED queue /\ \A u \in Tasks : heap'[u] = heap[u] \/ heap'[u] = Null
    BY <1>1, <1>8 DEF ReloadDirty, DispatchStale, Remove
  <2>2. \/ loop' = [loop EXCEPT !.todo = @ \ {t}] /\ loop.pc = "work"
        \/ /\ Exists(t) /\ loop.pc = "work"
           /\ loop' = [loop EXCEPT !.todo = @ \ {t}, !.snap[t] = task[t], !.at = now]
           /\ NothingToLoad
        \/ /\ Exists(t)
           /\ loop' = [DuePass EXCEPT !.at = now, !.snap[t] = task[t]]
    BY <1>8 DEF ReloadDirty, DispatchStale, Runnable
  <2>3. CASE loop' = [loop EXCEPT !.todo = @ \ {t}] /\ loop.pc = "work"
    BY <1>1, <2>3, LoopReads, LoopFields, <2>1, LoopSkipsOn
  <2>4. CASE /\ Exists(t) /\ loop.pc = "work"
             /\ loop' = [loop EXCEPT !.todo = @ \ {t}, !.snap[t] = task[t], !.at = now]
             /\ NothingToLoad
    <3>1. /\ loop'.snap = [loop.snap EXCEPT ![t] = task[t]] /\ loop'.at = now
          /\ loop'.pc = "work" /\ loop'.refresh = loop.refresh
      BY <1>1, <2>4, LoopReads, LoopFields
    <3>2. \A u \in Tasks : loop'.snap[u] = Null \/ loop'.snap[u].version >= 1
      BY <1>1, <1>3, <2>4, <3>1 DEF NothingToLoad, NoRows
    <3>3. loop'.at >= bootAt
      BY <1>2, <3>1
    <3>4. QED
      BY <2>1, <3>1, <3>2, <3>3, LoopSkipsOn
  <2>5. CASE /\ Exists(t)
             /\ loop' = [DuePass EXCEPT !.at = now, !.snap[t] = task[t]]
    <3>1. /\ loop'.snap = [NoRows EXCEPT ![t] = task[t]] /\ loop'.at = now
          /\ loop'.pc = "due" /\ loop'.refresh = Null
      BY <1>3, <2>5, <1>1, LoopFields DEF DuePass, IdleLoop
    <3>2. \A u \in Tasks : loop'.snap[u] = Null \/ loop'.snap[u].version >= 1
      BY <1>3, <2>5, <3>1 DEF NoRows
    <3>3. loop'.at >= bootAt
      BY <1>2, <3>1
    <3>4. QED
      BY <2>1, <3>1, <3>2, <3>3, LoopSkipsOn
  <2>6. QED
    BY <2>2, <2>3, <2>4, <2>5
<1>9. ASSUME NEW t \in Tasks, LoadLocked(t) \/ LoadOutdated(t)
      PROVE  SkipInv'
  <2>1. /\ UNCHANGED queue /\ loop' = Loaded[t]
        /\ \A u \in Tasks : heap'[u] = heap[u] \/ heap'[u] = Null
    BY <1>1, <1>9 DEF LoadLocked, LoadOutdated, Remove
  <2>2. loop.pc # "list"
    BY <1>9 DEF LoadLocked, LoadOutdated, Rescheduling, Loading
  <2>3. /\ loop'.at = loop.at /\ loop'.pc = loop.pc /\ loop'.refresh = loop.refresh
        /\ \A u \in Tasks : loop'.snap[u] = loop.snap[u] \/ loop'.snap[u] = Null
    BY <1>1, <2>1, LoopSnaps
  <2>4. QED
    BY <2>1, <2>2, <2>3, LoopSkipsOn
<1>10. ASSUME NEW t \in Tasks, DispatchParked(t) \/ DispatchSent(t)
       PROVE  SkipInv'
  <2>1. /\ loop' = DuePass /\ UNCHANGED task
        /\ \A u \in Tasks : heap'[u] = heap[u] \/ heap'[u] = Null
    BY <1>1, <1>10 DEF DispatchParked, DispatchSent, Remove, storeVars
  <2>2. \A u \in Tasks : loop'.snap[u] = Null
    BY <1>1, <1>10, <2>1, LoopSnaps DEF NoRows
  <2>3. loop'.pc = "due" /\ loop'.refresh = Null
    BY <1>1, <1>10, <2>1, LoopFields
  <2>4. queue' = queue \/ \E u \in Tasks, version \in Nat :
          queue' = Append(queue, [task |-> u, version |-> version]) /\ JobKnows(u, version)'
    <3>1. CASE DispatchParked(t)
      BY <3>1 DEF DispatchParked
    <3>2. CASE DispatchSent(t)
      <4>1. /\ queue' = Append(queue, [task |-> t, version |-> task[t].version])
            /\ Exists(t) /\ heap[t] # Null /\ task[t].version = heap[t].version
        BY <3>2 DEF DispatchSent, Runnable, Fresh, Dispatching, Due
      <4>2. PICK version \in Nat : version = task[t].version
        BY <1>3, <4>1 DEF TaskRow
      <4>3. JobKnows(t, version)
        BY <1>1, <4>1, <4>2 DEF HeapKnows
      <4>4. JobKnows(t, version)'
        BY <1>2, <2>1, <4>3 DEF JobKnows, AfterBoot, Exists
      <4>5. QED
        BY <4>1, <4>2, <4>4
    <3>3. QED
      BY <1>10, <3>1, <3>2
  <2>5. QED
    BY <2>1, <2>2, <2>3, <2>4, LoopSkipsOn
<1>11. QED
  BY <1>4, <1>5, <1>6, <1>7, <1>8, <1>9, <1>10, LoadSkips DEF LoopStep

(* A step that touches neither the loop nor the index nor the queue.       *)
LEMMA SkipsAround ==
  ASSUME IInv, IInv', SkipInv, StepMoves, UNCHANGED <<bootAt, phase, heap, loop>>,
         now' >= now, spent'.edits = 0 => spent.edits = 0,
         queue' = queue \/ (queue # <<>> /\ queue' = Tail(queue)),
         \A w \in Workers : worker'[w] = worker[w] \/ worker'[w].pc # "wait" \/ WaiterKnows(w)'
  PROVE  SkipInv'
<1>1. phase' = "down" => DownIsEmpty'
  BY DEF SkipInv, DownIsEmpty
<1>2. loop'.pc = "list" => loop'.at >= bootAt
  BY DEF SkipInv, SnapsAreFresh
<1>3. /\ phase' # "down" => phase # "down"
      /\ \A t \in Tasks : heap'[t] = heap[t]
      /\ \A t \in Tasks : loop'.snap[t] = loop.snap[t] /\ loop'.at = loop.at
      /\ loop'.refresh = loop.refresh
      /\ bootAt' = bootAt
  OBVIOUS
<1>4. QED
  BY <1>1, <1>2, <1>3, SkipsOn

(* A worker waits with what the queue held.                                *)
LEMMA WorkerSkips ==
  ASSUME IInv, ParkedInv, IInv', SkipInv, NEW w \in Workers, WorkerStep(w)
  PROVE  SkipInv'
<1>1. /\ StepMoves /\ worker \in [Workers -> WorkerRow] /\ queue \in Seq(Job) /\ now \in Nat
  BY WorkerMoves DEF IInv, MemTypeOK, StoreInv, StoreTypeOK
<1>2. UNCHANGED <<now, bootAt, phase, heap, loop, spent>>
  BY DEF WorkerStep, TakeDispatch, TakeManual, Claim, BeginRun, ClaimRefused, BeginRunRefused,
     Finish, FinishRun, ReloadAfterRun, aroundWorker, storeVars, ReloadTask
<1>3. now' >= now
  BY <1>2, NowStays
<1>4. CASE TakeDispatch(w)
  <2>1. queue # <<>> /\ queue' = Tail(queue) /\ Len(queue) >= 1 /\ task' = task
    BY <1>1, <1>4 DEF TakeDispatch, storeVars
  <2>2. Head(queue) = queue[1] /\ queue[1] \in Job
    BY <1>1, <2>1
  <2>3. PICK t \in Tasks, version \in Nat : t = queue[1].task /\ version = queue[1].version
    BY <2>2 DEF Job
  <2>4. JobKnows(t, version)
    BY <2>1, <2>3 DEF SkipInv, QueueKnows
  <2>5. JobKnows(t, version)'
    BY <1>2, <2>1, <2>4 DEF JobKnows, AfterBoot, Exists
  <2>6. worker'[w].task = t /\ worker'[w].version = version
    BY <1>1, <1>4, <2>2, <2>3 DEF TakeDispatch
  <2>7. WaiterKnows(w)'
    BY <2>5, <2>6 DEF WaiterKnows, JobKnows, AfterBoot, Exists
  <2>8. \A v \in Workers : worker'[v] = worker[v] \/ worker'[v].pc # "wait" \/ WaiterKnows(v)'
    BY <1>1, <1>4, <2>7 DEF TakeDispatch
  <2>9. QED
    BY <1>1, <1>2, <1>3, <2>1, <2>8, SkipsAround
<1>5. CASE ~TakeDispatch(w)
  <2>1. queue' = queue
    BY <1>5 DEF WorkerStep, TakeManual, Claim, ClaimRefused, Finish, ReloadAfterRun, aroundWorker
  <2>2. \A v \in Workers : \/ worker'[v] = worker[v] \/ worker'[v].pc # "wait"
                           \/ worker'[v].trigger # "schedule"
    <3>1. CASE TakeManual(w)
      BY <1>1, <3>1 DEF TakeManual
    <3>2. CASE Claim(w)
      BY <1>1, <3>2 DEF Claim, WorkerRow
    <3>3. CASE RunReturns(w)
      BY <1>1, <3>3 DEF RunReturns, IdleWorker
    <3>4. CASE ReloadAfterRun(w)
      BY <1>1, <3>4 DEF ReloadAfterRun, IdleWorker
    <3>5. QED
      BY <1>5, <3>1, <3>2, <3>3, <3>4 DEF WorkerStep, ClaimRefused, Finish
  <2>3. \A v \in Workers : worker'[v] = worker[v] \/ worker'[v].pc # "wait" \/ WaiterKnows(v)'
    BY <2>2 DEF WaiterKnows
  <2>4. QED
    BY <1>1, <1>2, <1>3, <2>1, <2>3, SkipsAround
<1>6. QED
  BY <1>4, <1>5

(* The service touches the tables and its own queue.                       *)
LEMMA ServiceSkips ==
  ASSUME IInv, ParkedInv, IInv', SkipInv,
         ServiceStep \/ (\E r \in RunIds : Prune(r)) \/ Clock \/ UNCHANGED vars
  PROVE  SkipInv'
<1>1. StepMoves
  BY NextMoves DEF Next
<1>2. now' >= now /\ spent \in Budget
  BY NowStays DEF ServiceStep, SetEnabledWrite, SetEnabledRow, Create, CreateRow, Update, UpdateRow,
     SetEnabledRead, Delete, DeleteRow, ServiceReload, RunNow, Prune, PruneRun, Clock, Tick,
     IInv, StoreInv, StoreTypeOK, MemTypeOK, vars, storeVars
<1>3. UNCHANGED <<bootAt, phase, heap, loop, queue, worker>>
  BY DEF ServiceStep, SetEnabledWrite, Create, Update, SetEnabledRead, Delete, ServiceReload,
     RunNow, Prune, Clock, aroundService, memVars, vars
<1>4. spent'.edits = 0 => spent.edits = 0
  <2>1. spent' = spent \/ Edit
    BY DEF ServiceStep, SetEnabledWrite, Create, Update, SetEnabledRead, Delete, ServiceReload,
       RunNow, Prune, Clock, memVars, vars
  <2>2. spent'.edits # 0 \/ spent' = spent
    BY <1>2, <2>1, Budgets
  <2>3. QED
    BY <2>2
<1>5. QED
  BY <1>1, <1>2, <1>3, <1>4, SkipsAround

(* A failing statement, a start, an end of the process.                    *)
LEMMA FaultSkips ==
  ASSUME IInv, ParkedInv, IInv', SkipInv, DbFault \/ Boot \/ Crash
  PROVE  SkipInv'
<1>1. StepMoves
  BY NextMoves DEF Next
<1>2. /\ loop \in LoopRow /\ spent \in Budget /\ loop.snap \in [Tasks -> TaskRow \cup {Null}]
      /\ worker \in [Workers -> WorkerRow] /\ heap \in [Tasks -> HeapItem \cup {Null}]
      /\ now \in Nat /\ bootAt \in Nat
  BY DEF IInv, MemTypeOK, LoopRow, StoreInv, StoreTypeOK
<1>3. now' >= now /\ (spent'.edits = 0 => spent.edits = 0)
  <2>1. UNCHANGED now
    BY DEF DbFault, Boot, Crash, ReconcileFails, RefreshFails, ReloadDirtyFails, LoadFails,
       DispatchFails, ClaimFails, FinishFails, storeVars
  <2>2. spent'.edits = spent.edits
    BY <1>2, Budgets DEF DbFault, Boot, Crash, ReconcileFails, RefreshFails, ReloadDirtyFails,
       LoadFails, DispatchFails, ClaimFails, FinishFails, Budget
  <2>3. QED
    BY <2>1, <2>2, NowStays
<1>4. CASE Boot
  <2>1. /\ phase = "down" /\ UNCHANGED <<storeVars, heap, queue, worker, loop>>
        /\ phase' = "starting" /\ bootAt' = now /\ now' = now
    BY <1>4 DEF Boot, storeVars
  <2>2. heap = NoRows /\ queue = <<>> /\ loop = IdleLoop
    BY <2>1 DEF SkipInv, DownIsEmpty, IInv, LoopRests
  <2>3. \A w \in Workers : worker[w].pc = "idle"
    BY <2>1 DEF IInv, WorkersOwn, Owns, Busy
  <2>4. BootIsPast' /\ DownIsEmpty'
    BY <1>2, <2>1 DEF BootIsPast, DownIsEmpty
  <2>5. HeapKnows' /\ QueueKnows' /\ WaitersKnow'
    BY <2>1, <2>2, <2>3 DEF HeapKnows, QueueKnows, WaitersKnow, WaiterKnows, NoRows
  <2>6. SnapsAreFresh' /\ RefreshedIsLater'
    BY <2>1, <2>2 DEF SnapsAreFresh, RefreshedIsLater, IdleLoop, NoRows
  <2>7. QED
    BY <2>4, <2>5, <2>6 DEF SkipInv
<1>5. ASSUME MemoryLost
      PROVE  SkipInv'
  <2>1. /\ phase' = "down" /\ heap' = NoRows /\ queue' = <<>> /\ loop' = IdleLoop
        /\ worker' = [w \in Workers |-> IdleWorker]
    BY <1>5 DEF MemoryLost
  <2>2. BootIsPast' /\ DownIsEmpty'
    BY <2>1 DEF BootIsPast, DownIsEmpty
  <2>3. HeapKnows' /\ QueueKnows' /\ WaitersKnow'
    BY <2>1 DEF HeapKnows, QueueKnows, WaitersKnow, WaiterKnows, NoRows, IdleWorker
  <2>4. SnapsAreFresh' /\ RefreshedIsLater'
    BY <2>1 DEF SnapsAreFresh, RefreshedIsLater, IdleLoop, NoRows
  <2>5. QED
    BY <2>2, <2>3, <2>4 DEF SkipInv
<1>6. ASSUME NEW w \in Workers, ClaimFails(w) \/ FinishFails(w)
      PROVE  SkipInv'
  BY <1>6, <1>2, <1>1, <1>3, SkipsAround DEF ClaimFails, FinishFails, aroundWorker, RunReturns,
     IdleWorker
(* The loop goes on without what it meant to read.                         *)
<1>7. ASSUME UNCHANGED <<bootAt, phase, queue, worker>>, phase # "down",
             \A t \in Tasks : heap'[t] = heap[t] \/ heap'[t] = Null,
             loop'.pc # "list", loop'.at = loop.at \/ loop' = DuePass,
             \A t \in Tasks : loop'.snap[t] = loop.snap[t] \/ loop'.snap[t] = Null,
             loop'.refresh = loop.refresh \/ loop'.refresh = Null
      PROVE  SkipInv'
  <2>1. \A t \in Tasks : \/ loop'.snap[t] = Null
                         \/ (loop'.snap[t] = loop.snap[t] /\ loop'.at = loop.at)
    BY <1>7 DEF DuePass, IdleLoop, NoRows
  <2>2. \A w \in Workers : worker'[w] = worker[w]
    BY <1>7
  <2>3. phase' # "down" /\ bootAt' = bootAt /\ queue' = queue
    BY <1>7
  <2>4. QED
    BY <1>1, <1>3, <1>7, <2>1, <2>2, <2>3, SkipsOn
<1>8. CASE ReconcileFails /\ ~MemoryLost
  <2>1. /\ loop' = [loop EXCEPT !.pc = "work"] /\ phase = "up"
        /\ UNCHANGED <<bootAt, phase, heap, queue, worker>>
    BY <1>8 DEF ReconcileFails, aroundLoop
  <2>2. /\ loop'.pc = "work" /\ loop'.at = loop.at /\ loop'.snap = loop.snap
        /\ loop'.refresh = loop.refresh
    BY <1>2, <2>1 DEF LoopRow
  <2>3. QED
    BY <1>7, <2>1, <2>2
<1>9. CASE RefreshFails
  <2>1. /\ loop' = [loop EXCEPT !.refresh = Null] /\ phase # "down"
        /\ UNCHANGED <<bootAt, phase, heap, queue, worker>>
    BY <1>9 DEF RefreshFails, aroundLoop, IInv, LoopRests, IdleLoop
  <2>2. loop'.pc = loop.pc /\ loop'.at = loop.at /\ loop'.snap = loop.snap
        /\ loop'.refresh = Null
    BY <1>2, <2>1 DEF LoopRow
  <2>3. UNCHANGED <<bootAt, phase, queue, worker, heap>> /\ (loop'.pc = "list" => loop'.at >= bootAt)
    BY <2>1, <2>2 DEF SkipInv, SnapsAreFresh
  <2>4. \A t \in Tasks : loop'.snap[t] = loop.snap[t] /\ loop'.at = loop.at /\ heap'[t] = heap[t]
    BY <2>2, <2>3
  <2>5. phase' # "down" /\ bootAt' = bootAt /\ queue' = queue
        /\ \A w \in Workers : worker'[w] = worker[w]
    BY <2>1
  <2>6. QED
    BY <1>1, <1>3, <2>1, <2>2, <2>3, <2>4, <2>5, SkipsOn
<1>10. ASSUME NEW t \in Tasks, ReloadDirtyFails(t)
       PROVE  SkipInv'
  <2>1. /\ loop' = [loop EXCEPT !.todo = @ \ {t}] /\ loop.pc = "work"
        /\ UNCHANGED <<bootAt, phase, heap, queue, worker>>
    BY <1>10 DEF ReloadDirtyFails, aroundLoop
  <2>2. /\ loop'.pc = "work" /\ loop'.at = loop.at /\ loop'.snap = loop.snap
        /\ loop'.refresh = loop.refresh
    BY <1>2, <2>1 DEF LoopRow
  <2>3. phase # "down"
    BY <2>1 DEF IInv, LoopRests, IdleLoop
  <2>4. QED
    BY <1>7, <2>1, <2>2, <2>3
<1>11. ASSUME NEW t \in Tasks, LoadFails(t)
       PROVE  SkipInv'
  <2>1. /\ loop' = Loaded[t] /\ loop.pc # "list" /\ phase # "down"
        /\ UNCHANGED <<bootAt, phase, heap, queue, worker>>
    BY <1>11, LoadingRow DEF LoadFails, Rescheduling, Loading, aroundLoop
  <2>2. /\ loop'.pc = loop.pc /\ loop'.at = loop.at /\ loop'.refresh = loop.refresh
        /\ \A u \in Tasks : loop'.snap[u] = loop.snap[u] \/ loop'.snap[u] = Null
    BY <1>2, <2>1, LoopSnaps
  <2>3. QED
    BY <1>7, <2>1, <2>2
<1>12. ASSUME NEW t \in Tasks, DispatchFails(t)
       PROVE  SkipInv'
  <2>1. /\ loop' = DuePass /\ phase # "down" /\ Remove(t)
        /\ UNCHANGED <<bootAt, phase, queue, worker>>
    BY <1>12 DEF DispatchFails, Dispatching, aroundLoop
  <2>2. loop'.pc = "due" /\ loop'.refresh = Null /\ \A u \in Tasks : loop'.snap[u] = Null
    BY <2>1 DEF DuePass, IdleLoop, NoRows
  <2>3. \A u \in Tasks : heap'[u] = heap[u] \/ heap'[u] = Null
    BY <1>2, <2>1 DEF Remove
  <2>4. QED
    BY <1>7, <2>1, <2>2, <2>3
<1>13. QED
  BY <1>4, <1>5, <1>6, <1>8, <1>9, <1>10, <1>11, <1>12 DEF DbFault, Crash

(* Every step keeps SkipInv.                                               *)
LEMMA NextSkips == IInv /\ ParkedInv /\ SkipInv /\ IInv' /\ [Next]_vars => SkipInv'
BY LoopSkips, WorkerSkips, ServiceSkips, FaultSkips DEF Next

(* SkipInv holds in every reachable state.                                 *)
THEOREM SkipInvariant == Spec => []SkipInv
<1>1. Init => SkipInv
  BY DEF Init, SkipInv, BootIsPast, DownIsEmpty, HeapKnows, QueueKnows, WaitersKnow, WaiterKnows,
     SnapsAreFresh, RefreshedIsLater, IdleLoop, IdleWorker, NoRows
<1>2. IInv /\ ParkedInv /\ SkipInv /\ IInv' /\ [Next]_vars => SkipInv'
  BY NextSkips
<1>3. QED
  BY <1>1, <1>2, Invariant, ParkedInvariant, PTL DEF Spec

(* The claim of a scheduled run is of the version its worker was given.    *)
ClaimSkips ==
  \A t \in Tasks :
    (/\ spent.edits = 0 /\ Exists(t) /\ task[t].missed = "skip"
     /\ runSeq' > runSeq
     /\ run'[runSeq'].task = t /\ run'[runSeq'].trigger = "schedule")
    => task[t].next >= bootAt

(* Only a claim hands out a run.                                           *)
LEMMA OnlyClaimsRun ==
  ASSUME IInv, [Next]_vars, runSeq' # runSeq
  PROVE  \E w \in Workers : Claim(w)
BY LoopAround DEF Next, vars, storeVars, Boot, Crash, WorkerStep, TakeDispatch, TakeManual,
   ClaimRefused, BeginRunRefused, Finish, FinishRun, ReloadAfterRun, ServiceStep, SetEnabledWrite,
   SetEnabledRow, Create, CreateRow, Update, UpdateRow, SetEnabledRead, Delete, DeleteRow,
   ServiceReload, RunNow, DbFault, ReconcileFails, RefreshFails, ReloadDirtyFails, LoadFails,
   DispatchFails, ClaimFails, FinishFails, Prune, PruneRun, Clock, Tick

(* A firing that a task with the skip policy missed while the process was  *)
(* down is never executed, as long as nobody edits.                        *)
THEOREM SkipCorrect == Spec => SkipsWhatItMissed
<1>1. ASSUME IInv, ParkedInv, SkipInv, [Next]_vars
      PROVE  ClaimSkips
  <2> SUFFICES ASSUME NEW t \in Tasks, spent.edits = 0, Exists(t), task[t].missed = "skip",
                      runSeq' > runSeq, run'[runSeq'].task = t,
                      run'[runSeq'].trigger = "schedule"
               PROVE  task[t].next >= bootAt
    BY DEF ClaimSkips
  <2>1. /\ StoreInv /\ StoreTypeOK /\ runSeq \in Nat /\ RowsParked
    BY <1>1 DEF IInv, StoreInv, StoreTypeOK, ParkedInv
  <2>2. runSeq' # runSeq
    BY <2>1
  <2>3. PICK w \in Workers : Claim(w)
    BY <1>1, <2>2, OnlyClaimsRun
  <2>4. PICK u \in Tasks : u = worker[w].task
    BY <1>1, <2>3, ReturnedWorker DEF Claim, HasSlot, Busy
  <2>5. /\ worker[w].trigger \in {"schedule", "manual"} /\ epoch \in Nat \ {0}
        /\ BeginRun(u, worker[w].trigger, worker[w].version, epoch)
    BY <1>1, <2>3, <2>4, ReturnedWorker DEF WorkerRow, Claim, HasSlot, Busy
  <2>6. run'[runSeq'] = StartedRun(u, worker[w].trigger, epoch, RecoveredTasks({u})[u].next)
    BY <2>1, <2>5, BoundAssumption DEF BeginRun, RunIds, RecoveredRuns
  <2>7. u = t /\ worker[w].trigger = "schedule"
    BY <2>6 DEF StartedRun
  <2>8. PICK version \in Nat : version = worker[w].version
    BY <1>1, <2>3, ReturnedWorker DEF WorkerRow, Claim, HasSlot, Busy
  <2>9. JobKnows(t, version)
    BY <1>1, <2>3, <2>4, <2>7, <2>8 DEF SkipInv, WaitersKnow, WaiterKnows, Claim, HasSlot
  <2>10. RecoveredTasks({t})[t].version = version
    BY <2>5, <2>7, <2>8, <2>9 DEF BeginRun, ClaimableAfterRecovery, Claimable, JobKnows
  <2>11. task[t] \in TaskRow
    BY <2>1, ExistingRow
  <2>12. ~Expired(t)
    BY <2>11, <2>9, <2>10 DEF RecoveredTasks, Recovered, TaskRow, JobKnows
  <2>13. version = task[t].version
    BY <2>10, <2>12 DEF RecoveredTasks
  <2>14. QED
    BY <2>9, <2>13 DEF JobKnows, AfterBoot
<1>2. IInv /\ ParkedInv /\ SkipInv /\ [Next]_vars => [ClaimSkips]_vars
  BY <1>1
<1>3. [][ClaimSkips]_vars => SkipsWhatItMissed
  BY DEF ClaimSkips, SkipsWhatItMissed
<1>4. QED
  BY <1>2, <1>3, Invariant, ParkedInvariant, SkipInvariant, PTL DEF Spec
-----------------------------------------------------------------------------
(* NothingForgotten is not inductive by itself: what the loop has read of  *)
(* a row may be dropped when it is loaded.  It is dropped rightly, because *)
(* whoever changes a row after it was read notes the task: in the dirty    *)
(* set, as a call that will reload it or as a worker that will.            *)

Wanted(t) == Exists(t) /\ task[t].enabled /\ ~Locked(t)

Noted(t) ==
  \/ t \in dirty /\ (wake \/ loop.pc \in {"list", "work"})
  \/ t \in pending
  \/ \E w \in Workers : worker[w].task = t

LoopTidy ==
  /\ loop.pc \in {"idle", "list", "due"} => loop.todo = {}
  /\ loop.pc \in {"idle", "list"} => NothingToLoad

IdleIsFree == \A w \in Workers : worker[w].pc = "idle" => worker[w].task = Null

(* What was read is no longer what a wanted row says.                      *)
Outdated(t) ==
  /\ loop.snap[t] # Null /\ Wanted(t)
  /\ RunningOrLocked(loop.snap[t], loop.at) \/ task[t].version # loop.snap[t].version

Watching == phase = "up" \/ (phase = "starting" /\ loop.pc # "idle")

SnapWatched == spent.faults = 0 => \A t \in Tasks : Outdated(t) => Noted(t)

NobodyLost ==
  Watching /\ spent.faults = 0 =>
    \A t \in Tasks : Wanted(t) => Indexed(t) \/ Attended(t)

WatchInv == LoopTidy /\ IdleIsFree /\ SnapWatched /\ NobodyLost

(* A wanted row neither runs nor is locked, and has a firing.              *)
LEMMA WantedRow ==
  ASSUME StoreInv, ParkedInv, NEW t \in Tasks, Wanted(t), NEW at \in Nat
  PROVE  task[t] \in TaskRow /\ ~RunningOrLocked(task[t], at) /\ task[t].next # Null
BY ExistingRow DEF StoreInv, ParkedInv, RowsParked, Wanted, Locked, ParkedRow, RunningOrLocked

(* What is noted is attended to, in the next state.                        *)
LEMMA NotedAttendedNext == ASSUME NEW t \in Tasks, Noted(t)' PROVE Attended(t)'
BY DEF Noted, Attended

(* A step that leaves the loop and the index alone, and notes what it      *)
(* changes.                                                                *)
LEMMA WatchedAround ==
  ASSUME WatchInv, UNCHANGED <<phase, heap, loop>>, spent'.faults = 0 => spent.faults = 0,
         IdleIsFree',
         \A t \in Tasks : task'[t] = task[t] \/ ~Wanted(t)' \/ Noted(t)',
         \A t \in Tasks : Noted(t) => Noted(t)',
         \A t \in Tasks : (\E i \in 1..Len(queue) : queue[i].task = t) =>
           Noted(t)' \/ (\E i \in 1..Len(queue) : queue[i].task = t)'
  PROVE  WatchInv'
<1>1. LoopTidy'
  BY DEF WatchInv, LoopTidy, NothingToLoad
<1>2. SnapWatched'
  <2> SUFFICES ASSUME NEW t \in Tasks, spent'.faults = 0, Outdated(t)' PROVE Noted(t)'
    BY DEF SnapWatched
  <2>1. CASE task'[t] = task[t]
    BY <2>1 DEF Outdated, Wanted, Locked, Exists, WatchInv, SnapWatched
  <2>2. CASE task'[t] # task[t]
    BY <2>2 DEF Outdated
  <2>3. QED
    BY <2>1, <2>2
<1>3. NobodyLost'
  <2> SUFFICES ASSUME NEW t \in Tasks, spent'.faults = 0, Watching', Wanted(t)'
               PROVE  Indexed(t)' \/ Attended(t)'
    BY DEF NobodyLost
  <2>1. CASE task'[t] = task[t]
    <3>1. Watching /\ Wanted(t)
      BY <2>1 DEF Watching, Wanted, Locked, Exists
    <3>2. Indexed(t) \/ Attended(t)
      BY <3>1 DEF WatchInv, NobodyLost
    <3>3. CASE Indexed(t)
      BY <2>1, <3>3 DEF Indexed, Fresh
    <3>4. CASE Noted(t)
      BY <3>4, NotedAttendedNext
    <3>5. CASE \E i \in 1..Len(queue) : queue[i].task = t
      BY <3>5, NotedAttendedNext DEF Attended
    <3>6. CASE t \in loop.todo \/ loop.snap[t] # Null \/ loop.refresh = t \/ loop.pc = "list"
      BY <3>6 DEF Attended
    <3>7. QED
      BY <3>2, <3>3, <3>4, <3>5, <3>6 DEF Attended, Noted
  <2>2. CASE Noted(t)'
    BY <2>2, NotedAttendedNext
  <2>3. QED
    BY <2>1, <2>2
<1>4. QED
  BY <1>1, <1>2, <1>3 DEF WatchInv

(* A step after which a failure has happened, or the process is down.      *)
LEMMA NotWatched ==
  ASSUME WatchInv, spent'.faults # 0 \/ (loop' = IdleLoop /\ ~Watching'), IdleIsFree',
         LoopTidy'
  PROVE  WatchInv'
<1>1. SnapWatched'
  <2>1. CASE spent'.faults # 0
    BY <2>1 DEF SnapWatched
  <2>2. CASE loop' = IdleLoop
    BY <2>2 DEF IdleLoop, NoRows, SnapWatched, Outdated
  <2>3. QED
    BY <2>1, <2>2
<1>2. NobodyLost'
  BY DEF NobodyLost
<1>3. QED
  BY <1>1, <1>2 DEF WatchInv

(* A step of the loop that changes no row: what it has read afterwards it  *)
(* had read before or reads now, and what is noted stays so.               *)
LEMMA LoopWatches ==
  ASSUME IInv, ParkedInv, WatchInv, IInv', LoopStep, UNCHANGED task, LoopTidy',
         \A t \in Tasks : Noted(t) => Noted(t)',
         \A t \in Tasks :
           \/ loop'.snap[t] = Null
           \/ loop'.snap[t] = loop.snap[t] /\ loop'.at = loop.at
           \/ loop'.snap[t] = task[t],
         \A t \in Tasks :
           Watching /\ spent.faults = 0 /\ Wanted(t) /\ (Indexed(t) \/ Attended(t)) =>
             Indexed(t)' \/ Attended(t)',
         Watching' => Watching
  PROVE  WatchInv'
<1>1. UNCHANGED <<worker, spent>>
  BY LoopAround
<1>2. \A t \in Tasks : Wanted(t)' <=> Wanted(t)
  BY DEF Wanted, Locked, Exists
<1>3. IdleIsFree'
  BY <1>1 DEF WatchInv, IdleIsFree
<1>4. SnapWatched'
  <2> SUFFICES ASSUME NEW t \in Tasks, spent'.faults = 0, Outdated(t)' PROVE Noted(t)'
    BY DEF SnapWatched
  <2>1. CASE loop'.snap[t] = loop.snap[t] /\ loop'.at = loop.at
    BY <1>2, <2>1, <1>1 DEF Outdated, RunningOrLocked, WatchInv, SnapWatched
  <2>2. CASE loop'.snap[t] = task[t]
    BY <1>2, WantedRow, <2>2 DEF Outdated, IInv, MemTypeOK, LoopRow, RunningOrLocked
  <2>3. QED
    BY <2>1, <2>2 DEF Outdated
<1>5. NobodyLost'
  BY <1>1, <1>2 DEF NobodyLost, WatchInv
<1>6. QED
  BY <1>3, <1>4, <1>5 DEF WatchInv

(* Reconcile and loadTask's rescheduling, the steps of the loop that       *)
(* change rows: all rows are read next, or the one that was moved is.      *)
LEMMA LoopChangesWatched ==
  ASSUME IInv, ParkedInv, WatchInv, IInv', LoopStep,
         Reconcile \/ \E t \in Tasks : LoadRescheduled(t)
  PROVE  WatchInv'
<1>1. /\ loop \in LoopRow /\ loop.snap \in [Tasks -> TaskRow \cup {Null}]
      /\ UNCHANGED <<worker, spent, pending>> /\ StoreTypeOK
  BY LoopAround DEF IInv, MemTypeOK, LoopRow, StoreInv
<1>2. IdleIsFree'
  BY <1>1 DEF WatchInv, IdleIsFree
<1>3. CASE Reconcile
  <2>1. /\ loop'.pc = "list" /\ loop'.snap = loop.snap /\ loop'.todo = loop.todo
        /\ loop'.refresh = loop.refresh /\ loop.pc = "idle"
    BY <1>1, <1>3 DEF Reconcile, LoopRow
  <2>2. NothingToLoad /\ loop.todo = {}
    BY <2>1 DEF WatchInv, LoopTidy
  <2>3. LoopTidy'
    BY <2>1, <2>2 DEF LoopTidy, NothingToLoad
  <2>4. SnapWatched'
    BY <2>1, <2>2 DEF SnapWatched, Outdated, NothingToLoad, NoRows
  <2>5. NobodyLost'
    BY <2>1 DEF NobodyLost, Attended
  <2>6. QED
    BY <1>2, <2>3, <2>4, <2>5 DEF WatchInv
<1>4. ASSUME NEW t \in Tasks, LoadRescheduled(t)
      PROVE  WatchInv'
  <2>1. /\ UNCHANGED <<heap, dirty, wake, queue, phase>> /\ loop' = [Loaded[t] EXCEPT !.refresh = t]
        /\ \A u \in Tasks : u # t => task'[u] = task[u]
        /\ loop.pc \in {"work", "due"} /\ loop.refresh = Null
    BY <1>1, <1>4 DEF LoadRescheduled, Rescheduling, Loading, UpdateNextRun, aroundLoop, StoreTypeOK
  <2>2. /\ loop'.pc = loop.pc /\ loop'.todo = loop.todo /\ loop'.refresh = t
        /\ loop'.at = loop.at /\ loop'.snap = [loop.snap EXCEPT ![t] = Null]
    BY <1>1, <2>1, LoopFields, LoopReads
  <2>3. LoopTidy'
    BY <2>1, <2>2 DEF WatchInv, LoopTidy
  <2>4. \A u \in Tasks : Noted(u) => Noted(u)'
    BY <1>1, <2>1, <2>2 DEF Noted
  <2>5. \A u \in Tasks : u # t => (Wanted(u)' <=> Wanted(u))
    BY <2>1 DEF Wanted, Locked, Exists
  <2>6. SnapWatched'
    BY <1>1, <2>2, <2>1, <2>5, <2>4 DEF SnapWatched, Outdated, RunningOrLocked, WatchInv
  <2>7. NobodyLost'
    <3> SUFFICES ASSUME NEW u \in Tasks, u # t, spent'.faults = 0, Watching', Wanted(u)'
                 PROVE  Indexed(u)' \/ Attended(u)'
      BY <2>2 DEF NobodyLost, Attended
    <3>1. Watching /\ Wanted(u) /\ spent.faults = 0
      BY <1>1, <2>1, <2>2, <2>5 DEF Watching
    <3>2. Indexed(u) \/ Attended(u)
      BY <3>1 DEF WatchInv, NobodyLost
    <3>3. CASE Indexed(u)
      BY <2>1, <3>3 DEF Indexed, Fresh
    <3>4. CASE Attended(u)
      BY <1>1, <2>1, <2>2, NullAssumption, <3>4 DEF Attended
    <3>5. QED
      BY <3>2, <3>3, <3>4
  <2>8. QED
    BY <1>2, <2>3, <2>6, <2>7 DEF WatchInv
<1>5. QED
  BY <1>3, <1>4

(* The other steps of the loop that go through the list, the dirty set and *)
(* the end of a pass.                                                      *)
LEMMA PassWatched ==
  ASSUME IInv, ParkedInv, WatchInv, IInv', LoopStep,
         ReconcileList \/ Wake \/ DrainDirty \/ DispatchEnds
  PROVE  WatchInv'
<1>1. /\ loop \in LoopRow /\ loop.snap \in [Tasks -> TaskRow \cup {Null}]
      /\ UNCHANGED <<worker, spent, pending>> /\ StoreTypeOK /\ phase # "down"
      /\ dirty \subseteq Tasks
  BY LoopAround DEF IInv, MemTypeOK, LoopRow, StoreInv
<1>2. UNCHANGED task
  BY DEF ReconcileList, Wake, DrainDirty, DispatchEnds, storeVars
<1>3. IdleIsFree'
  BY <1>1 DEF WatchInv, IdleIsFree
<1>4. CASE ReconcileList
  <2>1. /\ loop'.pc = "work" /\ loop'.at = loop.at /\ loop.pc = "list"
        /\ loop'.todo = loop.todo /\ loop'.refresh = loop.refresh
        /\ \A t \in Tasks : loop'.snap[t] = IF Exists(t) /\ task[t].enabled THEN task[t] ELSE Null
        /\ UNCHANGED <<dirty, wake, queue, phase>>
    BY <1>1, <1>4 DEF ReconcileList, LoopRow
  <2>2. \A t \in Tasks : Noted(t) => Noted(t)'
    BY <1>1, <2>1 DEF Noted
  <2>3. LoopTidy'
    BY <2>1 DEF LoopTidy
  <2>4. \A t \in Tasks : Wanted(t) => Attended(t)'
    BY <2>1 DEF Wanted, Exists, Attended
  <2>5. Watching' => Watching
    BY <2>1 DEF Watching
  <2>6. QED
    BY <1>2, <2>1, <2>2, <2>3, <2>4, <2>5, LoopWatches
<1>5. CASE Wake
  BY <1>1, <1>5, <1>2, LoopWatches DEF Wake, LoopRow, Noted, LoopTidy, Attended, Indexed, Fresh,
     Watching
<1>6. CASE DispatchEnds
  <2>1. /\ loop' = IdleLoop /\ loop.pc = "due" /\ NothingToLoad
        /\ UNCHANGED <<heap, dirty, wake, queue, phase>>
    BY <1>6 DEF DispatchEnds
  <2>2. /\ loop'.pc = "idle" /\ loop'.snap = NoRows /\ loop'.todo = {} /\ loop'.refresh = Null
    BY <2>1 DEF IdleLoop
  <2>3. loop.snap = NoRows /\ loop.refresh = Null /\ loop.todo = {}
    BY <2>1 DEF NothingToLoad, WatchInv, LoopTidy
  <2>4. \A t \in Tasks : Noted(t) => Noted(t)'
    BY <1>1, <2>1, <2>2 DEF Noted
  <2>5. LoopTidy'
    BY <2>2 DEF LoopTidy, NothingToLoad
  <2>6. \A t \in Tasks : Indexed(t) \/ Attended(t) => Indexed(t)' \/ Attended(t)'
    BY <1>2, <2>1, <2>3, NullAssumption, <2>4, NotedAttendedNext DEF Indexed, Fresh, Attended,
       Noted, NoRows
  <2>7. Watching' => Watching
    BY <2>1, <2>2 DEF Watching
  <2>8. \A t \in Tasks : loop'.snap[t] = Null
    BY <2>2 DEF NoRows
  <2>9. QED
    BY <1>2, <2>4, <2>5, <2>6, <2>7, <2>8, LoopWatches
<1>7. CASE DrainDirty
  <2>1. /\ loop.pc = "work" /\ loop.snap = NoRows /\ loop.refresh = Null /\ loop.todo = {}
        /\ dirty' = {} /\ UNCHANGED <<heap, wake, queue>>
    BY <1>7 DEF DrainDirty, NothingToLoad
  <2>2. CASE dirty = {}
    <3>1. loop' = IdleLoop /\ phase' = "up"
      BY <1>7, <2>2 DEF DrainDirty
    <3>2. /\ loop'.pc = "idle" /\ loop'.snap = NoRows /\ loop'.todo = {} /\ loop'.refresh = Null
      BY <3>1 DEF IdleLoop
    <3>3. \A t \in Tasks : Noted(t) => Noted(t)'
      BY <1>1, <2>2 DEF Noted
    <3>4. LoopTidy'
      BY <3>2 DEF LoopTidy, NothingToLoad
    <3>5. \A t \in Tasks : Indexed(t) \/ Attended(t) => Indexed(t)' \/ Attended(t)'
      BY <1>2, <2>1, NullAssumption, <3>3, NotedAttendedNext DEF Indexed, Fresh, Attended, Noted,
         NoRows
    <3>6. Watching
      BY <1>1, <2>1 DEF Watching, IInv, MemTypeOK
    <3>7. \A t \in Tasks : loop'.snap[t] = Null
      BY <3>2 DEF NoRows
    <3>8. QED
      BY <1>2, <3>3, <3>4, <3>5, <3>6, <3>7, LoopWatches
  <2>3. CASE dirty # {}
    <3>1. loop' = [loop EXCEPT !.todo = dirty] /\ phase' = phase
      BY <1>7, <2>3 DEF DrainDirty
    <3>2. /\ loop'.pc = "work" /\ loop'.snap = NoRows /\ loop'.todo = dirty
          /\ loop'.refresh = loop.refresh
      BY <1>1, <2>1, <3>1 DEF LoopRow
    <3>3. LoopTidy'
      BY <3>2 DEF LoopTidy
    <3>4. SnapWatched'
      BY <3>2 DEF SnapWatched, Outdated, NoRows
    <3>5. NobodyLost'
      <4> SUFFICES ASSUME NEW t \in Tasks, spent'.faults = 0, Watching', Wanted(t)'
                   PROVE  Indexed(t)' \/ Attended(t)'
        BY DEF NobodyLost
      <4>1. Watching /\ Wanted(t) /\ spent.faults = 0
        BY <1>1, <1>2, <2>1, <3>1 DEF Watching, Wanted, Locked, Exists
      <4>2. Indexed(t) \/ Attended(t)
        BY <4>1 DEF WatchInv, NobodyLost
      <4>3. CASE Indexed(t)
        BY <1>2, <2>1, <4>3 DEF Indexed, Fresh
      <4>4. CASE Attended(t)
        BY <1>1, <2>1, <3>2, <4>4, NullAssumption DEF Attended, NoRows
      <4>5. QED
        BY <4>2, <4>3, <4>4
    <3>6. QED
      BY <1>3, <3>3, <3>4, <3>5 DEF WatchInv
  <2>4. QED
    BY <2>2, <2>3
<1>8. QED
  BY <1>4, <1>5, <1>6, <1>7

(* loadTask: what is dropped is not wanted, or noted.                      *)
LEMMA LoadsWatched ==
  ASSUME IInv, ParkedInv, WatchInv, IInv', NEW t \in Tasks,
         LoadLocked(t) \/ LoadIndexed(t) \/ LoadOutdated(t)
  PROVE  WatchInv'
<1>1. LoopStep
  BY DEF LoopStep
<1>2. /\ loop \in LoopRow /\ loop.snap \in [Tasks -> TaskRow \cup {Null}]
      /\ heap \in [Tasks -> HeapItem \cup {Null}] /\ dirty \subseteq Tasks
      /\ UNCHANGED <<worker, spent, pending>>
  BY <1>1, LoopAround DEF IInv, MemTypeOK, LoopRow
<1>3. /\ UNCHANGED <<task, queue, phase>> /\ loop' = Loaded[t]
      /\ loop.pc \in {"work", "due"} /\ loop.refresh = Null /\ loop.snap[t] # Null
      /\ \A u \in Tasks : u # t => heap'[u] = heap[u]
      /\ dirty \subseteq dirty' /\ (wake => wake')
  BY <1>2 DEF LoadLocked, LoadIndexed, LoadOutdated, Rescheduling, Loading, Remove, Upsert,
     ReloadTask, storeVars
<1>4. /\ loop'.pc = loop.pc /\ loop'.todo = loop.todo /\ loop'.refresh = loop.refresh
      /\ loop'.at = loop.at /\ loop'.snap = [loop.snap EXCEPT ![t] = Null]
  BY <1>2, <1>3, LoopSnaps
<1>5. LoopTidy'
  BY <1>3, <1>4 DEF WatchInv, LoopTidy
<1>6. \A u \in Tasks : Noted(u) => Noted(u)'
  BY <1>2, <1>3, <1>4 DEF Noted
<1>7. \A u \in Tasks : loop'.snap[u] = Null
                       \/ (loop'.snap[u] = loop.snap[u] /\ loop'.at = loop.at)
  BY <1>2, <1>4
<1>8. Watching' => Watching
  BY <1>3, <1>4 DEF Watching
<1>9. ASSUME spent.faults = 0, Wanted(t)
      PROVE  Indexed(t)' \/ Attended(t)'
  <2>1. CASE Noted(t)
    BY <1>6, <2>1, NotedAttendedNext
  <2>2. CASE LoadOutdated(t)
    BY <2>2 DEF LoadOutdated, ReloadTask, Attended
  <2>3. CASE LoadLocked(t)
    BY <1>3, <1>9, <2>3, <2>1 DEF LoadLocked, Outdated, WatchInv, SnapWatched
  <2>4. CASE LoadIndexed(t) /\ ~Noted(t)
    <3>1. task[t].version = loop.snap[t].version
      BY <1>3, <1>9, <2>4 DEF WatchInv, SnapWatched, Outdated
    <3>2. task[t].next = loop.snap[t].next
      BY <1>3, <1>9, <3>1 DEF ParkedInv, SnapsKnow, SnapKnows, SameDefinition, Wanted
    <3>3. heap' = [heap EXCEPT ![t] = [next |-> loop.snap[t].next, version |-> loop.snap[t].version]]
      BY <2>4 DEF LoadIndexed, Upsert
    <3>4. PICK next, version : next = loop.snap[t].next /\ version = loop.snap[t].version
      OBVIOUS
    <3>5. heap'[t] = [next |-> next, version |-> version]
      BY <1>2, <3>3, <3>4
    <3>6. heap'[t] # Null
      <4>1. loop.snap[t] \in TaskRow /\ StoreInv
        BY <1>2, <1>3 DEF IInv
      <4>2. task[t].next # Null /\ now \in Nat
        BY <1>9, <4>1, WantedRow DEF StoreInv, StoreTypeOK
      <4>3. next \in Nat /\ version \in Nat
        BY <3>2, <3>4, <4>1, <4>2 DEF TaskRow
      <4>4. [next |-> next, version |-> version] \in HeapItem
        BY <4>3 DEF HeapItem
      <4>5. QED
        BY <3>5, <4>4, ItemAssumption
    <3>7. Indexed(t)'
      BY <1>3, <3>1, <3>2, <3>4, <3>5, <3>6 DEF Indexed, Fresh
    <3>8. QED
      BY <3>7
  <2>5. QED
    BY <2>1, <2>2, <2>3, <2>4
<1>10. \A u \in Tasks : Watching /\ spent.faults = 0 /\ Wanted(u) /\ (Indexed(u) \/ Attended(u)) =>
         Indexed(u)' \/ Attended(u)'
  BY <1>9, <1>3, <1>2, <1>4 DEF Indexed, Fresh, Attended
<1>11. QED
  BY <1>1, <1>3, <1>5, <1>6, <1>7, <1>8, <1>10, LoopWatches

(* The second Get, and drainDirty's.                                       *)
LEMMA GetsWatched ==
  ASSUME IInv, ParkedInv, WatchInv, IInv', Refresh \/ \E t \in Tasks : ReloadDirty(t)
  PROVE  WatchInv'
<1>1. LoopStep
  BY DEF LoopStep
<1>2. /\ loop \in LoopRow /\ loop.snap \in [Tasks -> TaskRow \cup {Null}] /\ StoreInv
      /\ heap \in [Tasks -> HeapItem \cup {Null}] /\ now \in Nat
      /\ UNCHANGED <<worker, spent, pending>>
  BY <1>1, LoopAround DEF IInv, MemTypeOK, LoopRow, StoreInv, StoreTypeOK
<1>3. /\ UNCHANGED <<task, queue, phase, dirty>> /\ (wake => wake')
  <2>1. UNCHANGED <<task, queue, phase, dirty>>
    BY DEF Refresh, ReloadDirty, storeVars
  <2>2. wake' = wake \/ wake' = TRUE
    BY DEF Refresh, ReloadDirty, Upsert
  <2>3. QED
    BY <2>1, <2>2
<1>4. CASE Refresh
  <2>1. PICK t \in Tasks : t = loop.refresh
    BY <1>2, <1>4 DEF Refresh, LoopRow
  <2>2. /\ loop'.snap = loop.snap /\ loop'.pc = loop.pc /\ loop'.at = loop.at
        /\ loop'.refresh = Null /\ loop'.todo = loop.todo
    BY <1>2, <1>4 DEF Refresh, LoopRow
  <2>3. LoopTidy'
    BY <2>2 DEF WatchInv, LoopTidy, NothingToLoad
  <2>4. \A u \in Tasks : Noted(u) => Noted(u)'
    BY <1>2, <1>3, <2>2 DEF Noted
  <2>5. Watching' => Watching
    BY <1>3, <2>2 DEF Watching
  <2>6. ASSUME Wanted(t)
        PROVE  Indexed(t)'
    <3>1. task[t] \in TaskRow /\ ~RunningOrLocked(task[t], now) /\ task[t].next # Null
      BY <1>2, <2>6, WantedRow
    <3>2. heap' = [heap EXCEPT ![t] = [next |-> task[t].next, version |-> task[t].version]]
      BY <1>4, <2>1, <2>6, <3>1 DEF Refresh, Upsert, Wanted
    <3>3. PICK next \in Nat, version \in Nat : next = task[t].next /\ version = task[t].version
      BY <3>1 DEF TaskRow
    <3>4. heap'[t] = [next |-> next, version |-> version]
      BY <1>2, <3>2, <3>3
    <3>5. heap'[t] # Null
      BY <3>4, ItemAssumption DEF HeapItem
    <3>6. QED
      BY <1>3, <3>3, <3>4, <3>5 DEF Indexed, Fresh
  <2>7. \A u \in Tasks : Wanted(u) /\ (Indexed(u) \/ Attended(u)) => Indexed(u)' \/ Attended(u)'
    <3> SUFFICES ASSUME NEW u \in Tasks, u # t, Indexed(u) \/ Attended(u)
                 PROVE  Indexed(u)' \/ Attended(u)'
      BY <2>6
    <3>1. CASE Indexed(u)
      BY <1>2, <1>4, <2>1, <1>3, <3>1 DEF Refresh, Upsert, Remove, Indexed, Fresh
    <3>2. CASE Attended(u)
      BY <1>2, <1>3, <2>1, <2>2, <3>2 DEF Attended
    <3>3. QED
      BY <3>1, <3>2
  <2>8. \A u \in Tasks : loop'.snap[u] = loop.snap[u] /\ loop'.at = loop.at
    BY <2>2
  <2>9. QED
    BY <1>1, <1>3, <2>3, <2>4, <2>5, <2>7, <2>8, LoopWatches
<1>5. ASSUME NEW t \in Tasks, ReloadDirty(t)
      PROVE  WatchInv'
  <2>1. /\ loop.pc = "work" /\ loop.snap = NoRows /\ loop.refresh = Null /\ t \in loop.todo
    BY <1>5 DEF ReloadDirty, NothingToLoad
  <2>2. \A u \in Tasks : u # t => heap'[u] = heap[u]
    BY <1>2, <1>5 DEF ReloadDirty, Remove
  <2>3. /\ loop'.pc = "work" /\ loop'.todo = loop.todo \ {t} /\ loop'.refresh = Null
        /\ IF Exists(t) /\ task[t].enabled
           THEN loop'.snap = [loop.snap EXCEPT ![t] = task[t]]
           ELSE loop'.snap = loop.snap
    <3>1. CASE Exists(t) /\ task[t].enabled
      <4>1. PICK row \in TaskRow : row = task[t]
        BY <1>2, <3>1, ExistingRow DEF StoreInv
      <4>2. loop' = [loop EXCEPT !.todo = @ \ {t}, !.snap[t] = row, !.at = now]
        BY <1>5, <3>1, <4>1 DEF ReloadDirty
      <4>3. loop'.snap = [loop.snap EXCEPT ![t] = row]
        BY <1>2, <4>2 DEF LoopRow
      <4>4. loop'.pc = loop.pc /\ loop'.todo = loop.todo \ {t} /\ loop'.refresh = loop.refresh
        BY <1>2, <4>2 DEF LoopRow
      <4>5. QED
        BY <2>1, <3>1, <4>1, <4>3, <4>4
    <3>2. CASE ~(Exists(t) /\ task[t].enabled)
      BY <1>5, <3>2, <1>2, <2>1 DEF ReloadDirty, LoopRow
    <3>3. QED
      BY <3>1, <3>2
  <2>4. LoopTidy'
    BY <2>3 DEF LoopTidy
  <2>5. \A u \in Tasks : Noted(u) => Noted(u)'
    BY <1>2, <1>3, <2>1, <2>3 DEF Noted
  <2>6. Watching' => Watching
    BY <1>3, <2>1, <2>3 DEF Watching
  <2>7. \A u \in Tasks : loop'.snap[u] = Null \/ loop'.snap[u] = task[u]
    BY <1>2, <2>1, <2>3 DEF NoRows
  <2>8. \A u \in Tasks : Wanted(u) /\ (Indexed(u) \/ Attended(u)) => Indexed(u)' \/ Attended(u)'
    <3> SUFFICES ASSUME NEW u \in Tasks, Wanted(u), Indexed(u) \/ Attended(u)
                 PROVE  Indexed(u)' \/ Attended(u)'
      OBVIOUS
    <3>1. CASE u = t
      BY <1>2, <2>3, <3>1 DEF Wanted, Exists, Attended
    <3>2. CASE u # t /\ Indexed(u)
      BY <1>3, <2>2, <3>2 DEF Indexed, Fresh
    <3>3. CASE u # t /\ Attended(u)
      BY <1>2, <1>3, <2>1, <2>3, <3>3, NullAssumption DEF Attended, NoRows
    <3>4. QED
      BY <3>1, <3>2, <3>3
  <2>9. QED
    BY <1>1, <1>3, <2>4, <2>5, <2>6, <2>7, <2>8, LoopWatches
<1>6. QED
  BY <1>4, <1>5

(* dispatchDue: what is not sent is not wanted, or read again.             *)
LEMMA DispatchWatched ==
  ASSUME IInv, ParkedInv, WatchInv, IInv', NEW t \in Tasks,
         DispatchParked(t) \/ DispatchStale(t) \/ DispatchSent(t)
  PROVE  WatchInv'
<1>1. LoopStep
  BY DEF LoopStep
<1>2. /\ loop \in LoopRow /\ loop.snap \in [Tasks -> TaskRow \cup {Null}] /\ StoreInv
      /\ heap \in [Tasks -> HeapItem \cup {Null}] /\ now \in Nat
      /\ UNCHANGED <<worker, spent, pending>> /\ queue \in Seq(Job)
  BY <1>1, LoopAround DEF IInv, MemTypeOK, LoopRow, StoreInv, StoreTypeOK
<1>3. /\ UNCHANGED <<task, phase, dirty, wake>> /\ phase = "up" /\ loop.pc \in {"idle", "due"}
      /\ loop.snap = NoRows /\ loop.refresh = Null
      /\ \A u \in Tasks : u # t => heap'[u] = heap[u]
  BY <1>2 DEF DispatchParked, DispatchStale, DispatchSent, Dispatching, NothingToLoad, Remove,
     storeVars
<1>4. loop.todo = {}
  BY <1>3 DEF WatchInv, LoopTidy
<1>5. /\ loop'.pc = "due" /\ loop'.todo = {} /\ loop'.refresh = Null
      /\ \A u \in Tasks : loop'.snap[u] = Null \/ loop'.snap[u] = task[u]
      /\ DispatchStale(t) => loop'.snap[t] = task[t]
  <2>1. CASE loop' = DuePass
    <3>1. \A u \in Tasks : loop'.snap[u] = Null
      BY <1>2, <2>1, LoopSnaps DEF NoRows
    <3>2. loop'.pc = "due" /\ loop'.todo = {} /\ loop'.refresh = Null
      BY <2>1 DEF DuePass, IdleLoop
    <3>3. ~DispatchStale(t)
      <4>1. SUFFICES ASSUME DispatchStale(t) PROVE FALSE
        OBVIOUS
      <4>2. PICK row \in TaskRow : row = task[t]
        BY <1>2, <4>1, ExistingRow DEF DispatchStale, Runnable, StoreInv
      <4>3. loop' = [DuePass EXCEPT !.at = now, !.snap[t] = row]
        BY <4>1, <4>2 DEF DispatchStale
      <4>4. loop'.snap = [NoRows EXCEPT ![t] = row]
        BY <4>3 DEF DuePass, IdleLoop
      <4>5. QED
        BY <3>1, <4>4, AbsentAssumption DEF NoRows
    <3>4. QED
      BY <3>1, <3>2, <3>3
  <2>2. CASE DispatchStale(t)
    BY <1>2, <2>2, ExistingRow, LoopFields DEF DispatchStale, Runnable, StoreInv, DuePass,
       IdleLoop, NoRows
  <2>3. QED
    BY <2>1, <2>2 DEF DispatchParked, DispatchSent
<1>6. LoopTidy'
  BY <1>5 DEF LoopTidy
<1>7. \A u \in Tasks : Noted(u) => Noted(u)'
  BY <1>2, <1>3, <1>5 DEF Noted
<1>8. Watching
  BY <1>3 DEF Watching
<1>9. queue' = queue \/ (queue' = Append(queue, [task |-> t, version |-> task[t].version])
                         /\ DispatchSent(t))
  BY DEF DispatchParked, DispatchStale, DispatchSent
<1>10. /\ \A i \in 1..Len(queue) : i \in 1..Len(queue') /\ queue'[i] = queue[i]
       /\ DispatchSent(t) => \E i \in 1..Len(queue') : queue'[i].task = t
  <2>1. CASE queue' = queue /\ ~DispatchSent(t)
    BY <2>1
  <2>2. CASE DispatchSent(t)
    <3>1. PICK version \in Nat : version = task[t].version
      BY <1>2, <2>2, ExistingRow DEF DispatchSent, Runnable, StoreInv, TaskRow
    <3>2. queue' = Append(queue, [task |-> t, version |-> version])
      BY <2>2, <3>1 DEF DispatchSent
    <3>3. [task |-> t, version |-> version] \in Job
      BY DEF Job
    <3>4. /\ Len(queue') = Len(queue) + 1 /\ queue'[Len(queue) + 1].task = t
          /\ \A i \in 1..Len(queue) : queue'[i] = queue[i]
      BY <1>2, <3>2, <3>3
    <3>5. Len(queue) \in Nat
      BY <1>2
    <3>6. QED
      BY <3>4, <3>5
  <2>3. QED
    BY <1>9, <2>1, <2>2
<1>11. ASSUME Wanted(t)
       PROVE  Attended(t)'
  <2>1. Runnable(t)
    BY <1>2, <1>11, WantedRow DEF Runnable, Wanted
  <2>2. CASE DispatchSent(t)
    BY <1>10, <2>2 DEF Attended
  <2>3. CASE DispatchStale(t)
    BY <1>5, <1>11, <2>3 DEF Wanted, Exists, Attended
  <2>4. QED
    BY <2>1, <2>2, <2>3 DEF DispatchParked
<1>12. \A u \in Tasks : Wanted(u) /\ (Indexed(u) \/ Attended(u)) => Indexed(u)' \/ Attended(u)'
  <2> SUFFICES ASSUME NEW u \in Tasks, u # t, Indexed(u) \/ Attended(u)
               PROVE  Indexed(u)' \/ Attended(u)'
    BY <1>11
  <2>1. CASE Indexed(u)
    BY <1>3, <2>1 DEF Indexed, Fresh
  <2>2. CASE Noted(u)
    BY <1>7, <2>2, NotedAttendedNext
  <2>3. CASE \E i \in 1..Len(queue) : queue[i].task = u
    BY <2>3, <1>10 DEF Attended
  <2>4. CASE t \notin {u} /\ Attended(u)
    BY <1>3, <1>4, <2>2, <2>3, <2>4, NullAssumption DEF Attended, Noted, NoRows
  <2>5. QED
    BY <2>1, <2>4
<1>13. QED
  BY <1>1, <1>3, <1>5, <1>6, <1>7, <1>8, <1>12, LoopWatches

(* The workers: one that ends a run still has its task until it reloads.   *)
LEMMA WorkersWatched ==
  ASSUME IInv, ParkedInv, WatchInv, IInv', NEW w \in Workers, WorkerStep(w)
  PROVE  WatchInv'
<1>1. /\ worker \in [Workers -> WorkerRow] /\ queue \in Seq(Job) /\ manual \in Seq(Tasks)
      /\ StoreTypeOK /\ StoreInv /\ StoreInv'
  BY DEF IInv, MemTypeOK, StoreInv
<1>2. /\ UNCHANGED <<phase, heap, loop, pending, spent>>
      /\ dirty \subseteq dirty' /\ (wake' = wake \/ wake' = TRUE)
  BY DEF WorkerStep, TakeDispatch, TakeManual, Claim, ClaimRefused, Finish, RunReturns,
     ReloadAfterRun, ReloadTask, aroundWorker
<1>3. IdleIsFree /\ IdleIsFree'
  <2>1. IdleIsFree
    BY DEF WatchInv
  <2>2. CASE TakeDispatch(w) \/ TakeManual(w)
    <3>1. worker'[w].pc = "wait" /\ (\A v \in Workers : v # w => worker'[v] = worker[v])
      BY <1>1, <2>2 DEF TakeDispatch, TakeManual
    <3>2. QED
      BY <2>1, <3>1 DEF IdleIsFree
  <2>3. CASE Claim(w)
    BY <1>1, <2>3, <2>1 DEF Claim, WorkerRow, IdleIsFree
  <2>4. CASE RunReturns(w)
    BY <1>1, <2>4, <2>1 DEF RunReturns, IdleWorker, IdleIsFree
  <2>5. CASE ReloadAfterRun(w)
    BY <1>1, <2>1, <2>5 DEF ReloadAfterRun, IdleIsFree, IdleWorker
  <2>6. QED
    BY <2>1, <2>2, <2>3, <2>4, <2>5 DEF WorkerStep, ClaimRefused, Finish
<1>4. /\ \A v \in Workers : v # w => worker'[v] = worker[v]
      /\ \/ worker[w].task = Null
         \/ worker'[w].task = worker[w].task
         \/ worker[w].task \in dirty' /\ wake' = TRUE
  <2>1. CASE TakeDispatch(w) \/ TakeManual(w)
    BY <1>1, <2>1, <1>3 DEF TakeDispatch, TakeManual, IdleIsFree
  <2>2. CASE Claim(w)
    BY <1>1, <2>2 DEF Claim, WorkerRow
  <2>3. CASE RunReturns(w)
    BY <1>1, <2>3 DEF RunReturns, IdleWorker
  <2>4. CASE ReloadAfterRun(w)
    BY <2>4, <1>1 DEF ReloadAfterRun, ReloadTask
  <2>5. QED
    BY <2>1, <2>2, <2>3, <2>4 DEF WorkerStep, ClaimRefused, Finish
<1>5. \A t \in Tasks : Noted(t) => Noted(t)'
  <2> SUFFICES ASSUME NEW t \in Tasks, Noted(t) PROVE Noted(t)'
    OBVIOUS
  <2>1. CASE t \in dirty /\ (wake \/ loop.pc \in {"list", "work"})
    BY <1>2, <2>1 DEF Noted
  <2>2. CASE t \in pending
    BY <1>2, <2>2 DEF Noted
  <2>3. ASSUME NEW v \in Workers, worker[v].task = t
        PROVE  Noted(t)'
    BY <1>4, <2>3, NullAssumption DEF Noted
  <2>4. QED
    BY <2>1, <2>2, <2>3 DEF Noted
<1>6. \A t \in Tasks : task'[t] = task[t] \/ ~Wanted(t)' \/ Noted(t)'
  <2>1. CASE TakeDispatch(w) \/ TakeManual(w) \/ ReloadAfterRun(w)
    BY <2>1 DEF TakeDispatch, TakeManual, ReloadAfterRun, storeVars
  <2>2. CASE Claim(w) \/ ClaimRefused(w) \/ Finish(w)
    <3>1. PICK u \in Tasks : u = worker[w].task
      BY <1>1, <2>2, ReturnedWorker DEF Claim, ClaimRefused, Finish, HasSlot, Busy
    <3>2. worker'[w].task = u
      <4>1. CASE Claim(w)
        BY <1>1, <3>1, <4>1 DEF Claim, WorkerRow
      <4>2. CASE RunReturns(w)
        BY <1>1, <3>1, <4>2 DEF RunReturns, IdleWorker
      <4>3. QED
        BY <2>2, <4>1, <4>2 DEF ClaimRefused, Finish
    <3>3. Noted(u)'
      BY <3>2 DEF Noted
    <3>4. \A t \in Tasks : t # u => task'[t] = task[t]
      BY <1>1, <3>1, <2>2 DEF Claim, BeginRun, StoreTypeOK, ClaimRefused, BeginRunRefused,
         RecoveredTasks, Finish, FinishRun
    <3>5. QED
      BY <3>3, <3>4
  <2>3. QED
    BY <2>1, <2>2 DEF WorkerStep
<1>7. \A t \in Tasks : (\E i \in 1..Len(queue) : queue[i].task = t) =>
        Noted(t)' \/ (\E i \in 1..Len(queue) : queue[i].task = t)'
  <2>1. CASE TakeDispatch(w)
    <3>1. queue # <<>> /\ queue' = Tail(queue) /\ worker'[w].task = Head(queue).task
      BY <1>1, <2>1 DEF TakeDispatch
    <3>2. Head(queue) = queue[1] /\ Len(queue') = Len(queue) - 1 /\ Len(queue) \in Nat
      BY <1>1, <3>1
    <3>3. \A i \in 1..Len(queue) : i # 1 => i - 1 \in 1..Len(queue') /\ queue'[i - 1] = queue[i]
      BY <1>1, <3>1, <3>2
    <3>4. ASSUME NEW t \in Tasks, NEW i \in 1..Len(queue), queue[i].task = t
          PROVE  Noted(t)' \/ (\E j \in 1..Len(queue) : queue[j].task = t)'
      BY <3>1, <3>2, <3>3, <3>4 DEF Noted
    <3>5. QED
      BY <3>4
  <2>2. CASE ~TakeDispatch(w)
    BY <2>2 DEF WorkerStep, TakeManual, Claim, ClaimRefused, Finish, ReloadAfterRun, aroundWorker
  <2>3. QED
    BY <2>1, <2>2
<1>8. spent'.faults = 0 => spent.faults = 0
  BY <1>2
<1>9. QED
  BY <1>2, <1>3, <1>5, <1>6, <1>7, <1>8, WatchedAround

(* The service: who changes a row has the task pending until it is dirty.  *)
LEMMA ServiceWatched ==
  ASSUME IInv, ParkedInv, WatchInv, IInv',
         ServiceStep \/ (\E r \in RunIds : Prune(r)) \/ Clock \/ UNCHANGED vars
  PROVE  WatchInv'
<1>1. spent \in Budget /\ StoreTypeOK
  BY DEF IInv, MemTypeOK, StoreInv
<1>2. /\ UNCHANGED <<phase, heap, loop, queue, worker>>
      /\ (spent'.faults = 0 => spent.faults = 0)
  BY <1>1, Budgets DEF ServiceStep, SetEnabledWrite, Create, Update, SetEnabledRead, Delete,
     ServiceReload, RunNow, Prune, Clock, aroundService, memVars, vars
<1>3. IdleIsFree'
  BY <1>2 DEF WatchInv, IdleIsFree
<1>4. ASSUME NEW u \in Tasks, pending' = pending \cup {u}, dirty' = dirty, wake' = wake,
             \A t \in Tasks : t # u => task'[t] = task[t]
      PROVE  /\ \A t \in Tasks : task'[t] = task[t] \/ ~Wanted(t)' \/ Noted(t)'
             /\ \A t \in Tasks : Noted(t) => Noted(t)'
  BY <1>2, <1>4 DEF Noted
<1>5. /\ \A t \in Tasks : task'[t] = task[t] \/ ~Wanted(t)' \/ Noted(t)'
      /\ \A t \in Tasks : Noted(t) => Noted(t)'
  <2>1. CASE SetEnabledWrite
    BY <2>1, <1>1, <1>4 DEF SetEnabledWrite, IInv, MemTypeOK, ToggleRow, SetEnabledRow,
       aroundService, StoreTypeOK
  <2>2. ASSUME NEW u \in Tasks, NEW enabled \in BOOLEAN, NEW sched \in Schedules,
               NEW missed \in Policies,
               Create(u, enabled, sched, missed) \/ Update(u, enabled, sched, missed) \/ Delete(u)
        PROVE  /\ \A t \in Tasks : task'[t] = task[t] \/ ~Wanted(t)' \/ Noted(t)'
               /\ \A t \in Tasks : Noted(t) => Noted(t)'
    BY <1>1, <2>2, <1>4 DEF Create, CreateRow, Update, UpdateRow, Delete, DeleteRow, aroundService,
       StoreTypeOK
  <2>3. ASSUME NEW u \in Tasks, Delete(u)
        PROVE  /\ \A t \in Tasks : task'[t] = task[t] \/ ~Wanted(t)' \/ Noted(t)'
               /\ \A t \in Tasks : Noted(t) => Noted(t)'
    BY <1>1, <2>3, <1>4 DEF Delete, DeleteRow, aroundService, StoreTypeOK
  <2>4. ASSUME NEW u \in Tasks, ServiceReload(u)
        PROVE  /\ \A t \in Tasks : task'[t] = task[t] \/ ~Wanted(t)' \/ Noted(t)'
               /\ \A t \in Tasks : Noted(t) => Noted(t)'
    BY <2>4, <1>2 DEF ServiceReload, ReloadTask, storeVars, Noted
  <2>5. ASSUME UNCHANGED <<task, pending, dirty, wake>>
        PROVE  /\ \A t \in Tasks : task'[t] = task[t] \/ ~Wanted(t)' \/ Noted(t)'
               /\ \A t \in Tasks : Noted(t) => Noted(t)'
    BY <1>2, <2>5 DEF Noted
  <2>6. CASE \/ \E u \in Tasks : (\E enabled \in BOOLEAN : SetEnabledRead(u, enabled)) \/ RunNow(u)
             \/ \E r \in RunIds : Prune(r)
             \/ Clock \/ UNCHANGED vars
    BY <2>5, <2>6 DEF SetEnabledRead, RunNow, Prune, PruneRun, Clock, Tick, aroundService,
       storeVars, memVars, vars
  <2>7. QED
    BY <2>1, <2>2, <2>3, <2>4, <2>6 DEF ServiceStep
<1>6. QED
  BY <1>2, <1>3, <1>5, WatchedAround

(* A failing statement, a start, an end of the process.                    *)
LEMMA FaultWatched ==
  ASSUME IInv, ParkedInv, WatchInv, IInv', DbFault \/ Boot \/ Crash
  PROVE  WatchInv'
<1>1. /\ worker \in [Workers -> WorkerRow] /\ loop \in LoopRow /\ spent \in Budget
      /\ IdleIsFree /\ LoopTidy
  BY DEF IInv, MemTypeOK, WatchInv
<1>2. IdleLoop.pc = "idle" /\ IdleLoop.todo = {} /\ IdleLoop.snap = NoRows /\ IdleLoop.refresh = Null
  BY DEF IdleLoop
<1>3. ASSUME MemoryLost
      PROVE  WatchInv'
  BY <1>3, <1>2, NotWatched DEF MemoryLost, IdleIsFree, IdleWorker, LoopTidy, NothingToLoad,
     Watching
<1>4. CASE Boot
  BY <1>4, <1>1, <1>2, NotWatched DEF Boot, IInv, LoopRests, IdleIsFree, LoopTidy, NothingToLoad,
     Watching
<1>5. CASE DbFault
  <2>1. Fault
    BY <1>5 DEF DbFault, ReconcileFails, RefreshFails, ReloadDirtyFails, LoadFails, DispatchFails,
       ClaimFails, FinishFails
  <2>2. spent'.faults # 0
    BY <1>1, <2>1, Budgets
  <2>3. CASE ReconcileFails
    <3>1. CASE loop' = [loop EXCEPT !.pc = "work"] /\ worker' = worker
      BY <1>1, <3>1, <2>2, NotWatched DEF LoopRow, LoopTidy, IdleIsFree
    <3>2. QED
      BY <1>3, <2>3, <3>1 DEF ReconcileFails, aroundLoop
  <2>4. CASE RefreshFails \/ \E t \in Tasks : ReloadDirtyFails(t) \/ LoadFails(t) \/ DispatchFails(t)
    <3>1. IdleIsFree'
      BY <1>1, <2>4 DEF IdleIsFree, RefreshFails, ReloadDirtyFails, LoadFails, DispatchFails, aroundLoop
    <3>2. LoopTidy'
      <4>1. CASE RefreshFails
        BY <1>1, <4>1 DEF RefreshFails, LoopRow, LoopTidy, NothingToLoad
      <4>2. ASSUME NEW t \in Tasks, ReloadDirtyFails(t)
            PROVE  LoopTidy'
        BY <1>1, <4>2 DEF ReloadDirtyFails, LoopRow, LoopTidy
      <4>3. ASSUME NEW t \in Tasks, LoadFails(t)
            PROVE  LoopTidy'
        BY <1>1, <4>3, LoopSnaps DEF LoadFails, Rescheduling, Loading, LoopTidy
      <4>4. ASSUME NEW t \in Tasks, DispatchFails(t)
            PROVE  LoopTidy'
        BY <4>4 DEF DispatchFails, DuePass, IdleLoop, LoopTidy
      <4>5. QED
        BY <2>4, <4>1, <4>2, <4>3, <4>4
    <3>3. QED
      BY <2>2, <3>1, <3>2, NotWatched
  <2>5. ASSUME NEW w \in Workers, ClaimFails(w) \/ FinishFails(w)
        PROVE  WatchInv'
    BY <2>5, <1>1, <2>2, NotWatched DEF ClaimFails, FinishFails, aroundWorker, RunReturns,
       IdleWorker, IdleIsFree, LoopTidy, NothingToLoad
  <2>6. QED
    BY <1>5, <2>3, <2>4, <2>5 DEF DbFault
<1>6. QED
  BY <1>3, <1>4, <1>5 DEF Crash

(* Every step keeps WatchInv.                                              *)
LEMMA NextWatched == IInv /\ ParkedInv /\ WatchInv /\ IInv' /\ [Next]_vars => WatchInv'
<1>1. ASSUME IInv, ParkedInv, WatchInv, IInv', LoopStep
      PROVE  WatchInv'
  BY <1>1, LoopChangesWatched, PassWatched, LoadsWatched, GetsWatched, DispatchWatched DEF LoopStep
<1>2. QED
  BY <1>1, WorkersWatched, ServiceWatched, FaultWatched DEF Next

(* WatchInv holds in every reachable state.                                *)
THEOREM WatchInvariant == Spec => []WatchInv
<1>1. Init => WatchInv
  BY DEF Init, WatchInv, LoopTidy, NothingToLoad, IdleIsFree, SnapWatched, NobodyLost, Watching,
     Outdated, IdleLoop, IdleWorker, NoRows
<1>2. IInv /\ ParkedInv /\ WatchInv /\ IInv' /\ [Next]_vars => WatchInv'
  BY NextWatched
<1>3. QED
  BY <1>1, <1>2, Invariant, ParkedInvariant, PTL DEF Spec

(* While the process is up and no statement failed, an enabled task that   *)
(* nobody has locked is indexed, or somebody will look at it again.        *)
THEOREM NothingIsForgotten == Spec => []NothingForgotten
<1>1. WatchInv => NothingForgotten
  BY DEF WatchInv, NobodyLost, NothingForgotten, Wanted, Watching
<1>2. QED
  BY <1>1, WatchInvariant, PTL


=============================================================================
