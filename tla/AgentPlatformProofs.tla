------------------------ MODULE AgentPlatformProofs ------------------------
(***************************************************************************)
(* Theorems about AgentWorkers, AgentIntake and AgentPlatform, for every   *)
(* set of jobs, workers, issues, projects and pollers, and any bounds.     *)
(* First the workers by themselves, over every number of failing           *)
(* statements, kills and hanging commands, then the intake by itself; then *)
(* what is proved of either holds of the two on one database, and with it  *)
(* what is true of both together.                                          *)
(***************************************************************************)
EXTENDS AgentPlatform, FiniteSetTheorems, SequenceTheorems, TLAPS

-----------------------------------------------------------------------------
(* The workers: the inductive invariant.                                   *)

\* The except clause only runs the statements of finish, with a failure.
HandlerOnlyFails ==
  \A w \in Workers : handling[w] =>
    /\ pc[w] \in {"finish"} \cup Finishing
    /\ verdict[w] = "failed"

\* Whoever runs git on the checkout holds the lock.
GitUnderLock == \A w \in Workers : pc[w] = "git" => lock = w

\* What the body of run_once has established when it reaches each line.
HasWorktree(w) == pc[w] \in {"meta", "metaEvent", "exec", "validate"}
\* Where the metadata are written, and where a run ends with success
HasMetadata(w) == pc[w] \in {"metaEvent", "exec", "validate"}
Succeeding(w) == pc[w] = "finish" /\ verdict[w] = "succeeded"

\* A worktree, its metadata and a verified outcome, in this order
RunEstablishes ==
  \A w \in Workers :
    /\ HasWorktree(w) \/ Succeeding(w) => cur[w] \in worktrees
    /\ HasMetadata(w) \/ Succeeding(w) => jobs[cur[w]].branch
    /\ Succeeding(w) => Accepted(cur[w])

\* A uuid that is not drawn yet has no worker.
AbsentUnowned == \A j \in InStatus("absent") : jobs[j].worker = None

\* The invariant of the workers
WorkersInv ==
  /\ WorkersTypeOK
  /\ ExecutorOwnsJob
  /\ HandlerOnlyFails
  /\ GitUnderLock
  /\ DashboardAgrees
  /\ RunEstablishes
  /\ SuccessIsVerified
  /\ AbsentUnowned

\* The statements on jobs keep the rows in the schema (store.py).
LEMMA RowTypes ==
  ASSUME jobs \in [JobIds -> JobRow], NEW j \in JobIds
  PROVE  /\ \A w \in Workers : Claimed(j, w) \in [JobIds -> JobRow]
         /\ \A result \in Terminal : Finished(j, result) \in [JobIds -> JobRow]
         /\ [jobs EXCEPT ![j].branch = TRUE] \in [JobIds -> JobRow]
         /\ \A kind \in Kinds, stamp \in Nat : QueuedRow(kind, stamp) \in JobRow
<1>1. \A w \in Workers : Claimed(j, w) \in [JobIds -> JobRow]
  BY DEF Claimed, JobRow, Statuses
<1>2. ASSUME NEW result \in Terminal PROVE Finished(j, result) \in [JobIds -> JobRow]
  <2> DEFINE exit == IF result = "succeeded" THEN "zero" ELSE "nonzero"
             row == [jobs[j] EXCEPT !.status = result, !.exit = exit]
  <2>1. jobs[j] \in JobRow OBVIOUS
  <2>2. row \in JobRow BY <2>1 DEF JobRow, Statuses
  <2>3. Finished(j, result) = [jobs EXCEPT ![j] = row] BY <2>1 DEF Finished
  <2> QED BY <2>2, <2>3
<1>3. [jobs EXCEPT ![j].branch = TRUE] \in [JobIds -> JobRow]
  BY DEF JobRow
<1>4. \A kind \in Kinds, stamp \in Nat : QueuedRow(kind, stamp) \in JobRow
  BY DEF QueuedRow, JobRow, NoRow, Statuses
<1> QED BY <1>1, <1>2, <1>3, <1>4

\* What the update of JobStore.claim_next does to the table.
LEMMA ClaimedRow ==
  ASSUME jobs \in [JobIds -> JobRow], NEW j \in JobIds, NEW w \in Workers
  PROVE  /\ Claimed(j, w)[j].status = "running"
         /\ Claimed(j, w)[j].worker = w
         /\ Claimed(j, w)[j].exit = jobs[j].exit
         /\ \A k \in JobIds \ {j} : Claimed(j, w)[k] = jobs[k]
  BY DEF Claimed, JobRow

\* What the update of JobStore.finish does to the table.
LEMMA FinishedRow ==
  ASSUME jobs \in [JobIds -> JobRow], NEW j \in JobIds, NEW result \in Terminal
  PROVE  /\ Finished(j, result)[j].status = result
         /\ Finished(j, result)[j].worker = jobs[j].worker
         /\ Finished(j, result)[j].kind = jobs[j].kind
         /\ Finished(j, result)[j].branch = jobs[j].branch
         /\ result = "succeeded" => Finished(j, result)[j].exit = "zero"
         /\ \A k \in JobIds \ {j} : Finished(j, result)[k] = jobs[k]
  BY DEF Finished, JobRow

\* A kill keeps the variables in their types.
LEMMA KillType ==
  ASSUME WorkersTypeOK, NEW W \in SUBSET Workers, Kill(W)
  PROVE  WorkersTypeOK'
<1> USE DEF WorkersTypeOK, JobTableType, Kill, InitializeStore, gitVars
<1>1. pc' \in [Workers -> PcValues] BY DEF Start, PcValues
<1>2. cur' \in [Workers -> JobIds \cup {None}] OBVIOUS
<1>3. verdict' \in [Workers -> Terminal] BY DEF Terminal
<1>4. handling' \in [Workers -> BOOLEAN] OBVIOUS
<1>5. lock' \in Workers \cup {None} OBVIOUS
<1>6. restarts' \in Nat OBVIOUS
<1> QED BY <1>1, <1>2, <1>3, <1>4, <1>5, <1>6

\* Every statement and step of a worker keeps the variables in their types.
LEMMA TypeStep ==
  ASSUME WorkersInv, NEW w \in Workers, WorkerStep(w)
  PROVE  WorkersTypeOK'
<1> USE DEF WorkersTypeOK, JobTableType, Goto, threadVars, envVars, gitVars,
      PcValues, Holding, Finishing
<1>t. WorkersTypeOK /\ ExecutorOwnsJob BY DEF WorkersInv
<1>1. CASE HeartbeatBlocked(w)
  BY <1>t, <1>1 DEF HeartbeatBlocked, SetRow, RowStates, Terminal, ExecutorOwnsJob,
        Executing
<1>2. CASE NothingToClaim(w)
  BY <1>t, <1>2 DEF NothingToClaim, Terminal, ExecutorOwnsJob, Executing
<1>3. CASE HeartbeatIdle(w)
  BY <1>t, <1>3 DEF HeartbeatIdle, Return, SetRow, Start, RowStates, Terminal,
        ExecutorOwnsJob, Executing
<1>4. CASE Claim(w)
  <2>1. PICK j \in OldestQueued : /\ jobs' = Claimed(j, w)
                                 /\ Event(j, "claimed")
                                 /\ cur' = [cur EXCEPT ![w] = j]
    BY <1>4 DEF Claim
  <2>2. j \in JobIds BY DEF OldestQueued, InStatus
  <2>3. jobs' \in [JobIds -> JobRow] BY <1>t, <2>1, <2>2, RowTypes
  <2> QED BY <1>t, <1>4, <2>1, <2>2, <2>3 DEF Claim, Event, EventNames
<1>5. CASE HeartbeatRunning(w)
  BY <1>t, <1>5 DEF HeartbeatRunning, SetRow, RowStates, Terminal, ExecutorOwnsJob,
        Executing
<1>6. CASE PrepareOk(w)
  BY <1>t, <1>6 DEF PrepareOk, Terminal, ExecutorOwnsJob, Executing
<1>7. CASE TaskRaises(w)
  BY <1>t, <1>7 DEF TaskRaises, Raise, Terminal, ExecutorOwnsJob, Executing
<1>8. CASE AcquireProjectLock(w)
  BY <1>t, <1>8 DEF AcquireProjectLock, Terminal, ExecutorOwnsJob, Executing
<1>9. CASE AddWorktree(w)
  BY <1>t, <1>9 DEF AddWorktree, Terminal, ExecutorOwnsJob, Executing
<1>10. CASE GitFails(w)
  BY <1>t, <1>10 DEF GitFails, Raise, Terminal, ExecutorOwnsJob, Executing
<1>11. CASE SetExecutionMetadata(w)
  <2>1. cur[w] \in JobIds BY <1>t, <1>11 DEF SetExecutionMetadata, ExecutorOwnsJob,
        Executing
  <2>2. jobs' \in [JobIds -> JobRow] BY <1>t, <1>11, <2>1, RowTypes DEF
        SetExecutionMetadata
  <2> QED BY <1>t, <1>11, <2>2 DEF SetExecutionMetadata
<1>12. CASE MetadataEvent(w)
  BY <1>t, <1>12 DEF MetadataEvent, Event, EventNames, Terminal, ExecutorOwnsJob,
        Executing
<1>13. CASE ExecuteCodex(w)
  <2>1. PICK facts \in Outcomes : outcome' = [outcome EXCEPT ![cur[w]] = facts]
    BY <1>13 DEF ExecuteCodex
  <2>2. outcome' \in [JobIds -> SUBSET Facts] BY <1>t, <2>1, OutcomesAssumption
  <2> QED BY <1>t, <1>13, <2>2 DEF ExecuteCodex
<1>14. CASE ValidateOutcome(w)
  BY <1>t, <1>14 DEF ValidateOutcome, Terminal, ExecutorOwnsJob, Executing
<1>15. CASE FinishUpdate(w)
  <2>1. cur[w] \in JobIds BY <1>t, <1>15 DEF FinishUpdate, ExecutorOwnsJob,
        Executing
  <2>2. jobs' \in [JobIds -> JobRow] BY <1>t, <1>15, <2>1, RowTypes DEF FinishUpdate
  <2> QED BY <1>t, <1>15, <2>2 DEF FinishUpdate
<1>16. CASE FinishEvent(w)
  BY <1>t, <1>16 DEF FinishEvent, Event, EventNames, Terminal, ExecutorOwnsJob,
        Executing
<1>17. CASE HeartbeatDone(w)
  BY <1>t, <1>17 DEF HeartbeatDone, Return, SetRow, Start, RowStates, Terminal,
        ExecutorOwnsJob, Executing
<1>18. CASE CommandInserted(w)
  BY <1>t, <1>18, ZenonT(60) DEF CommandInserted, Event, EventNames, Terminal, ExecutorOwnsJob,
        Executing
<1>19. CASE PreflightOk(w)
  BY <1>t, <1>19 DEF PreflightOk, Terminal, ExecutorOwnsJob, Executing
<1>20. CASE PreflightBlocked(w)
  BY <1>t, <1>20 DEF PreflightBlocked, Terminal, ExecutorOwnsJob, Executing
<1>21. CASE PreflightHangs(w)
  BY <1>t, <1>21 DEF PreflightHangs, Unwind, Terminal, ExecutorOwnsJob, Executing
<1>22. CASE \E kind \in Kinds : CommandInsert(w, kind)
  <2>1. PICK kind \in Kinds, j \in JobIds : /\ CommandInsert(w, kind)
                                             /\ InsertJob(j, kind)
                                             /\ cur' = [cur EXCEPT ![w] = j]
    BY <1>22 DEF CommandInsert
  <2>2. PICK stamp \in 0..clock :
          jobs' = [jobs EXCEPT ![j] = QueuedRow(kind, stamp)]
    BY <2>1 DEF InsertJob
  <2>a. stamp \in Nat BY <1>t, <2>2
  <2>b. QueuedRow(kind, stamp) \in JobRow BY <1>t, <2>a, RowTypes
  <2>3. jobs' \in [JobIds -> JobRow] BY <1>t, <2>2, <2>b
  <2>4. clock' \in Nat BY <1>t, <2>1 DEF InsertJob
  <2> QED BY <1>t, <2>1, <2>3, <2>4 DEF CommandInsert
<1>23. CASE CommandRunOnce(w)
  BY <1>t, <1>23 DEF CommandRunOnce, Terminal, ExecutorOwnsJob, Executing
<1>24. CASE StatementFails(w)
  <2>1. CASE Raise(w) BY <1>t, <1>24, <2>1 DEF StatementFails, Raise, Terminal
  <2>2. CASE Unwind(w) BY <1>t, <1>24, <2>2 DEF StatementFails, Unwind, Terminal
  <2> QED BY <1>24, <2>1, <2>2 DEF StatementFails
<1>25. CASE KillCommand(w)
  BY <1>t, <1>25, KillType DEF KillCommand
<1> QED BY <1>1, <1>2, <1>3, <1>4, <1>5, <1>6, <1>7, <1>8, <1>9, <1>10, <1>11,
      <1>12, <1>13, <1>14, <1>15, <1>16, <1>17, <1>18, <1>19, <1>20, <1>21, <1>22,
      <1>23, <1>24, <1>25 DEF WorkerStep, Progress

\* A kill, at any step, preserves the whole invariant (WorkerPool, systemd).
LEMMA KillStep ==
  ASSUME WorkersInv, NEW W \in SUBSET Workers, Kill(W)
  PROVE  WorkersInv'
<1>t. WorkersTypeOK' BY KillType DEF WorkersInv
<1> USE DEF Kill, InitializeStore, gitVars, Start, WorkersInv, WorkersTypeOK
<1>1. ExecutorOwnsJob' BY DEF ExecutorOwnsJob, Executing, Holding, Finishing
<1>2. HandlerOnlyFails' BY DEF HandlerOnlyFails
<1>3. GitUnderLock' BY DEF GitUnderLock
<1>4. DashboardAgrees' BY DEF DashboardAgrees, Holding, Finishing
<1>5. RunEstablishes'
  BY DEF RunEstablishes, HasWorktree, HasMetadata, Succeeding, Accepted
<1>6. SuccessIsVerified' BY DEF SuccessIsVerified, InStatus
<1>7. AbsentUnowned' BY DEF AbsentUnowned, InStatus
<1> QED BY <1>t, <1>1, <1>2, <1>3, <1>4, <1>5, <1>6, <1>7

\* Every step of run_once, claim_next and finish preserves ExecutorOwnsJob.
LEMMA OwnStep ==
  ASSUME WorkersInv, WorkersTypeOK', NEW w \in Workers, WorkerStep(w),
        ~KillCommand(w)
  PROVE  ExecutorOwnsJob'
<1> USE DEF Executing, Holding, Finishing, Goto, threadVars, gitVars, envVars
<1>t. WorkersTypeOK /\ ExecutorOwnsJob BY DEF WorkersInv
<1>1. CASE HeartbeatBlocked(w)
  BY <1>t, <1>1 DEF HeartbeatBlocked, ExecutorOwnsJob, WorkersTypeOK, JobTableType,
        JobRow
<1>2. CASE NothingToClaim(w)
  BY <1>t, <1>2 DEF NothingToClaim, ExecutorOwnsJob, WorkersTypeOK, JobTableType,
        JobRow
<1>3. CASE HeartbeatIdle(w)
  BY <1>t, <1>3 DEF HeartbeatIdle, ExecutorOwnsJob, Return, Start, WorkersTypeOK,
        JobTableType, JobRow
<1>4. CASE Claim(w)
  <2>1. PICK j \in OldestQueued : /\ jobs' = Claimed(j, w)
                                 /\ cur' = [cur EXCEPT ![w] = j]
    BY <1>4 DEF Claim
  <2>2. j \in JobIds /\ jobs[j].status = "queued" BY <2>1 DEF OldestQueued, InStatus
  <2>3. jobs \in [JobIds -> JobRow] BY <1>t DEF WorkersTypeOK, JobTableType
  <2>4. /\ jobs'[j].status = "running" /\ jobs'[j].worker = w
        /\ \A k \in JobIds \ {j} : jobs'[k] = jobs[k]
    BY <2>1, <2>2, <2>3, ClaimedRow
  <2>5. \A v \in Workers : Executing(v) => v # w /\ cur[v] # j
    BY <1>t, <1>4, <2>2 DEF Claim, ExecutorOwnsJob, Terminal
  <2> QED BY <1>t, <1>4, <2>1, <2>2, <2>4, <2>5 DEF Claim, ExecutorOwnsJob,
        WorkersTypeOK
<1>5. CASE HeartbeatRunning(w)
  BY <1>t, <1>5 DEF HeartbeatRunning, ExecutorOwnsJob, WorkersTypeOK, JobTableType,
        JobRow
<1>6. CASE PrepareOk(w)
  BY <1>t, <1>6 DEF PrepareOk, ExecutorOwnsJob, WorkersTypeOK, JobTableType, JobRow
<1>7. CASE TaskRaises(w)
  BY <1>t, <1>7 DEF TaskRaises, ExecutorOwnsJob, Raise, WorkersTypeOK, JobTableType,
        JobRow
<1>8. CASE AcquireProjectLock(w)
  BY <1>t, <1>8 DEF AcquireProjectLock, ExecutorOwnsJob, WorkersTypeOK,
        JobTableType, JobRow
<1>9. CASE AddWorktree(w)
  BY <1>t, <1>9 DEF AddWorktree, ExecutorOwnsJob, WorkersTypeOK, JobTableType,
        JobRow
<1>10. CASE GitFails(w)
  BY <1>t, <1>10 DEF GitFails, ExecutorOwnsJob, Raise, WorkersTypeOK, JobTableType,
        JobRow
<1>11. CASE SetExecutionMetadata(w)
  BY <1>t, <1>11 DEF SetExecutionMetadata, ExecutorOwnsJob, WorkersTypeOK,
        JobTableType, JobRow
<1>12. CASE MetadataEvent(w)
  BY <1>t, <1>12 DEF MetadataEvent, ExecutorOwnsJob, WorkersTypeOK, JobTableType,
        JobRow
<1>13. CASE ExecuteCodex(w)
  BY <1>t, <1>13 DEF ExecuteCodex, ExecutorOwnsJob, WorkersTypeOK, JobTableType,
        JobRow
<1>14. CASE ValidateOutcome(w)
  BY <1>t, <1>14 DEF ValidateOutcome, ExecutorOwnsJob, WorkersTypeOK, JobTableType,
        JobRow
<1>15. CASE FinishUpdate(w)
  <2>1. cur[w] \in JobIds
    BY <1>t, <1>15 DEF FinishUpdate, ExecutorOwnsJob, Executing, Holding
  <2>2. verdict[w] \in Terminal /\ jobs \in [JobIds -> JobRow] BY <1>t DEF
        WorkersTypeOK, JobTableType
  <2>3. CASE Unfinalised(cur[w])
    BY <1>t, <1>15, <2>1, <2>2, <2>3, FinishedRow DEF FinishUpdate, ExecutorOwnsJob,
          WorkersTypeOK, HandlerOnlyFails
  <2>4. CASE ~Unfinalised(cur[w])
    BY <1>t, <1>15, <2>1, <2>4 DEF FinishUpdate, ExecutorOwnsJob, WorkersTypeOK
  <2> QED BY <2>3, <2>4
<1>16. CASE FinishEvent(w)
  BY <1>t, <1>16 DEF FinishEvent, ExecutorOwnsJob, WorkersTypeOK, JobTableType,
        JobRow
<1>17. CASE HeartbeatDone(w)
  BY <1>t, <1>17 DEF HeartbeatDone, ExecutorOwnsJob, Return, Start, WorkersTypeOK,
        JobTableType, JobRow
<1>18. CASE CommandInserted(w)
  BY <1>t, <1>18 DEF CommandInserted, ExecutorOwnsJob, WorkersTypeOK, JobTableType,
        JobRow
<1>19. CASE PreflightOk(w)
  BY <1>t, <1>19 DEF PreflightOk, ExecutorOwnsJob, WorkersTypeOK, JobTableType,
        JobRow
<1>20. CASE PreflightBlocked(w)
  BY <1>t, <1>20 DEF PreflightBlocked, ExecutorOwnsJob, WorkersTypeOK, JobTableType,
        JobRow
<1>21. CASE PreflightHangs(w)
  BY <1>t, <1>21 DEF PreflightHangs, ExecutorOwnsJob, Unwind, WorkersTypeOK,
        JobTableType, JobRow
<1>22. CASE \E kind \in Kinds : CommandInsert(w, kind)
  <2>1. PICK kind \in Kinds, j \in JobIds : /\ CommandInsert(w, kind)
                                             /\ InsertJob(j, kind)
    BY <1>22 DEF CommandInsert
  <2>2. PICK stamp : jobs' = [jobs EXCEPT ![j] = QueuedRow(kind, stamp)]
    BY <2>1 DEF InsertJob
  <2>3. jobs[j].status = "absent" BY <2>1 DEF InsertJob
  <2> QED BY <1>t, <2>1, <2>2, <2>3 DEF CommandInsert, ExecutorOwnsJob,
        WorkersTypeOK, JobTableType, Terminal
<1>23. CASE CommandRunOnce(w)
  BY <1>t, <1>23 DEF CommandRunOnce, ExecutorOwnsJob, WorkersTypeOK, JobTableType,
        JobRow
<1>24. CASE StatementFails(w)
  <2>1. CASE pc[w] \in Guarded /\ ~handling[w] /\ Raise(w)
    BY <1>t, <1>24, <2>1 DEF StatementFails, Guarded, Unguarded, Raise,
          ExecutorOwnsJob, WorkersTypeOK
  <2>2. CASE Unwind(w)
    BY <1>t, <1>24, <2>2 DEF StatementFails, Guarded, Unguarded, Unwind,
          ExecutorOwnsJob, WorkersTypeOK
  <2> QED BY <1>24, <2>1, <2>2 DEF StatementFails
<1> QED BY <1>1, <1>2, <1>3, <1>4, <1>5, <1>6, <1>7, <1>8, <1>9, <1>10, <1>11,
      <1>12, <1>13, <1>14, <1>15, <1>16, <1>17, <1>18, <1>19, <1>20, <1>21, <1>22,
      <1>23, <1>24 DEF WorkerStep, Progress

\* run_once's except clause only records failures.
LEMMA HandlerStep ==
  ASSUME WorkersInv, WorkersTypeOK', NEW w \in Workers, WorkerStep(w),
        ~KillCommand(w)
  PROVE  HandlerOnlyFails'
<1> USE DEF Finishing, Goto, threadVars, gitVars, envVars
<1>t. WorkersTypeOK /\ HandlerOnlyFails BY DEF WorkersInv
<1>1. CASE HeartbeatBlocked(w)
  BY <1>t, <1>1 DEF HeartbeatBlocked, HandlerOnlyFails, WorkersTypeOK, JobTableType
<1>2. CASE NothingToClaim(w)
  BY <1>t, <1>2 DEF NothingToClaim, HandlerOnlyFails, WorkersTypeOK, JobTableType
<1>3. CASE HeartbeatIdle(w)
  BY <1>t, <1>3 DEF HeartbeatIdle, HandlerOnlyFails, Return, Start, WorkersTypeOK,
        JobTableType
<1>4. CASE Claim(w)
  BY <1>t, <1>4 DEF Claim, HandlerOnlyFails, WorkersTypeOK, JobTableType
<1>5. CASE HeartbeatRunning(w)
  BY <1>t, <1>5 DEF HeartbeatRunning, HandlerOnlyFails, WorkersTypeOK, JobTableType
<1>6. CASE PrepareOk(w)
  BY <1>t, <1>6 DEF PrepareOk, HandlerOnlyFails, WorkersTypeOK, JobTableType
<1>7. CASE TaskRaises(w)
  BY <1>t, <1>7 DEF TaskRaises, HandlerOnlyFails, Raise, WorkersTypeOK, JobTableType
<1>8. CASE AcquireProjectLock(w)
  BY <1>t, <1>8 DEF AcquireProjectLock, HandlerOnlyFails, WorkersTypeOK,
        JobTableType
<1>9. CASE AddWorktree(w)
  BY <1>t, <1>9 DEF AddWorktree, HandlerOnlyFails, WorkersTypeOK, JobTableType
<1>10. CASE GitFails(w)
  BY <1>t, <1>10 DEF GitFails, HandlerOnlyFails, Raise, WorkersTypeOK, JobTableType
<1>11. CASE SetExecutionMetadata(w)
  BY <1>t, <1>11 DEF SetExecutionMetadata, HandlerOnlyFails, WorkersTypeOK,
        JobTableType
<1>12. CASE MetadataEvent(w)
  BY <1>t, <1>12 DEF MetadataEvent, HandlerOnlyFails, WorkersTypeOK, JobTableType
<1>13. CASE ExecuteCodex(w)
  BY <1>t, <1>13 DEF ExecuteCodex, HandlerOnlyFails, WorkersTypeOK, JobTableType
<1>14. CASE ValidateOutcome(w)
  BY <1>t, <1>14 DEF ValidateOutcome, HandlerOnlyFails, WorkersTypeOK, JobTableType
<1>15. CASE FinishUpdate(w)
  BY <1>t, <1>15 DEF FinishUpdate, HandlerOnlyFails, WorkersTypeOK, JobTableType
<1>16. CASE FinishEvent(w)
  BY <1>t, <1>16 DEF FinishEvent, HandlerOnlyFails, WorkersTypeOK, JobTableType
<1>17. CASE HeartbeatDone(w)
  BY <1>t, <1>17 DEF HeartbeatDone, HandlerOnlyFails, Return, Start, WorkersTypeOK,
        JobTableType
<1>18. CASE CommandInserted(w)
  BY <1>t, <1>18 DEF CommandInserted, HandlerOnlyFails, WorkersTypeOK, JobTableType
<1>19. CASE PreflightOk(w)
  BY <1>t, <1>19 DEF PreflightOk, HandlerOnlyFails, WorkersTypeOK, JobTableType
<1>20. CASE PreflightBlocked(w)
  BY <1>t, <1>20 DEF PreflightBlocked, HandlerOnlyFails, WorkersTypeOK, JobTableType
<1>21. CASE PreflightHangs(w)
  BY <1>t, <1>21 DEF PreflightHangs, HandlerOnlyFails, Unwind, WorkersTypeOK,
        JobTableType
<1>22. CASE \E kind \in Kinds : CommandInsert(w, kind)
  BY <1>t, <1>22 DEF CommandInsert, HandlerOnlyFails, WorkersTypeOK, JobTableType
<1>23. CASE CommandRunOnce(w)
  BY <1>t, <1>23 DEF CommandRunOnce, HandlerOnlyFails, WorkersTypeOK, JobTableType
<1>24. CASE StatementFails(w)
  BY <1>t, <1>24 DEF StatementFails, HandlerOnlyFails, Unwind, Raise, WorkersTypeOK,
        JobTableType
<1> QED BY <1>1, <1>2, <1>3, <1>4, <1>5, <1>6, <1>7, <1>8, <1>9, <1>10, <1>11,
      <1>12, <1>13, <1>14, <1>15, <1>16, <1>17, <1>18, <1>19, <1>20, <1>21, <1>22,
      <1>23, <1>24 DEF WorkerStep, Progress

\* _project_lock: git runs only under the lock, after every step.
LEMMA LockStep ==
  ASSUME WorkersInv, WorkersTypeOK', NEW w \in Workers, WorkerStep(w),
        ~KillCommand(w)
  PROVE  GitUnderLock'
<1> USE DEF Goto, threadVars, gitVars, envVars
<1>t. WorkersTypeOK /\ GitUnderLock BY DEF WorkersInv
<1>1. CASE HeartbeatBlocked(w)
  BY <1>t, <1>1 DEF HeartbeatBlocked, GitUnderLock, WorkersTypeOK
<1>2. CASE NothingToClaim(w)
  BY <1>t, <1>2 DEF NothingToClaim, GitUnderLock, WorkersTypeOK
<1>3. CASE HeartbeatIdle(w)
  BY <1>t, <1>3 DEF HeartbeatIdle, GitUnderLock, Return, Start, WorkersTypeOK
<1>4. CASE Claim(w)
  BY <1>t, <1>4 DEF Claim, GitUnderLock, WorkersTypeOK
<1>5. CASE HeartbeatRunning(w)
  BY <1>t, <1>5 DEF HeartbeatRunning, GitUnderLock, WorkersTypeOK
<1>6. CASE PrepareOk(w)
  BY <1>t, <1>6 DEF PrepareOk, GitUnderLock, WorkersTypeOK
<1>7. CASE TaskRaises(w)
  BY <1>t, <1>7 DEF TaskRaises, GitUnderLock, Raise, WorkersTypeOK
<1>8. CASE AcquireProjectLock(w)
  BY <1>t, <1>8, NoneAssumption DEF AcquireProjectLock, GitUnderLock, WorkersTypeOK
<1>9. CASE AddWorktree(w)
  BY <1>t, <1>9 DEF AddWorktree, GitUnderLock, WorkersTypeOK
<1>10. CASE GitFails(w)
  BY <1>t, <1>10 DEF GitFails, GitUnderLock, Raise, WorkersTypeOK
<1>11. CASE SetExecutionMetadata(w)
  BY <1>t, <1>11 DEF SetExecutionMetadata, GitUnderLock, WorkersTypeOK
<1>12. CASE MetadataEvent(w)
  BY <1>t, <1>12 DEF MetadataEvent, GitUnderLock, WorkersTypeOK
<1>13. CASE ExecuteCodex(w)
  BY <1>t, <1>13 DEF ExecuteCodex, GitUnderLock, WorkersTypeOK
<1>14. CASE ValidateOutcome(w)
  BY <1>t, <1>14 DEF ValidateOutcome, GitUnderLock, WorkersTypeOK
<1>15. CASE FinishUpdate(w)
  BY <1>t, <1>15 DEF FinishUpdate, GitUnderLock, WorkersTypeOK
<1>16. CASE FinishEvent(w)
  BY <1>t, <1>16 DEF FinishEvent, GitUnderLock, WorkersTypeOK
<1>17. CASE HeartbeatDone(w)
  BY <1>t, <1>17 DEF HeartbeatDone, GitUnderLock, Return, Start, WorkersTypeOK
<1>18. CASE CommandInserted(w)
  BY <1>t, <1>18 DEF CommandInserted, GitUnderLock, WorkersTypeOK
<1>19. CASE PreflightOk(w)
  BY <1>t, <1>19 DEF PreflightOk, GitUnderLock, WorkersTypeOK
<1>20. CASE PreflightBlocked(w)
  BY <1>t, <1>20 DEF PreflightBlocked, GitUnderLock, WorkersTypeOK
<1>21. CASE PreflightHangs(w)
  BY <1>t, <1>21 DEF PreflightHangs, GitUnderLock, Unwind, WorkersTypeOK
<1>22. CASE \E kind \in Kinds : CommandInsert(w, kind)
  BY <1>t, <1>22 DEF CommandInsert, GitUnderLock, WorkersTypeOK
<1>23. CASE CommandRunOnce(w)
  BY <1>t, <1>23 DEF CommandRunOnce, GitUnderLock, WorkersTypeOK
<1>24. CASE StatementFails(w)
  BY <1>t, <1>24 DEF StatementFails, GitUnderLock, Unwind, Raise, WorkersTypeOK
<1> QED BY <1>1, <1>2, <1>3, <1>4, <1>5, <1>6, <1>7, <1>8, <1>9, <1>10, <1>11,
      <1>12, <1>13, <1>14, <1>15, <1>16, <1>17, <1>18, <1>19, <1>20, <1>21, <1>22,
      <1>23, <1>24 DEF WorkerStep, Progress

\* JobStore.heartbeat keeps the workers table true to run_once.
LEMMA DashboardStep ==
  ASSUME WorkersInv, WorkersTypeOK', NEW w \in Workers, WorkerStep(w),
        ~KillCommand(w)
  PROVE  DashboardAgrees'
<1> USE DEF Holding, Finishing, Goto, threadVars, gitVars, envVars
<1>t. WorkersTypeOK /\ ExecutorOwnsJob /\ DashboardAgrees BY DEF WorkersInv
<1>1. CASE HeartbeatBlocked(w)
  BY <1>t, <1>1 DEF HeartbeatBlocked, DashboardAgrees, SetRow, WorkersTypeOK,
        ExecutorOwnsJob, Executing
<1>2. CASE NothingToClaim(w)
  BY <1>t, <1>2 DEF NothingToClaim, DashboardAgrees, WorkersTypeOK, ExecutorOwnsJob,
        Executing
<1>3. CASE HeartbeatIdle(w)
  BY <1>t, <1>3 DEF HeartbeatIdle, DashboardAgrees, SetRow, Return, Start,
        WorkersTypeOK, ExecutorOwnsJob, Executing
<1>4. CASE Claim(w)
  BY <1>t, <1>4 DEF Claim, DashboardAgrees, WorkersTypeOK, ExecutorOwnsJob,
        Executing
<1>5. CASE HeartbeatRunning(w)
  BY <1>t, <1>5 DEF HeartbeatRunning, DashboardAgrees, SetRow, WorkersTypeOK,
        ExecutorOwnsJob, Executing
<1>6. CASE PrepareOk(w)
  BY <1>t, <1>6 DEF PrepareOk, DashboardAgrees, WorkersTypeOK, ExecutorOwnsJob,
        Executing
<1>7. CASE TaskRaises(w)
  BY <1>t, <1>7 DEF TaskRaises, DashboardAgrees, Raise, WorkersTypeOK,
        ExecutorOwnsJob, Executing
<1>8. CASE AcquireProjectLock(w)
  BY <1>t, <1>8 DEF AcquireProjectLock, DashboardAgrees, WorkersTypeOK,
        ExecutorOwnsJob, Executing
<1>9. CASE AddWorktree(w)
  BY <1>t, <1>9 DEF AddWorktree, DashboardAgrees, WorkersTypeOK, ExecutorOwnsJob,
        Executing
<1>10. CASE GitFails(w)
  BY <1>t, <1>10 DEF GitFails, DashboardAgrees, Raise, WorkersTypeOK,
        ExecutorOwnsJob, Executing
<1>11. CASE SetExecutionMetadata(w)
  BY <1>t, <1>11 DEF SetExecutionMetadata, DashboardAgrees, WorkersTypeOK,
        ExecutorOwnsJob, Executing
<1>12. CASE MetadataEvent(w)
  BY <1>t, <1>12 DEF MetadataEvent, DashboardAgrees, WorkersTypeOK, ExecutorOwnsJob,
        Executing
<1>13. CASE ExecuteCodex(w)
  BY <1>t, <1>13 DEF ExecuteCodex, DashboardAgrees, WorkersTypeOK, ExecutorOwnsJob,
        Executing
<1>14. CASE ValidateOutcome(w)
  BY <1>t, <1>14 DEF ValidateOutcome, DashboardAgrees, WorkersTypeOK,
        ExecutorOwnsJob, Executing
<1>15. CASE FinishUpdate(w)
  BY <1>t, <1>15 DEF FinishUpdate, DashboardAgrees, WorkersTypeOK, ExecutorOwnsJob,
        Executing
<1>16. CASE FinishEvent(w)
  BY <1>t, <1>16 DEF FinishEvent, DashboardAgrees, WorkersTypeOK, ExecutorOwnsJob,
        Executing
<1>17. CASE HeartbeatDone(w)
  BY <1>t, <1>17 DEF HeartbeatDone, DashboardAgrees, SetRow, Return, Start,
        WorkersTypeOK, ExecutorOwnsJob, Executing
<1>18. CASE CommandInserted(w)
  BY <1>t, <1>18 DEF CommandInserted, DashboardAgrees, WorkersTypeOK,
        ExecutorOwnsJob, Executing
<1>19. CASE PreflightOk(w)
  BY <1>t, <1>19 DEF PreflightOk, DashboardAgrees, WorkersTypeOK, ExecutorOwnsJob,
        Executing
<1>20. CASE PreflightBlocked(w)
  BY <1>t, <1>20 DEF PreflightBlocked, DashboardAgrees, WorkersTypeOK,
        ExecutorOwnsJob, Executing
<1>21. CASE PreflightHangs(w)
  BY <1>t, <1>21 DEF PreflightHangs, DashboardAgrees, Unwind, WorkersTypeOK,
        ExecutorOwnsJob, Executing
<1>22. CASE \E kind \in Kinds : CommandInsert(w, kind)
  BY <1>t, <1>22 DEF CommandInsert, DashboardAgrees, WorkersTypeOK, ExecutorOwnsJob,
        Executing
<1>23. CASE CommandRunOnce(w)
  BY <1>t, <1>23 DEF CommandRunOnce, DashboardAgrees, WorkersTypeOK,
        ExecutorOwnsJob, Executing
<1>24. CASE StatementFails(w)
  <2>1. CASE pc[w] \in Guarded /\ ~handling[w] /\ Raise(w)
    BY <1>t, <1>24, <2>1 DEF StatementFails, Guarded, Unguarded, Raise,
          DashboardAgrees, WorkersTypeOK
  <2>2. CASE Unwind(w)
    BY <1>t, <1>24, <2>2 DEF StatementFails, Guarded, Unguarded, Unwind,
          DashboardAgrees, WorkersTypeOK
  <2> QED BY <1>24, <2>1, <2>2 DEF StatementFails
<1> QED BY <1>1, <1>2, <1>3, <1>4, <1>5, <1>6, <1>7, <1>8, <1>9, <1>10, <1>11,
      <1>12, <1>13, <1>14, <1>15, <1>16, <1>17, <1>18, <1>19, <1>20, <1>21, <1>22,
      <1>23, <1>24 DEF WorkerStep, Progress

\* _validate_codex_outcome only looks at the job's kind and outcome.
LEMMA AcceptedFrame ==
  ASSUME NEW j, jobs'[j].kind = jobs[j].kind, outcome'[j] = outcome[j]
  PROVE  Accepted(j)' <=> Accepted(j)
  BY DEF Accepted

\* What run_once has established holds at its next line.
LEMMA EstablishStep ==
  ASSUME WorkersInv, WorkersTypeOK', NEW w \in Workers, WorkerStep(w),
        ~KillCommand(w)
  PROVE  RunEstablishes'
<1> USE DEF Holding, Finishing, Goto, threadVars, gitVars, envVars, HasWorktree,
      HasMetadata, Succeeding, RunEstablishes
<1>t. WorkersTypeOK /\ ExecutorOwnsJob /\ RunEstablishes BY DEF WorkersInv
<1>a. UNCHANGED <<jobs, outcome>> => \A j : Accepted(j)' <=> Accepted(j)
  BY DEF Accepted
<1>1. CASE HeartbeatBlocked(w)
  BY <1>t, <1>a, <1>1 DEF HeartbeatBlocked, Terminal, WorkersTypeOK
<1>2. CASE NothingToClaim(w)
  BY <1>t, <1>a, <1>2 DEF NothingToClaim, Terminal, WorkersTypeOK
<1>3. CASE HeartbeatIdle(w)
  BY <1>t, <1>a, <1>3 DEF HeartbeatIdle, Return, Start, Terminal, WorkersTypeOK
<1>4. CASE Claim(w)
  <2>1. PICK j \in OldestQueued : /\ jobs' = Claimed(j, w)
                                 /\ cur' = [cur EXCEPT ![w] = j]
    BY <1>4 DEF Claim
  <2>2. j \in JobIds /\ jobs[j].status = "queued" BY <2>1 DEF OldestQueued, InStatus
  <2>3. jobs \in [JobIds -> JobRow] BY <1>t DEF WorkersTypeOK, JobTableType
  <2>4. \A k \in JobIds \ {j} : jobs'[k] = jobs[k] BY <2>1, <2>2, <2>3, ClaimedRow
  <2>5. \A v \in Workers : Executing(v) => v # w /\ cur[v] \in JobIds \ {j}
    BY <1>t, <1>4, <2>2 DEF Claim, ExecutorOwnsJob, Executing, Terminal
  <2>6. \A k \in JobIds \ {j} : Accepted(k)' <=> Accepted(k)
    BY <1>4, <2>4, AcceptedFrame DEF Claim
  <2> QED BY <1>t, <1>4, <2>1, <2>2, <2>4, <2>5, <2>6 DEF Claim, Executing,
        WorkersTypeOK
<1>5. CASE HeartbeatRunning(w)
  BY <1>t, <1>a, <1>5 DEF HeartbeatRunning, Terminal, WorkersTypeOK
<1>6. CASE PrepareOk(w)
  BY <1>t, <1>a, <1>6 DEF PrepareOk, Terminal, WorkersTypeOK
<1>7. CASE TaskRaises(w)
  BY <1>t, <1>a, <1>7 DEF TaskRaises, Raise, Terminal, WorkersTypeOK
<1>8. CASE AcquireProjectLock(w)
  BY <1>t, <1>a, <1>8 DEF AcquireProjectLock, Terminal, WorkersTypeOK
<1>9. CASE AddWorktree(w)
  BY <1>t, <1>a, <1>9 DEF AddWorktree, WorkersTypeOK
<1>10. CASE GitFails(w)
  BY <1>t, <1>a, <1>10 DEF GitFails, Raise, Terminal, WorkersTypeOK
<1>11. CASE SetExecutionMetadata(w)
  <2>1. /\ cur[w] \in JobIds
        /\ jobs \in [JobIds -> JobRow]
    BY <1>t, <1>11 DEF SetExecutionMetadata, ExecutorOwnsJob, Executing,
          WorkersTypeOK, JobTableType
  <2>2. \A k \in JobIds : /\ jobs'[k].kind = jobs[k].kind
                          /\ jobs[k].branch => jobs'[k].branch
                          /\ jobs'[cur[w]].branch
    BY <1>11, <2>1 DEF SetExecutionMetadata, JobRow
  <2>3. \A k \in JobIds : Accepted(k)' <=> Accepted(k)
    BY <1>11, <2>2, AcceptedFrame DEF SetExecutionMetadata
  <2>4. \A v \in Workers : HasWorktree(v) \/ Succeeding(v) => cur[v] \in JobIds
    BY <1>t DEF ExecutorOwnsJob, Executing
  <2> QED BY <1>t, <1>11, <2>1, <2>2, <2>3, <2>4 DEF SetExecutionMetadata,
        WorkersTypeOK
<1>12. CASE MetadataEvent(w)
  BY <1>t, <1>a, <1>12 DEF MetadataEvent, Terminal, WorkersTypeOK
<1>13. CASE ExecuteCodex(w)
  <2>1. \A v \in Workers : Executing(v) => cur[v] \in JobIds /\ (v # w => cur[v] #
        cur[w])
    BY <1>t, <1>13 DEF ExecuteCodex, ExecutorOwnsJob, Executing
  <2>2. \A k \in JobIds \ {cur[w]} : outcome'[k] = outcome[k]
    BY <1>t, <1>13 DEF ExecuteCodex, WorkersTypeOK
  <2>3. \A k \in JobIds \ {cur[w]} : Accepted(k)' <=> Accepted(k)
    BY <1>13, <2>2, AcceptedFrame DEF ExecuteCodex
  <2> QED BY <1>t, <1>13, <2>1, <2>3 DEF ExecuteCodex, Executing, WorkersTypeOK
<1>14. CASE ValidateOutcome(w)
  BY <1>t, <1>a, <1>14 DEF ValidateOutcome, Terminal, WorkersTypeOK
<1>15. CASE FinishUpdate(w)
  <2>1. cur[w] \in JobIds
    BY <1>t, <1>15 DEF FinishUpdate, ExecutorOwnsJob, Executing, Holding
  <2>2. verdict[w] \in Terminal /\ jobs \in [JobIds -> JobRow] BY <1>t DEF
        WorkersTypeOK, JobTableType
  <2>3. \A k \in JobIds : jobs'[k].kind = jobs[k].kind /\ jobs'[k].branch =
        jobs[k].branch
    BY <1>15, <2>1, <2>2, FinishedRow DEF FinishUpdate
  <2>4. \A k \in JobIds : Accepted(k)' <=> Accepted(k)
    BY <1>15, <2>3, AcceptedFrame DEF FinishUpdate
  <2>5. \A v \in Workers : HasWorktree(v) \/ Succeeding(v) => cur[v] \in JobIds
    BY <1>t DEF ExecutorOwnsJob, Executing
  <2> QED BY <1>t, <1>15, <2>3, <2>4, <2>5 DEF FinishUpdate, WorkersTypeOK
<1>16. CASE FinishEvent(w)
  BY <1>t, <1>a, <1>16 DEF FinishEvent, Terminal, WorkersTypeOK
<1>17. CASE HeartbeatDone(w)
  BY <1>t, <1>a, <1>17 DEF HeartbeatDone, Return, Start, Terminal, WorkersTypeOK
<1>18. CASE CommandInserted(w)
  BY <1>t, <1>a, <1>18 DEF CommandInserted, Terminal, WorkersTypeOK
<1>19. CASE PreflightOk(w)
  BY <1>t, <1>a, <1>19 DEF PreflightOk, Terminal, WorkersTypeOK
<1>20. CASE PreflightBlocked(w)
  BY <1>t, <1>a, <1>20 DEF PreflightBlocked, Terminal, WorkersTypeOK
<1>21. CASE PreflightHangs(w)
  BY <1>t, <1>a, <1>21 DEF PreflightHangs, Unwind, Terminal, WorkersTypeOK
<1>22. CASE \E kind \in Kinds : CommandInsert(w, kind)
  <2>1. PICK kind \in Kinds, j \in JobIds : /\ CommandInsert(w, kind)
                                             /\ InsertJob(j, kind)
    BY <1>22 DEF CommandInsert
  <2>2. PICK stamp : jobs' = [jobs EXCEPT ![j] = QueuedRow(kind, stamp)]
    BY <2>1 DEF InsertJob
  <2>3. jobs[j].status = "absent" BY <2>1 DEF InsertJob
  <2>4. \A k \in JobIds \ {j} : jobs'[k] = jobs[k]
    BY <1>t, <2>2 DEF WorkersTypeOK, JobTableType
  <2>5. \A v \in Workers : Executing(v) => v # w /\ cur[v] \in JobIds \ {j}
    BY <1>t, <2>1, <2>3 DEF CommandInsert, ExecutorOwnsJob, Executing, Terminal
  <2>6. \A k \in JobIds \ {j} : Accepted(k)' <=> Accepted(k)
    BY <2>1, <2>4, AcceptedFrame DEF CommandInsert
  <2> QED BY <1>t, <2>1, <2>4, <2>5, <2>6 DEF CommandInsert, Executing,
        WorkersTypeOK
<1>23. CASE CommandRunOnce(w)
  BY <1>t, <1>a, <1>23 DEF CommandRunOnce, Terminal, WorkersTypeOK
<1>24. CASE StatementFails(w)
  <2>1. CASE pc[w] \in Guarded /\ ~handling[w] /\ Raise(w)
    BY <1>t, <1>a, <1>24, <2>1 DEF StatementFails, Guarded, Unguarded, Raise,
          WorkersTypeOK, Terminal
  <2>2. CASE Unwind(w)
    BY <1>t, <1>a, <1>24, <2>2 DEF StatementFails, Guarded, Unguarded, Unwind,
          WorkersTypeOK, Terminal
  <2> QED BY <1>24, <2>1, <2>2 DEF StatementFails
<1> QED BY <1>1, <1>2, <1>3, <1>4, <1>5, <1>6, <1>7, <1>8, <1>9, <1>10, <1>11,
      <1>12, <1>13, <1>14, <1>15, <1>16, <1>17, <1>18, <1>19, <1>20, <1>21, <1>22,
      <1>23, <1>24 DEF WorkerStep, Progress

\* JobStore.finish records a success only for a validated run.
LEMMA SuccessStep ==
  ASSUME WorkersInv, WorkersTypeOK', NEW w \in Workers, WorkerStep(w),
        ~KillCommand(w)
  PROVE  SuccessIsVerified'
<1> USE DEF Goto, threadVars, gitVars, envVars, InStatus, SuccessIsVerified
<1>t. WorkersTypeOK /\ ExecutorOwnsJob /\ HandlerOnlyFails /\ RunEstablishes /\
      SuccessIsVerified BY DEF WorkersInv
<1>1. CASE HeartbeatBlocked(w)
  BY <1>t, <1>1 DEF HeartbeatBlocked, SetRow, WorkersTypeOK
<1>2. CASE NothingToClaim(w)
  BY <1>t, <1>2 DEF NothingToClaim, WorkersTypeOK
<1>3. CASE HeartbeatIdle(w)
  BY <1>t, <1>3 DEF HeartbeatIdle, Return, SetRow, WorkersTypeOK
<1>4. CASE Claim(w)
  <2>1. PICK j \in OldestQueued : /\ jobs' = Claimed(j, w)
                                 /\ cur' = [cur EXCEPT ![w] = j]
    BY <1>4 DEF Claim
  <2>2. j \in JobIds /\ jobs[j].status = "queued" BY <2>1 DEF OldestQueued, InStatus
  <2>3. jobs \in [JobIds -> JobRow] BY <1>t DEF WorkersTypeOK, JobTableType
  <2>4. jobs'[j].status = "running" /\ \A k \in JobIds \ {j} : jobs'[k] = jobs[k]
    BY <2>1, <2>2, <2>3, ClaimedRow
  <2> QED BY <1>t, <1>4, <2>4 DEF Claim
<1>5. CASE HeartbeatRunning(w)
  BY <1>t, <1>5 DEF HeartbeatRunning, SetRow, WorkersTypeOK
<1>6. CASE PrepareOk(w)
  BY <1>t, <1>6 DEF PrepareOk, WorkersTypeOK
<1>7. CASE TaskRaises(w)
  BY <1>t, <1>7 DEF TaskRaises, Raise, WorkersTypeOK
<1>8. CASE AcquireProjectLock(w)
  BY <1>t, <1>8 DEF AcquireProjectLock, WorkersTypeOK
<1>9. CASE AddWorktree(w)
  BY <1>t, <1>9 DEF AddWorktree, WorkersTypeOK
<1>10. CASE GitFails(w)
  BY <1>t, <1>10 DEF GitFails, Raise, WorkersTypeOK
<1>11. CASE SetExecutionMetadata(w)
  BY <1>t, <1>11, ZenonT(40) DEF SetExecutionMetadata, WorkersTypeOK, JobTableType, JobRow
<1>12. CASE MetadataEvent(w)
  BY <1>t, <1>12 DEF MetadataEvent, WorkersTypeOK
<1>13. CASE ExecuteCodex(w)
  <2>1. cur[w] \in JobIds /\ jobs[cur[w]].status = "running"
    BY <1>t, <1>13 DEF ExecuteCodex, ExecutorOwnsJob, Executing, Holding, Finishing,
          HandlerOnlyFails
  <2>2. \A k \in JobIds \ {cur[w]} : outcome'[k] = outcome[k]
    BY <1>t, <1>13 DEF ExecuteCodex, WorkersTypeOK
  <2> QED BY <1>t, <1>13, <2>1, <2>2 DEF ExecuteCodex
<1>14. CASE ValidateOutcome(w)
  BY <1>t, <1>14 DEF ValidateOutcome, WorkersTypeOK
<1>15. CASE FinishUpdate(w)
  <2>1. cur[w] \in JobIds
    BY <1>t, <1>15 DEF FinishUpdate, ExecutorOwnsJob, Executing, Holding
  <2>2. verdict[w] \in Terminal /\ jobs \in [JobIds -> JobRow] BY <1>t DEF
        WorkersTypeOK, JobTableType
  <2>a. \A k \in JobIds \ {cur[w]} : jobs'[k] = jobs[k]
    BY <1>15, <2>1, <2>2, FinishedRow DEF FinishUpdate
  <2>b. Unfinalised(cur[w]) => /\ jobs'[cur[w]].status = verdict[w]
                               /\ jobs'[cur[w]].branch = jobs[cur[w]].branch
                               /\ jobs'[cur[w]].kind = jobs[cur[w]].kind
                               /\ verdict[w] = "succeeded" => jobs'[cur[w]].exit =
                                     "zero"
    BY <1>15, <2>1, <2>2, FinishedRow DEF FinishUpdate
  <2>3. ASSUME NEW k \in JobIds, jobs'[k].status = "succeeded"
        PROVE  /\ k \in worktrees /\ jobs'[k].branch /\ jobs'[k].exit = "zero"
               /\ {"exit zero", "not blocked"} \subseteq outcome[k]
               /\ jobs'[k].kind = "publish" => PublishFacts \subseteq outcome[k]
    <3>1. CASE jobs'[k] = jobs[k]
      BY <1>t, <2>3, <3>1
    <3>2. CASE k = cur[w] /\ Unfinalised(k)
      <4>a. Unfinalised(cur[w]) /\ jobs'[cur[w]].status = "succeeded" BY <2>3, <3>2
      <4>b. verdict[w] = "succeeded" BY <2>b, <4>a
      <4>1. Succeeding(w) BY <1>15, <4>b DEF FinishUpdate, Succeeding
      <4>2. k \in worktrees /\ jobs[k].branch /\ Accepted(k)
        BY <1>t, <3>2, <4>1 DEF RunEstablishes
      <4>c. jobs'[k].branch /\ jobs'[k].exit = "zero" /\ jobs'[k].kind =
            jobs[k].kind
        BY <2>b, <3>2, <4>a, <4>b, <4>2
      <4> QED BY <4>2, <4>c DEF Accepted
    <3> QED BY <1>15, <2>a, <3>1, <3>2 DEF FinishUpdate
  <2> QED BY <1>15, <2>3 DEF FinishUpdate
<1>16. CASE FinishEvent(w)
  BY <1>t, <1>16 DEF FinishEvent, WorkersTypeOK
<1>17. CASE HeartbeatDone(w)
  BY <1>t, <1>17 DEF HeartbeatDone, Return, SetRow, WorkersTypeOK
<1>18. CASE CommandInserted(w)
  BY <1>t, <1>18 DEF CommandInserted, WorkersTypeOK
<1>19. CASE PreflightOk(w)
  BY <1>t, <1>19 DEF PreflightOk, WorkersTypeOK
<1>20. CASE PreflightBlocked(w)
  BY <1>t, <1>20 DEF PreflightBlocked, WorkersTypeOK
<1>21. CASE PreflightHangs(w)
  BY <1>t, <1>21 DEF PreflightHangs, Unwind, WorkersTypeOK
<1>22. CASE \E kind \in Kinds : CommandInsert(w, kind)
  <2>1. PICK kind \in Kinds, j \in JobIds : /\ CommandInsert(w, kind)
                                             /\ InsertJob(j, kind)
    BY <1>22 DEF CommandInsert
  <2>2. PICK stamp : jobs' = [jobs EXCEPT ![j] = QueuedRow(kind, stamp)]
    BY <2>1 DEF InsertJob
  <2>3. jobs[j].status = "absent" BY <2>1 DEF InsertJob
  <2>4. QueuedRow(kind, stamp).status = "queued" BY DEF QueuedRow, NoRow
  <2> QED BY <1>t, <2>1, <2>2, <2>4 DEF CommandInsert, WorkersTypeOK, JobTableType
<1>23. CASE CommandRunOnce(w)
  BY <1>t, <1>23 DEF CommandRunOnce, WorkersTypeOK
<1>24. CASE StatementFails(w)
  BY <1>t, <1>24 DEF StatementFails, Unwind, Raise, WorkersTypeOK
<1> QED BY <1>1, <1>2, <1>3, <1>4, <1>5, <1>6, <1>7, <1>8, <1>9, <1>10, <1>11,
      <1>12, <1>13, <1>14, <1>15, <1>16, <1>17, <1>18, <1>19, <1>20, <1>21, <1>22,
      <1>23, <1>24 DEF WorkerStep, Progress

\* What one step may do to the jobs table.
LEMMA JobsStep ==
  ASSUME WorkersInv, NEW w \in Workers, WorkerStep(w)
  PROVE  \/ UNCHANGED jobs
         \/ \E j \in JobIds : jobs[j].status = "queued" /\ jobs' = Claimed(j, w)
         \/ \E j \in JobIds : jobs' = [jobs EXCEPT ![j].branch = TRUE]
         \/ \E j \in JobIds, result \in Terminal :
              jobs[j].status = "running" /\ jobs' = Finished(j, result)
         \/ \E j \in JobIds, kind \in Kinds, stamp \in 0..clock :
              /\ jobs[j].status = "absent"
              /\ jobs' = [jobs EXCEPT ![j] = QueuedRow(kind, stamp)]
<1>t. WorkersTypeOK /\ ExecutorOwnsJob BY DEF WorkersInv
<1>1. CASE Claim(w)
  BY <1>1 DEF Claim, OldestQueued, InStatus
<1>2. CASE SetExecutionMetadata(w)
  BY <1>t, <1>2 DEF SetExecutionMetadata, Goto, ExecutorOwnsJob, Executing, Holding
<1>3. CASE FinishUpdate(w)
  BY <1>t, <1>3 DEF FinishUpdate, Unfinalised, Goto, ExecutorOwnsJob, Executing,
        Holding,
     WorkersTypeOK
<1>4. CASE \E kind \in Kinds : CommandInsert(w, kind)
  <2>1. PICK kind \in Kinds, j \in JobIds : InsertJob(j, kind)
    BY <1>4 DEF CommandInsert
  <2> QED BY <2>1 DEF InsertJob
<1>5. CASE HeartbeatBlocked(w) \/ NothingToClaim(w) \/ HeartbeatIdle(w) \/
      HeartbeatRunning(w)
  BY <1>5 DEF HeartbeatBlocked, NothingToClaim, HeartbeatIdle, HeartbeatRunning
<1>6. CASE PrepareOk(w) \/ TaskRaises(w) \/ AcquireProjectLock(w) \/ AddWorktree(w)
      \/ GitFails(w)
  BY <1>6 DEF PrepareOk, TaskRaises, AcquireProjectLock, AddWorktree, GitFails
<1>7. CASE MetadataEvent(w) \/ ExecuteCodex(w) \/ ValidateOutcome(w) \/
      FinishEvent(w) \/ HeartbeatDone(w)
  BY <1>7 DEF MetadataEvent, ExecuteCodex, ValidateOutcome, FinishEvent,
        HeartbeatDone
<1>8. CASE CommandInserted(w) \/ PreflightOk(w) \/ PreflightBlocked(w) \/
      PreflightHangs(w) \/ CommandRunOnce(w)
  BY <1>8 DEF CommandInserted, PreflightOk, PreflightBlocked, PreflightHangs,
        CommandRunOnce
<1>9. CASE StatementFails(w) \/ KillCommand(w)
  BY <1>9 DEF StatementFails, KillCommand, Kill, InitializeStore
<1> QED BY <1>1, <1>2, <1>3, <1>4, <1>5, <1>6, <1>7, <1>8, <1>9 DEF WorkerStep,
      Progress

\* No statement but claim_next's update writes worker_id.
LEMMA UnownedStep ==
  ASSUME WorkersInv, NEW w \in Workers, WorkerStep(w)
  PROVE  AbsentUnowned'
<1> USE DEF AbsentUnowned, InStatus
<1>1. AbsentUnowned /\ jobs \in [JobIds -> JobRow]
  BY DEF WorkersInv, WorkersTypeOK, JobTableType
<1>2. CASE UNCHANGED jobs
  BY <1>1, <1>2
<1>3. ASSUME NEW j \in JobIds, jobs' = Claimed(j, w) PROVE AbsentUnowned'
  BY <1>1, <1>3, ClaimedRow
<1>4. ASSUME NEW j \in JobIds, jobs' = [jobs EXCEPT ![j].branch = TRUE]
      PROVE  AbsentUnowned'
  BY <1>1, <1>4 DEF JobRow
<1>5. ASSUME NEW j \in JobIds, NEW result \in Terminal, jobs' = Finished(j, result)
      PROVE  AbsentUnowned'
  BY <1>1, <1>5, FinishedRow DEF Terminal
<1>6. ASSUME NEW j \in JobIds, NEW kind, NEW stamp,
             jobs' = [jobs EXCEPT ![j] = QueuedRow(kind, stamp)]
      PROVE  AbsentUnowned'
  <2>1. QueuedRow(kind, stamp).status = "queued" BY DEF QueuedRow, NoRow
  <2> QED BY <1>1, <1>6, <2>1
<1> QED BY <1>2, <1>3, <1>4, <1>5, <1>6, JobsStep

-----------------------------------------------------------------------------
(* The theorems.                                                           *)

\* An empty database and idle workers satisfy the invariant.
LEMMA InitInv == WorkersInit => WorkersInv
<1> USE DEF WorkersInit, JobTableInit, Start, Executing, Holding, Finishing
<1> SUFFICES ASSUME WorkersInit PROVE WorkersInv
  OBVIOUS
<1>1. NoRow \in JobRow
  BY DEF NoRow, JobRow, Statuses, Kinds
<1>2. WorkersTypeOK
  BY <1>1 DEF WorkersTypeOK, JobTableType, PcValues, Terminal, RowStates
<1>3. ExecutorOwnsJob BY DEF ExecutorOwnsJob
<1>4. HandlerOnlyFails BY DEF HandlerOnlyFails
<1>5. GitUnderLock BY DEF GitUnderLock
<1>6. DashboardAgrees BY DEF DashboardAgrees
<1>7. RunEstablishes BY DEF RunEstablishes, HasWorktree, HasMetadata, Succeeding
<1>8. SuccessIsVerified BY DEF SuccessIsVerified, InStatus, NoRow
<1>9. AbsentUnowned BY DEF AbsentUnowned, InStatus, NoRow
<1> QED BY <1>2, <1>3, <1>4, <1>5, <1>6, <1>7, <1>8, <1>9 DEF WorkersInv

\* Every step of the system preserves the invariant (WorkerPool, cli.py).
LEMMA InvStep == WorkersInv /\ [WorkersNext]_workersVars => WorkersInv'
<1> SUFFICES ASSUME WorkersInv, [WorkersNext]_workersVars PROVE WorkersInv'
  OBVIOUS
<1>1. CASE RestartService
  BY <1>1, KillStep, WorkersAssumption DEF RestartService
<1>2. ASSUME NEW w \in Workers, WorkerStep(w) PROVE WorkersInv'
  <2>1. CASE KillCommand(w)
    BY <2>1, KillStep DEF KillCommand
  <2>2. CASE ~KillCommand(w)
    BY <1>2, <2>2, TypeStep, OwnStep, HandlerStep, LockStep, DashboardStep,
       EstablishStep, SuccessStep, UnownedStep DEF WorkersInv
  <2> QED BY <2>1, <2>2
<1>3. CASE UNCHANGED workersVars
  BY <1>3 DEF WorkersInv, WorkersTypeOK, JobTableType, ExecutorOwnsJob,
        HandlerOnlyFails,
     GitUnderLock, DashboardAgrees, RunEstablishes, SuccessIsVerified,
           AbsentUnowned, InStatus, Executing,
     HasWorktree, HasMetadata, Succeeding, Accepted, workersVars, threadVars,
           gitVars, envVars
<1> QED BY <1>1, <1>2, <1>3 DEF WorkersNext

\* Whatever fails or is killed, the variables keep their types, an executing
\* worker owns a job nobody else executes, the checkout is used by one
\* worker, the dashboard tells the truth and a success was verified.
THEOREM Invariance == WorkersSpec => []WorkersInv
<1>1. WorkersInit => WorkersInv BY InitInv
<1>2. WorkersInv /\ [WorkersNext]_workersVars => WorkersInv' BY InvStep
<1> QED BY <1>1, <1>2, PTL DEF WorkersSpec

\* The tables keep to their schema and the threads to their program.
THEOREM TypeCorrectness == WorkersSpec => []WorkersTypeOK
<1>1. WorkersInv => WorkersTypeOK BY DEF WorkersInv
<1> QED BY <1>1, Invariance, PTL

\* JobStore.claim_next: the recorded owner of a job is its only executor.
THEOREM Ownership == WorkersSpec => []ExclusiveOwnership
<1>1. WorkersInv => ExecutorOwnsJob BY DEF WorkersInv
<1>2. ExecutorOwnsJob => SingleExecutor
  BY DEF ExecutorOwnsJob, SingleExecutor
<1>3. WorkersInv => ExclusiveOwnership BY <1>1, <1>2 DEF ExclusiveOwnership
<1> QED BY <1>3, Invariance, PTL

\* _project_lock: git runs on the checkout for one worker at a time.
THEOREM CheckoutLocked == WorkersSpec => []CheckoutExclusive
<1>1. WorkersInv => CheckoutExclusive BY DEF WorkersInv, GitUnderLock,
      CheckoutExclusive
<1> QED BY <1>1, Invariance, PTL

\* The workers table shows the job a worker executes.
THEOREM DashboardTruth == WorkersSpec => []DashboardAgrees
<1>1. WorkersInv => DashboardAgrees BY DEF WorkersInv
<1> QED BY <1>1, Invariance, PTL

\* run_once: a job succeeds only after its outcome was validated.
THEOREM VerifiedSuccess == WorkersSpec => []SuccessIsVerified
<1>1. WorkersInv => SuccessIsVerified BY DEF WorkersInv
<1> QED BY <1>1, Invariance, PTL

\* JobStore.finish: the first outcome of a job is its last.
THEOREM Finality == WorkersSpec => OutcomeIsFinal
<1> DEFINE Final == \A j \in JobIds : jobs[j].status \in Terminal =>
                      /\ jobs'[j].status = jobs[j].status
                      /\ jobs'[j].exit = jobs[j].exit
<1>1. ASSUME WorkersInv, NEW w \in Workers, WorkerStep(w) PROVE Final
  <2>1. jobs \in [JobIds -> JobRow] BY <1>1 DEF WorkersInv, WorkersTypeOK,
        JobTableType
  <2>2. CASE UNCHANGED jobs
    BY <2>2
  <2>3. ASSUME NEW j \in JobIds, jobs[j].status = "queued", jobs' = Claimed(j, w)
        PROVE  Final
    BY <2>1, <2>3, ClaimedRow DEF Terminal
  <2>4. ASSUME NEW j \in JobIds, jobs' = [jobs EXCEPT ![j].branch = TRUE]
        PROVE  Final
    BY <2>1, <2>4 DEF JobRow
  <2>5. ASSUME NEW j \in JobIds, NEW result \in Terminal, jobs[j].status =
        "running",
               jobs' = Finished(j, result)
        PROVE  Final
    BY <2>1, <2>5, FinishedRow DEF Terminal
  <2>6. ASSUME NEW j \in JobIds, NEW kind \in Kinds, NEW stamp, jobs[j].status =
        "absent",
               jobs' = [jobs EXCEPT ![j] = QueuedRow(kind, stamp)]
        PROVE  Final
    BY <2>1, <2>6 DEF Terminal
  <2> QED BY <1>1, <2>2, <2>3, <2>4, <2>5, <2>6, JobsStep
<1>2. WorkersInv /\ [WorkersNext]_workersVars => [Final]_workersVars
  BY <1>1 DEF WorkersNext, RestartService, Kill, InitializeStore
<1> QED BY <1>2, Invariance, PTL DEF WorkersSpec, OutcomeIsFinal

\* The worker side implements JobLifecycle: a job is queued once, claimed
\* once, and gets at most one outcome.
THEOREM Refinement == WorkersSpec => ImplementsLifecycle
<1> DEFINE Status == [j \in JobIds |-> jobs[j].status]
           Owner == [j \in JobIds |-> jobs[j].worker]
<1>1. WorkersInit => Lifecycle!LifecycleInit
  BY DEF WorkersInit, JobTableInit, NoRow, Lifecycle!LifecycleInit
<1>2. ASSUME WorkersInv, NEW w \in Workers, WorkerStep(w)
      PROVE  Lifecycle!LifecycleNext \/ UNCHANGED Lifecycle!lifecycleVars
  <2> USE DEF Lifecycle!LifecycleNext, Lifecycle!lifecycleVars
  <2>1. jobs \in [JobIds -> JobRow] BY <1>2 DEF WorkersInv, WorkersTypeOK,
        JobTableType
  <2>2. CASE UNCHANGED jobs
    BY <2>2
  <2>3. ASSUME NEW j \in JobIds, jobs[j].status = "queued", jobs' = Claimed(j, w)
        PROVE  Lifecycle!ClaimBy(j, w)
    <3>1. /\ jobs'[j].status = "running" /\ jobs'[j].worker = w
          /\ \A k \in JobIds \ {j} : jobs'[k] = jobs[k]
      BY <2>1, <2>3, ClaimedRow
    <3>2. Status' = [Status EXCEPT ![j] = "running"] BY <3>1
    <3>3. Owner' = [Owner EXCEPT ![j] = w] BY <3>1
    <3> QED BY <2>3, <3>2, <3>3 DEF Lifecycle!ClaimBy
  <2>4. ASSUME NEW j \in JobIds, jobs' = [jobs EXCEPT ![j].branch = TRUE]
        PROVE  UNCHANGED Lifecycle!lifecycleVars
    BY <2>1, <2>4 DEF JobRow
  <2>5. ASSUME NEW j \in JobIds, NEW result \in Terminal, jobs[j].status =
        "running",
               jobs' = Finished(j, result)
        PROVE  Lifecycle!Complete(j, result)
    <3>1. /\ jobs'[j].status = result /\ jobs'[j].worker = jobs[j].worker
          /\ \A k \in JobIds \ {j} : jobs'[k] = jobs[k]
      BY <2>1, <2>5, FinishedRow
    <3>2. Status' = [Status EXCEPT ![j] = result] BY <3>1
    <3>3. Owner' = Owner BY <3>1
    <3> QED BY <2>5, <3>2, <3>3 DEF Lifecycle!Complete
  <2>6. ASSUME NEW j \in JobIds, NEW kind \in Kinds, NEW stamp, jobs[j].status =
        "absent",
               jobs' = [jobs EXCEPT ![j] = QueuedRow(kind, stamp)]
        PROVE  Lifecycle!Submit(j)
    <3>1. jobs[j].worker = None
      BY <1>2, <2>6 DEF WorkersInv, AbsentUnowned, InStatus
    <3>2. QueuedRow(kind, stamp).status = "queued" /\ QueuedRow(kind, stamp).worker
          = None
      BY DEF QueuedRow, NoRow
    <3>3. /\ jobs'[j].status = "queued" /\ jobs'[j].worker = jobs[j].worker
          /\ \A k \in JobIds \ {j} : jobs'[k] = jobs[k]
      BY <2>1, <2>6, <3>1, <3>2
    <3>4. Status' = [Status EXCEPT ![j] = "queued"] BY <3>3
    <3>5. Owner' = Owner BY <3>3
    <3> QED BY <2>6, <3>4, <3>5 DEF Lifecycle!Submit
  <2> QED BY <1>2, <2>2, <2>3, <2>4, <2>5, <2>6, JobsStep DEF Terminal
<1>3. WorkersInv /\ [WorkersNext]_workersVars
        => [Lifecycle!LifecycleNext]_(Lifecycle!lifecycleVars)
  BY <1>2 DEF WorkersNext, RestartService, Kill, InitializeStore, workersVars,
        Lifecycle!lifecycleVars
<1> QED BY <1>1, <1>3, Invariance, PTL DEF WorkersSpec, ImplementsLifecycle,
      Lifecycle!LifecycleSpec

-----------------------------------------------------------------------------
(* What the records tell as long as nothing outside of a worker goes wrong. *)

\* While no statement fails, who finishes a job finds it running, and then
\* records the outcome it wrote.
FinishesOwn == faults = 0 =>
  \A w \in Workers :
    /\ pc[w] = "finish" => jobs[cur[w]].status = "running"
    /\ pc[w] \in Finishing => jobs[cur[w]].status \in Terminal
    /\ pc[w] = "finishEvent" => jobs[cur[w]].status = verdict[w]

\* The invariant of the records, beside the one of the workers
RecordsInv == FinishesOwn /\ AttendedUnlessMishap /\ AuditTrailAgrees

\* A step that is neither a claim nor part of finish moves no job but into the
\* queue, and logs no claim and no outcome.
KeepsRecords ==
  \A j \in JobIds :
    /\ \/ jobs'[j].status = jobs[j].status
       \/ jobs[j].status = "absent" /\ jobs'[j].status = "queued"
    /\ events[j] \subseteq events'[j]
    /\ events'[j] \subseteq events[j] \cup {"queued", "worktree-ready"}

\* A step in which a worker goes on with its job, and one in which it has none
OnTask(w) ==
  /\ Executing(w) /\ pc'[w] \in Holding /\ cur'[w] = cur[w]
  /\ pc'[w] = "finish" => jobs[cur[w]].status = "running"

OffTask(w) == ~Executing(w) /\ ~Executing(w)'

\* A step of one worker is none of another.
LEMMA OthersStay ==
  ASSUME WorkersTypeOK, NEW w \in Workers, WorkerStep(w), NEW v \in Workers \ {w}
  PROVE  pc'[v] = pc[v] /\ cur'[v] = cur[v] /\ verdict'[v] = verdict[v]
<1> USE DEF WorkersTypeOK, Goto
<1>1. CASE HeartbeatBlocked(w) \/ NothingToClaim(w) \/ HeartbeatIdle(w) \/ Claim(w) \/ HeartbeatRunning(w)
  BY <1>1 DEF HeartbeatBlocked, NothingToClaim, HeartbeatIdle, Return, Claim, HeartbeatRunning
<1>2. CASE PrepareOk(w) \/ TaskRaises(w) \/ AcquireProjectLock(w) \/ AddWorktree(w) \/ GitFails(w)
  BY <1>2 DEF PrepareOk, TaskRaises, Raise, AcquireProjectLock, AddWorktree, GitFails
<1>3. CASE SetExecutionMetadata(w) \/ MetadataEvent(w) \/ ExecuteCodex(w) \/ ValidateOutcome(w)
  BY <1>3 DEF SetExecutionMetadata, MetadataEvent, ExecuteCodex, ValidateOutcome
<1>4. CASE FinishUpdate(w) \/ FinishEvent(w) \/ HeartbeatDone(w) \/ CommandInserted(w)
  BY <1>4 DEF FinishUpdate, FinishEvent, HeartbeatDone, Return, CommandInserted
<1>5. CASE PreflightOk(w) \/ PreflightBlocked(w) \/ PreflightHangs(w) \/ CommandRunOnce(w)
  BY <1>5 DEF PreflightOk, PreflightBlocked, PreflightHangs, Unwind, CommandRunOnce
<1>6. CASE \E kind \in Kinds : CommandInsert(w, kind)
  BY <1>6 DEF CommandInsert
<1>7. CASE StatementFails(w) \/ KillCommand(w)
  BY <1>7 DEF StatementFails, Raise, Unwind, KillCommand, Kill
<1> QED BY <1>1, <1>2, <1>3, <1>4, <1>5, <1>6, <1>7 DEF WorkerStep, Progress

\* Between the claim and the end of run_once a worker stays on its job, and
\* outside of it on none.
LEMMA QuietStep ==
  ASSUME WorkersInv, NEW w \in Workers, WorkerStep(w),
         ~Claim(w), ~FinishUpdate(w), ~FinishEvent(w), ~HeartbeatDone(w), ~StatementFails(w), ~KillCommand(w)
  PROVE  KeepsRecords /\ (OnTask(w) \/ OffTask(w)) /\ UNCHANGED <<faults, restarts>>
<1> USE DEF Goto, Executing, envVars, gitVars
<1>t. WorkersTypeOK /\ ExecutorOwnsJob /\ HandlerOnlyFails BY DEF WorkersInv
<1>u. ASSUME UNCHANGED <<jobs, events>> PROVE KeepsRecords BY <1>u DEF KeepsRecords
<1>1. CASE HeartbeatBlocked(w) \/ NothingToClaim(w) \/ PreflightOk(w) \/ PreflightBlocked(w) \/ CommandRunOnce(w)
  BY <1>t, <1>u, <1>1 DEF HeartbeatBlocked, NothingToClaim, PreflightOk, PreflightBlocked, CommandRunOnce, OffTask,
     Holding, Finishing, WorkersTypeOK
<1>2. CASE HeartbeatIdle(w) \/ PreflightHangs(w)
  BY <1>t, <1>u, <1>2 DEF HeartbeatIdle, Return, PreflightHangs, Unwind, Start, OffTask, Holding, Finishing,
     WorkersTypeOK
<1>3. CASE HeartbeatRunning(w) \/ PrepareOk(w) \/ AcquireProjectLock(w) \/ AddWorktree(w) \/ ExecuteCodex(w)
  BY <1>t, <1>u, <1>3 DEF HeartbeatRunning, PrepareOk, AcquireProjectLock, AddWorktree, ExecuteCodex, OnTask,
     Holding, WorkersTypeOK
<1>4. CASE TaskRaises(w) \/ GitFails(w) \/ ValidateOutcome(w)
  <2>1. pc[w] \in Holding \ {"finish"} /\ ~handling[w]
    BY <1>t, <1>4 DEF TaskRaises, GitFails, ValidateOutcome, Holding, HandlerOnlyFails, Finishing
  <2>2. jobs[cur[w]].status = "running" BY <1>t, <2>1 DEF ExecutorOwnsJob
  <2>3. pc'[w] = "finish" /\ cur'[w] = cur[w] /\ UNCHANGED <<jobs, events, faults, restarts>>
    BY <1>t, <1>4 DEF TaskRaises, GitFails, ValidateOutcome, Raise, WorkersTypeOK
  <2> QED BY <1>u, <2>1, <2>2, <2>3 DEF OnTask, Holding
<1>5. CASE SetExecutionMetadata(w)
  <2>1. cur[w] \in JobIds BY <1>t, <1>5 DEF SetExecutionMetadata, ExecutorOwnsJob, Holding
  <2>2. \A j \in JobIds : jobs'[j].status = jobs[j].status
    BY <1>t, <1>5, <2>1 DEF SetExecutionMetadata, WorkersTypeOK, JobTableType, JobRow
  <2>3. KeepsRecords BY <1>5, <2>2 DEF KeepsRecords, SetExecutionMetadata
  <2> QED BY <1>t, <1>5, <2>3 DEF SetExecutionMetadata, OnTask, Holding, WorkersTypeOK
<1>6. CASE MetadataEvent(w)
  <2>1. KeepsRecords BY <1>t, <1>6 DEF KeepsRecords, MetadataEvent, Event, WorkersTypeOK, JobTableType
  <2> QED BY <1>t, <1>6, <2>1 DEF MetadataEvent, OnTask, Holding, WorkersTypeOK
<1>7. CASE CommandInserted(w)
  <2>1. KeepsRecords BY <1>t, <1>7 DEF KeepsRecords, CommandInserted, Event, WorkersTypeOK, JobTableType
  <2> QED BY <1>t, <1>7, <2>1 DEF CommandInserted, OffTask, Holding, Finishing, WorkersTypeOK
<1>8. CASE \E kind \in Kinds : CommandInsert(w, kind)
  <2>1. PICK kind \in Kinds, j \in JobIds : CommandInsert(w, kind) /\ InsertJob(j, kind)
    BY <1>8 DEF CommandInsert
  <2>2. PICK stamp : jobs' = [jobs EXCEPT ![j] = QueuedRow(kind, stamp)] BY <2>1 DEF InsertJob
  <2>3. QueuedRow(kind, stamp).status = "queued" BY DEF QueuedRow, NoRow
  <2>4. KeepsRecords
    BY <1>t, <2>1, <2>2, <2>3 DEF KeepsRecords, CommandInsert, InsertJob, WorkersTypeOK, JobTableType
  <2> QED BY <1>t, <2>1, <2>4 DEF CommandInsert, OffTask, Holding, Finishing, WorkersTypeOK
<1> QED BY <1>1, <1>2, <1>3, <1>4, <1>5, <1>6, <1>7, <1>8 DEF WorkerStep, Progress

\* A step that keeps the records keeps them true.
LEMMA QuietRecords ==
  ASSUME WorkersInv, RecordsInv, NEW w \in Workers, WorkerStep(w),
         KeepsRecords, OnTask(w) \/ OffTask(w), UNCHANGED <<faults, restarts>>
  PROVE  RecordsInv'
<1> USE DEF RecordsInv
<1>t. WorkersTypeOK /\ ExecutorOwnsJob BY DEF WorkersInv
<1>1. \A v \in Workers : Executing(v) => cur[v] \in JobIds /\ jobs[cur[v]].status \in {"running"} \cup Terminal
  BY <1>t DEF ExecutorOwnsJob
<1>2. \A v \in Workers \ {w} : pc'[v] = pc[v] /\ cur'[v] = cur[v] /\ verdict'[v] = verdict[v]
  BY <1>t, OthersStay
<1>3. \A v \in Workers : Executing(v) => jobs'[cur[v]].status = jobs[cur[v]].status
  BY <1>1 DEF KeepsRecords, Terminal
<1>4. FinishesOwn'
  <2> SUFFICES ASSUME faults = 0, NEW v \in Workers, Executing(v)'
               PROVE  /\ pc'[v] = "finish" => jobs'[cur'[v]].status = "running"
                      /\ pc'[v] \in Finishing => jobs'[cur'[v]].status \in Terminal
                      /\ pc'[v] = "finishEvent" => jobs'[cur'[v]].status = verdict'[v]
    BY DEF FinishesOwn, Executing, Holding, Finishing
  <2>1. CASE v # w BY <1>2, <1>3, <2>1 DEF FinishesOwn, Executing
  <2>2. CASE v = w BY <1>3, <2>2 DEF OnTask, OffTask, Holding, Finishing
  <2> QED BY <2>1, <2>2
<1>5. AttendedUnlessMishap'
  <2> SUFFICES ASSUME faults + restarts = 0, NEW j \in JobIds, jobs'[j].status = "running"
               PROVE  \E v \in Workers : Executing(v)' /\ cur'[v] = j
    BY DEF AttendedUnlessMishap, RunningIsAttended, InStatus
  <2>1. jobs[j].status = "running" BY DEF KeepsRecords
  <2>2. PICK v \in Workers : Executing(v) /\ cur[v] = j
    BY <2>1 DEF AttendedUnlessMishap, RunningIsAttended, InStatus
  <2> QED BY <1>2, <2>2 DEF OnTask, OffTask, Executing
<1>6. AuditTrailAgrees' BY DEF AuditTrailAgrees, KeepsRecords, Terminal
<1> QED BY <1>4, <1>5, <1>6

\* A kill and a failing statement leave no more than the audit trail to tell.
LEMMA MishapRecords ==
  ASSUME WorkersInv, RecordsInv, NEW W \in SUBSET Workers, Kill(W)
  PROVE  RecordsInv'
<1>1. WorkersTypeOK BY DEF WorkersInv
<1>2. UNCHANGED <<jobs, events, faults>> /\ restarts' = restarts + 1 BY DEF Kill, InitializeStore
<1>3. FinishesOwn' BY <1>1, <1>2 DEF RecordsInv, FinishesOwn, Kill, Start, Finishing, WorkersTypeOK
<1>4. AttendedUnlessMishap' BY <1>1, <1>2 DEF AttendedUnlessMishap, WorkersTypeOK
<1>5. AuditTrailAgrees' BY <1>2 DEF RecordsInv, AuditTrailAgrees
<1> QED BY <1>3, <1>4, <1>5 DEF RecordsInv

\* The claim, and the statements of finish.
LEMMA OutcomeRecords ==
  ASSUME WorkersInv, RecordsInv, NEW w \in Workers,
         Claim(w) \/ FinishUpdate(w) \/ FinishEvent(w) \/ HeartbeatDone(w)
  PROVE  RecordsInv'
<1> USE DEF RecordsInv, Goto, Executing, envVars
<1>t. WorkersTypeOK /\ ExecutorOwnsJob /\ jobs \in [JobIds -> JobRow] /\ UNCHANGED <<faults, restarts>>
  BY DEF WorkersInv, WorkersTypeOK, JobTableType, Claim, FinishUpdate, FinishEvent, HeartbeatDone
<1>o. \A v \in Workers \ {w} : pc'[v] = pc[v] /\ cur'[v] = cur[v] /\ verdict'[v] = verdict[v]
  BY <1>t, OthersStay DEF WorkerStep, Progress
<1>s. SingleExecutor BY <1>t DEF ExecutorOwnsJob, SingleExecutor
<1>1. CASE Claim(w)
  <2>1. PICK j \in JobIds : /\ jobs[j].status = "queued" /\ jobs' = Claimed(j, w)
                            /\ Event(j, "claimed") /\ cur' = [cur EXCEPT ![w] = j]
    BY <1>1 DEF Claim, OldestQueued, InStatus
  <2>2. jobs'[j].status = "running" /\ \A k \in JobIds \ {j} : jobs'[k] = jobs[k]
    BY <1>t, <2>1, ClaimedRow
  <2>3. pc'[w] = "hbRunning" /\ cur'[w] = j BY <1>t, <1>1, <2>1 DEF Claim, WorkersTypeOK
  <2>4. \A v \in Workers \ {w} : Executing(v) => cur[v] \in JobIds \ {j}
    BY <1>t, <2>1 DEF ExecutorOwnsJob, Terminal
  <2>5. FinishesOwn' BY <1>t, <1>o, <2>2, <2>3, <2>4 DEF FinishesOwn, Holding, Finishing
  <2>6. AttendedUnlessMishap'
    BY <1>t, <1>o, <1>1, <2>2, <2>3 DEF AttendedUnlessMishap, RunningIsAttended, InStatus, Claim, Holding, Finishing
  <2>7. events' = [events EXCEPT ![j] = events[j] \cup {"claimed"}] BY <2>1 DEF Event
  <2>8. AuditTrailAgrees'
    BY <1>t, <2>1, <2>2, <2>7 DEF AuditTrailAgrees, Terminal, WorkersTypeOK, JobTableType
  <2> QED BY <2>5, <2>6, <2>8
<1>2. CASE FinishUpdate(w)
  <2>1. pc[w] = "finish" /\ pc'[w] = "finishEvent" /\ cur[w] \in JobIds /\ UNCHANGED <<events, cur, verdict>>
    BY <1>t, <1>2 DEF FinishUpdate, ExecutorOwnsJob, Holding, WorkersTypeOK
  <2> DEFINE j == cur[w]
  <2>2. verdict[w] \in Terminal BY <1>t DEF WorkersTypeOK
  <2>3. CASE faults = 0
    <3>1. jobs[j].status = "running" BY <2>1, <2>3 DEF FinishesOwn
    <3>2. jobs' = Finished(j, verdict[w]) BY <1>2, <3>1 DEF FinishUpdate, Unfinalised
    <3>3. jobs'[j].status = verdict[w] /\ \A k \in JobIds \ {j} : jobs'[k] = jobs[k]
      BY <1>t, <2>1, <2>2, <3>2, FinishedRow
    <3>4. \A v \in Workers \ {w} : Executing(v) => cur[v] \in JobIds \ {j}
      BY <1>t, <1>s, <2>1 DEF SingleExecutor, ExecutorOwnsJob, Holding
    <3>5. FinishesOwn' BY <1>t, <1>o, <2>1, <2>2, <3>3, <3>4 DEF FinishesOwn, Holding, Finishing
    <3>6. AttendedUnlessMishap'
      BY <1>t, <1>o, <2>1, <2>2, <3>3, <3>4
      DEF AttendedUnlessMishap, RunningIsAttended, InStatus, Terminal, Holding, Finishing
    <3>7. AuditTrailAgrees' BY <1>t, <2>1, <2>2, <3>1, <3>3 DEF AuditTrailAgrees, Terminal
    <3> QED BY <3>5, <3>6, <3>7
  <2>4. CASE faults # 0
    BY <1>t, <2>4 DEF FinishesOwn, AttendedUnlessMishap, AuditTrailAgrees, WorkersTypeOK
  <2> QED BY <2>3, <2>4
<1>3. CASE FinishEvent(w)
  <2>1. /\ pc[w] = "finishEvent" /\ pc'[w] = "hbDone" /\ cur[w] \in JobIds /\ UNCHANGED <<jobs, cur, verdict>>
        /\ events' = [events EXCEPT ![cur[w]] = events[cur[w]] \cup {verdict[w]}]
    BY <1>t, <1>3 DEF FinishEvent, Event, ExecutorOwnsJob, Holding, Finishing, WorkersTypeOK
  <2>2. FinishesOwn' BY <1>t, <1>o, <2>1 DEF FinishesOwn, Finishing
  <2>3. AttendedUnlessMishap'
    BY <1>t, <1>o, <2>1 DEF AttendedUnlessMishap, RunningIsAttended, InStatus, Finishing, Holding
  <2>4. AuditTrailAgrees'
    <3> SUFFICES ASSUME faults = 0, NEW k \in JobIds
                 PROVE  /\ events'[k] \cap Terminal \subseteq {jobs[k].status}
                        /\ "claimed" \in events'[k] <=> jobs[k].status \notin {"absent", "queued"}
      BY <1>t, <2>1 DEF AuditTrailAgrees
    <3>1. verdict[w] = jobs[cur[w]].status /\ verdict[w] \in Terminal
      BY <1>t, <2>1 DEF FinishesOwn, WorkersTypeOK
    <3>2. events'[k] = IF k = cur[w] THEN events[k] \cup {verdict[w]} ELSE events[k]
      BY <1>t, <2>1 DEF WorkersTypeOK, JobTableType
    <3> QED BY <3>1, <3>2 DEF AuditTrailAgrees, Terminal
  <2> QED BY <2>2, <2>3, <2>4
<1>4. CASE HeartbeatDone(w)
  <2>1. pc[w] = "hbDone" /\ pc'[w] = Start(w) /\ UNCHANGED <<jobs, events>>
    BY <1>t, <1>4 DEF HeartbeatDone, Return, WorkersTypeOK
  <2>2. FinishesOwn' BY <1>t, <1>o, <2>1 DEF FinishesOwn, Start, Finishing
  <2>3. AttendedUnlessMishap'
    <3> SUFFICES ASSUME faults + restarts = 0, NEW j \in JobIds, jobs[j].status = "running"
                 PROVE  \E v \in Workers : Executing(v)' /\ cur'[v] = j
      BY <1>t, <2>1 DEF AttendedUnlessMishap, RunningIsAttended, InStatus
    <3>1. PICK v \in Workers : Executing(v) /\ cur[v] = j
      BY DEF AttendedUnlessMishap, RunningIsAttended, InStatus
    <3>2. faults = 0 BY <1>t DEF WorkersTypeOK
    <3>3. v # w BY <2>1, <3>1, <3>2 DEF FinishesOwn, Finishing, Terminal
    <3> QED BY <1>o, <3>1, <3>3
  <2>4. AuditTrailAgrees' BY <1>t, <2>1 DEF AuditTrailAgrees
  <2> QED BY <2>2, <2>3, <2>4
<1> QED BY <1>1, <1>2, <1>3, <1>4

\* Every step keeps the records true: a mishap excuses the disagreement it makes.
LEMMA RecordsStep == WorkersInv /\ RecordsInv /\ [WorkersNext]_workersVars => RecordsInv'
<1> SUFFICES ASSUME WorkersInv, RecordsInv, [WorkersNext]_workersVars PROVE RecordsInv'
  OBVIOUS
<1>1. CASE RestartService BY <1>1, MishapRecords, WorkersAssumption DEF RestartService
<1>2. ASSUME NEW w \in Workers, WorkerStep(w) PROVE RecordsInv'
  <2>1. CASE KillCommand(w) BY <2>1, MishapRecords DEF KillCommand
  <2>2. CASE StatementFails(w)
    <3>1. faults \in Nat /\ restarts \in Nat BY DEF WorkersInv, WorkersTypeOK
    <3>2. faults' = faults + 1 /\ restarts' = restarts BY <2>2 DEF StatementFails
    <3> QED BY <3>1, <3>2 DEF RecordsInv, FinishesOwn, AttendedUnlessMishap, AuditTrailAgrees
  <2>3. CASE Claim(w) \/ FinishUpdate(w) \/ FinishEvent(w) \/ HeartbeatDone(w) BY <2>3, OutcomeRecords
  <2> QED BY <1>2, <2>1, <2>2, <2>3, QuietStep, QuietRecords
<1>3. CASE UNCHANGED workersVars
  BY <1>3 DEF workersVars, threadVars, envVars, RecordsInv, FinishesOwn, AttendedUnlessMishap, RunningIsAttended,
     AuditTrailAgrees, InStatus, Executing
<1> QED BY <1>1, <1>2, <1>3 DEF WorkersNext

\* As long as no statement failed and no process was killed, a running job has
\* its worker, and as long as no statement failed, the audit trail tells each
\* job's own outcome and claim (run_once's except clause, JobStore.finish).
THEOREM RecordsTruth == WorkersSpec => []UndisturbedRecordsAgree
<1>1. WorkersInit => RecordsInv
  BY DEF WorkersInit, JobTableInit, NoRow, Start, RecordsInv, FinishesOwn, AttendedUnlessMishap, RunningIsAttended,
     AuditTrailAgrees, InStatus, Finishing
<1>2. WorkersInv /\ RecordsInv => UndisturbedRecordsAgree
  BY DEF WorkersInv, RecordsInv, UndisturbedRecordsAgree
<1> QED BY <1>1, <1>2, RecordsStep, Invariance, PTL DEF WorkersSpec

-----------------------------------------------------------------------------
(* The intake: the inductive invariant.                                    *)

\* An issue that a listing would show as approved
Approvable(i) == issues[i].ready /\ issues[i].form # "bad"

\* What could become a job now was approved.
ShownWasApproved == \A i \in Issues : Approvable(i) => <<i, issues[i].rev>> \in approved

\* Text that could become a job now was approved in this revision.
EntryApproved(e) == e.form # "bad" => <<e.issue, e.rev>> \in approved

\* And so was what a poller has listed and not got round to.
BatchesWereApproved == \A p \in Pollers : \A k \in DOMAIN batch[p] : EntryApproved(batch[p][k])

\* The intake rows that refer to a job
Accepts(j) == {r \in intake : r.status = "accepted" /\ r.job = j}

\* A job in the queue is the job of one accepted row.
JobsAreAccepted ==
  \A j \in JobIds :
    IF jobs[j].status = "absent" THEN Accepts(j) = {}
    ELSE (\E r \in intake : Accepts(j) = {r}) /\ "queued" \in events[j]

\* A blocked row has no job.
BlockedHaveNoJob == \A r \in intake : r.status = "blocked" => r.job = None

\* What does not depend on where the jobs of the queue come from.
IntakeRecordsInv ==
  /\ IntakeTypeOK
  /\ ShownWasApproved /\ BatchesWereApproved
  /\ RevisionRecordedOnce /\ AcceptedWasApproved /\ BlockedHaveNoJob

\* The invariant of the intake
IntakeInv == IntakeRecordsInv /\ JobsAreAccepted

-----------------------------------------------------------------------------
(* Rows, listings and batches.                                             *)

\* An inserted job is queued, and no other job is touched.
LEMMA InsertedJob ==
  ASSUME JobTableType, NEW j \in JobIds, NEW kind \in Kinds, InsertJob(j, kind)
  PROVE  /\ jobs' \in [JobIds -> JobRow] /\ clock' \in Nat
         /\ jobs[j].status = "absent" /\ jobs'[j].status = "queued"
         /\ \A k \in JobIds \ {j} : jobs'[k] = jobs[k]
<1>1. PICK stamp \in 0..clock : jobs' = [jobs EXCEPT ![j] = QueuedRow(kind, stamp)] BY DEF InsertJob
<1>2. stamp \in Nat BY DEF JobTableType
<1>3. QueuedRow(kind, stamp) \in JobRow BY <1>2 DEF QueuedRow, NoRow, JobRow, Statuses
<1>4. QueuedRow(kind, stamp).status = "queued" BY DEF QueuedRow, NoRow
<1> QED BY <1>1, <1>3, <1>4 DEF InsertJob, JobTableType

\* An event is added to those on record.
LEMMA LoggedEvent ==
  ASSUME JobTableType, NEW j \in JobIds, NEW name \in EventNames, Event(j, name)
  PROVE  /\ events' \in [JobIds -> SUBSET EventNames]
         /\ name \in events'[j] /\ \A k \in JobIds : events[k] \subseteq events'[k]
         /\ \A k \in JobIds \ {j} : events'[k] = events[k]
BY DEF Event, JobTableType

\* A listing is a finite set of ready issues, and what it shows is a batch of
\* approved entries.
LEMMA ListedBatch ==
  ASSUME IntakeTypeOK, ShownWasApproved, NEW n \in 1..Projects, NEW s \in NewestFirst(Listing(n))
  PROVE  LET shown == [k \in DOMAIN s |-> Revision(s[k])] IN
         shown \in Seq(Entries) /\ \A k \in DOMAIN shown : EntryApproved(shown[k])
<1> DEFINE S == Listing(n)
           shown == [k \in DOMAIN s |-> Revision(s[k])]
<1>1. S \subseteq Issues /\ \A i \in S : issues[i].ready BY DEF Listing, ReadyIssues
<1>2. IsFiniteSet(S) BY <1>1, FS_Subset, IntakeAssumption
<1>3. Cardinality(S) \in Nat BY <1>2, FS_CardinalityType
<1>4. s \in [1..Cardinality(S) -> S] BY DEF NewestFirst
<1>5. \A k \in DOMAIN s : s[k] \in Issues /\ issues[s[k]].ready BY <1>1, <1>4
<1>6. \A k \in DOMAIN s : Revision(s[k]) \in Entries /\ EntryApproved(Revision(s[k]))
  BY <1>5 DEF Revision, Entries, IntakeTypeOK, EntryApproved, ShownWasApproved, Approvable
<1>7. shown \in [1..Cardinality(S) -> Entries] BY <1>4, <1>6
<1>8. shown \in Seq(Entries) BY <1>3, <1>7, SeqDef
<1> QED BY <1>6, <1>8

\* The head and the rest of a batch.
LEMMA BatchTail ==
  ASSUME NEW b \in Seq(Entries), b # <<>>, \A k \in DOMAIN b : EntryApproved(b[k])
  PROVE  /\ Head(b) \in Entries /\ EntryApproved(Head(b))
         /\ Tail(b) \in Seq(Entries) /\ \A k \in DOMAIN Tail(b) : EntryApproved(Tail(b)[k])
<1>1. Len(b) \in Nat \ {0} /\ DOMAIN b = 1..Len(b) BY EmptySeq, LenProperties
<1>2. Head(b) = b[1] /\ b[1] \in Entries BY <1>1
<1>3. Tail(b) \in Seq(Entries) /\ Len(Tail(b)) = Len(b) - 1 BY HeadTailProperties
<1>4. \A k \in 1..Len(Tail(b)) : Tail(b)[k] = b[k + 1] /\ k + 1 \in DOMAIN b
  BY <1>1, <1>3, HeadTailProperties
<1>5. DOMAIN Tail(b) = 1..Len(Tail(b)) BY <1>3, LenProperties
<1> QED BY <1>1, <1>2, <1>3, <1>4, <1>5

-----------------------------------------------------------------------------
(* Steps.                                                                  *)

\* The record of an issue and its job is one transaction.
LEMMA RecordStep ==
  ASSUME IntakeRecordsInv, NEW p \in Pollers, RecordIssue(p)
  PROVE  IntakeRecordsInv' /\ (JobsAreAccepted => JobsAreAccepted')
<1> USE DEF IntakeRecordsInv, IntakeTypeOK
<1> DEFINE e == Head(batch[p])
<1>1. /\ e \in Entries /\ EntryApproved(e)
      /\ Tail(batch[p]) \in Seq(Entries)
      /\ \A k \in DOMAIN Tail(batch[p]) : EntryApproved(Tail(batch[p])[k])
  BY BatchTail DEF RecordIssue, BatchesWereApproved
<1>2. batch' = [batch EXCEPT ![p] = Tail(batch[p])] /\ UNCHANGED <<issues, approved, sources, failures, edits, at, project>>
  BY DEF RecordIssue, githubVars
<1>3. ShownWasApproved' BY <1>2 DEF ShownWasApproved, Approvable
<1>4. BatchesWereApproved'
  BY <1>1, <1>2 DEF BatchesWereApproved, EntryApproved
<1>5. CASE UNCHANGED <<jobs, events, clock, intake>>
  <2>1. IntakeTypeOK' BY <1>1, <1>2, <1>5 DEF JobTableType
  <2>2. RevisionRecordedOnce' BY <1>5 DEF RevisionRecordedOnce
  <2>3. JobsAreAccepted => JobsAreAccepted' BY <1>5 DEF JobsAreAccepted, Accepts
  <2>4. AcceptedWasApproved' /\ BlockedHaveNoJob' BY <1>2, <1>5 DEF AcceptedWasApproved, BlockedHaveNoJob
  <2> QED BY <1>3, <1>4, <2>1, <2>2, <2>3, <2>4
<1>6. CASE /\ ~Recorded(e) /\ intake' = intake \cup {IntakeRow(e, "blocked", None)}
           /\ UNCHANGED <<jobs, events, clock>>
  <2>1. IntakeRow(e, "blocked", None) \in IntakeRows BY <1>1 DEF IntakeRow, IntakeRows, Entries
  <2>2. IntakeTypeOK' BY <1>1, <1>2, <1>6, <2>1 DEF JobTableType
  <2>3. RevisionRecordedOnce' BY <1>6 DEF RevisionRecordedOnce, Recorded, IntakeRow
  <2>4. \A j \in JobIds : Accepts(j)' = Accepts(j) BY <1>6 DEF Accepts, IntakeRow
  <2>5. JobsAreAccepted => JobsAreAccepted' BY <1>6, <2>4 DEF JobsAreAccepted
  <2>6. AcceptedWasApproved' /\ BlockedHaveNoJob'
    BY <1>2, <1>6 DEF AcceptedWasApproved, BlockedHaveNoJob, IntakeRow
  <2> QED BY <1>3, <1>4, <2>2, <2>3, <2>5, <2>6
<1>7. ASSUME NEW policy \in BOOLEAN, NEW j \in JobIds, ~Recorded(e), ~Blocked(e, policy),
             InsertJob(j, e.form), Event(j, "queued"), intake' = intake \cup {IntakeRow(e, "accepted", j)}
      PROVE  IntakeRecordsInv' /\ (JobsAreAccepted => JobsAreAccepted')
  <2> DEFINE row == IntakeRow(e, "accepted", j)
  <2>1. e.form \in Kinds /\ <<e.issue, e.rev>> \in approved
    BY <1>1, <1>7 DEF Blocked, Entries, Forms, Kinds, EntryApproved
  <2>2. /\ jobs' \in [JobIds -> JobRow] /\ clock' \in Nat
        /\ jobs[j].status = "absent" /\ jobs'[j].status = "queued"
        /\ \A k \in JobIds \ {j} : jobs'[k] = jobs[k]
    BY <1>7, <2>1, InsertedJob
  <2>3. /\ events' \in [JobIds -> SUBSET EventNames] /\ "queued" \in events'[j]
        /\ \A k \in JobIds \ {j} : events'[k] = events[k]
    BY <1>7, LoggedEvent DEF EventNames
  <2>4. row \in IntakeRows BY <1>1 DEF IntakeRow, IntakeRows, Entries
  <2>5. IntakeTypeOK' BY <1>1, <1>2, <1>7, <2>2, <2>3, <2>4 DEF JobTableType
  <2>6. RevisionRecordedOnce' BY <1>7 DEF RevisionRecordedOnce, Recorded, IntakeRow
  <2>7. ASSUME JobsAreAccepted PROVE JobsAreAccepted'
    <3>1. Accepts(j) = {} BY <2>2, <2>7 DEF JobsAreAccepted
    <3>2. Accepts(j)' = {row} BY <1>7, <3>1 DEF Accepts, IntakeRow
    <3>3. \A k \in JobIds \ {j} : Accepts(k)' = Accepts(k) BY <1>7 DEF Accepts, IntakeRow
    <3> QED BY <1>7, <2>2, <2>3, <2>7, <3>2, <3>3 DEF JobsAreAccepted
  <2>8. BlockedHaveNoJob' BY <1>7 DEF BlockedHaveNoJob, IntakeRow
  <2>9. AcceptedWasApproved'
    <3>1. row.issue = e.issue /\ row.rev = e.rev BY DEF IntakeRow
    <3>2. <<row.issue, row.rev>> \in approved BY <2>1, <3>1
    <3> QED BY <1>2, <1>7, <3>2 DEF AcceptedWasApproved
  <2> QED BY <1>3, <1>4, <2>5, <2>6, <2>7, <2>8, <2>9
<1> QED BY <1>5, <1>6, <1>7 DEF RecordIssue

\* Someone edits an issue: what was approved stays approved.
LEMMA EditStep ==
  ASSUME IntakeRecordsInv, NEW i \in Issues, EditIssue(i)
  PROVE  IntakeRecordsInv' /\ (JobsAreAccepted => JobsAreAccepted')
<1> USE DEF IntakeRecordsInv, IntakeTypeOK
<1>1. PICK ready \in BOOLEAN, form \in Forms, rev \in {issues[i].rev, issues[i].rev + 1} :
        /\ issues' = [issues EXCEPT ![i] = [rev |-> rev, ready |-> ready, form |-> form]]
        /\ approved' = IF ready /\ form # "bad" THEN approved \cup {<<i, rev>>} ELSE approved
  BY DEF EditIssue
<1>2. edits' = edits + 1 /\ UNCHANGED <<jobs, events, clock, intake, sources, failures, at, project, batch>>
  BY DEF EditIssue, pollVars
<1>3. rev \in Nat /\ approved \subseteq approved' BY <1>1
<1>4. IntakeTypeOK' BY <1>1, <1>2, <1>3 DEF JobTableType
<1>5. ShownWasApproved' BY <1>1, <1>3 DEF ShownWasApproved, Approvable
<1>6. BatchesWereApproved' BY <1>2, <1>3 DEF BatchesWereApproved, EntryApproved
<1>7. RevisionRecordedOnce' BY <1>2 DEF RevisionRecordedOnce
<1>8. JobsAreAccepted => JobsAreAccepted' BY <1>2 DEF JobsAreAccepted, Accepts
<1>9. AcceptedWasApproved' /\ BlockedHaveNoJob' BY <1>2, <1>3 DEF AcceptedWasApproved, BlockedHaveNoJob
<1> QED BY <1>4, <1>5, <1>6, <1>7, <1>8, <1>9

\* The other steps of a poller touch neither table: it moves on, with a batch
\* that it keeps, has listed, or drops.
LEMMA MoveStep ==
  ASSUME IntakeRecordsInv, NEW p \in Pollers,
         \/ StartPoll(p) \/ ListIssues(p) \/ ListFails(p) \/ BatchDone(p)
         \/ SourceReady(p) \/ SourceBlocked(p) \/ PollFails(p)
  PROVE  IntakeRecordsInv' /\ (JobsAreAccepted => JobsAreAccepted')
<1> USE IntakeAssumption DEF IntakeRecordsInv, IntakeTypeOK
<1>1. UNCHANGED <<jobs, events, clock, intake, issues, approved, edits>>
  BY DEF StartPoll, ListIssues, ListFails, BatchDone, SourceReady, SourceBlocked, PollFails, githubVars
<1>2. at' \in [Pollers -> Places] /\ project' \in [Pollers -> 1..Projects]
  <2>1. Resting(p) \in Places BY DEF Resting, Places
  <2>2. CASE StartPoll(p) BY <2>2 DEF StartPoll, Move, Places
  <2>3. CASE ListIssues(p) BY <2>3 DEF ListIssues, Move, Places
  <2>4. CASE ListFails(p) BY <2>4 DEF ListFails, Move, Places
  <2>5. CASE BatchDone(p) BY <2>5 DEF BatchDone, Move, Places
  <2>6. CASE NextProject(p)
    <3>1. "list" \in Places BY DEF Places
    <3>2. CASE project[p] < Projects
      <4>1. project[p] + 1 \in 1..Projects BY <3>2
      <4> QED BY <2>6, <3>1, <3>2, <4>1 DEF NextProject
    <3>3. CASE ~(project[p] < Projects)
      <4>1. 1 \in 1..Projects OBVIOUS
      <4> QED BY <2>1, <2>6, <3>3, <4>1 DEF NextProject
    <3> QED BY <3>2, <3>3
  <2>7. CASE PollFails(p) BY <2>7 DEF PollFails, Move, Places
  <2> QED BY <2>2, <2>3, <2>4, <2>5, <2>6, <2>7 DEF SourceReady, SourceBlocked
<1>3. sources' \in [1..Projects -> {"none", "ready", "blocked"}] /\ failures' \in Nat
  <2>1. CASE PollFails(p) BY <2>1 DEF PollFails
  <2>2. CASE SourceReady(p) \/ SourceBlocked(p) BY <2>2 DEF SourceReady, SourceBlocked, SetSource
  <2> QED BY <2>1, <2>2 DEF StartPoll, ListIssues, ListFails, BatchDone
<1>4. batch' \in [Pollers -> Seq(Entries)] /\ BatchesWereApproved'
  <2>1. CASE UNCHANGED batch BY <1>1, <2>1 DEF BatchesWereApproved, EntryApproved
  <2>2. CASE batch' = [batch EXCEPT ![p] = <<>>]
    <3>1. <<>> \in Seq(Entries) /\ DOMAIN <<>> = {} OBVIOUS
    <3> QED BY <1>1, <2>2, <3>1 DEF BatchesWereApproved, EntryApproved
  <2>3. CASE ListIssues(p)
    <3>1. PICK s \in NewestFirst(Listing(project[p])) :
            batch' = [batch EXCEPT ![p] = [k \in DOMAIN s |-> Revision(s[k])]]
      BY <2>3 DEF ListIssues
    <3> DEFINE shown == [k \in DOMAIN s |-> Revision(s[k])]
    <3>2. shown \in Seq(Entries) /\ \A k \in DOMAIN shown : EntryApproved(shown[k]) BY ListedBatch
    <3> HIDE DEF shown
    <3> QED BY <1>1, <3>1, <3>2 DEF BatchesWereApproved, EntryApproved, shown
  <2> QED BY <2>1, <2>2, <2>3 DEF StartPoll, ListFails, BatchDone, SourceReady, SourceBlocked, PollFails
<1>5. IntakeTypeOK' BY <1>1, <1>2, <1>3, <1>4 DEF JobTableType
<1>6. ShownWasApproved' BY <1>1 DEF ShownWasApproved, Approvable
<1>7. RevisionRecordedOnce' BY <1>1 DEF RevisionRecordedOnce
<1>8. JobsAreAccepted => JobsAreAccepted' BY <1>1 DEF JobsAreAccepted, Accepts
<1>9. AcceptedWasApproved' /\ BlockedHaveNoJob' BY <1>1 DEF AcceptedWasApproved, BlockedHaveNoJob
<1> QED BY <1>4, <1>5, <1>6, <1>7, <1>8, <1>9

\* The initial states satisfy the invariant.
LEMMA IntakeStart == IntakeInit => IntakeInv
<1> SUFFICES ASSUME IntakeInit PROVE IntakeInv OBVIOUS
<1> USE IntakeAssumption DEF IntakeInit, JobTableInit
<1>1. NoRow \in JobRow BY DEF NoRow, JobRow, Statuses, Kinds
<1>2. JobTableType BY <1>1 DEF JobTableType
<1>3. <<>> \in Seq(Entries) /\ DOMAIN <<>> = {} OBVIOUS
<1>4. approved \subseteq Issues \X Nat OBVIOUS
<1>5. IntakeTypeOK BY <1>2, <1>3, <1>4 DEF IntakeTypeOK, Resting, Places
<1>6. ShownWasApproved BY DEF ShownWasApproved, Approvable
<1>7. BatchesWereApproved BY <1>3 DEF BatchesWereApproved
<1>8. RevisionRecordedOnce /\ AcceptedWasApproved /\ BlockedHaveNoJob
  BY DEF RevisionRecordedOnce, AcceptedWasApproved, BlockedHaveNoJob
<1>9. JobsAreAccepted BY DEF JobsAreAccepted, Accepts, NoRow
<1> QED BY <1>5, <1>6, <1>7, <1>8, <1>9 DEF IntakeInv, IntakeRecordsInv

\* Every step keeps the records in order, whatever else queues jobs, and the jobs
\* to their rows.
LEMMA IntakeStep ==
  ASSUME IntakeRecordsInv, [IntakeNext]_intakeVars
  PROVE  IntakeRecordsInv' /\ (JobsAreAccepted => JobsAreAccepted')
<1>1. CASE UNCHANGED intakeVars
  BY <1>1 DEF intakeVars, githubVars, pollVars, IntakeRecordsInv, IntakeTypeOK, JobTableType, ShownWasApproved,
     Approvable, BatchesWereApproved, EntryApproved, RevisionRecordedOnce, JobsAreAccepted, Accepts,
     AcceptedWasApproved, BlockedHaveNoJob
<1> QED BY <1>1, EditStep, RecordStep, MoveStep DEF IntakeNext, PollStep

-----------------------------------------------------------------------------
(* Theorems.                                                               *)

\* The inductive invariant.
THEOREM IntakeInvariant == IntakeSpec => []IntakeInv
<1>1. IntakeInv /\ [IntakeNext]_intakeVars => IntakeInv' BY IntakeStep DEF IntakeInv
<1> QED BY <1>1, IntakeStart, PTL DEF IntakeSpec

\* Whatever the pollers do at the same time, the intake and the queue agree:
\* every recorded revision is recorded once, was queued with its job if and
\* only if it was accepted, and was accepted only if it was approved
\* (JobStore.record_issue_intake).
THEOREM IntakeAgrees == IntakeSpec => []IntakeIsConsistent
<1>1. IntakeInv => IntakeIsConsistent
  <2> SUFFICES ASSUME IntakeInv PROVE QueueMatchesIntake BY DEF IntakeInv, IntakeRecordsInv, IntakeIsConsistent
  <2>1. ASSUME NEW r PROVE Cardinality({r}) = 1 BY FS_Singleton
  <2> QED BY <2>1 DEF IntakeInv, JobsAreAccepted, QueueMatchesIntake, Accepts
<1> QED BY <1>1, IntakeInvariant, PTL

-----------------------------------------------------------------------------
(* The platform: the inductive invariant.                                  *)

\* `enqueue` and `smoke` queue jobs of no issue; without them every job has one.
NoCommands == Workers = Service

\* The invariant of both sides together
PlatformInv ==
  /\ WorkersInv
  /\ IntakeRecordsInv
  /\ NoCommands => JobsAreAccepted

-----------------------------------------------------------------------------
(* What one side does to the jobs of the other.                            *)

\* The intake leaves every job in the queue or beyond alone.
LEMMA IntakeJobs ==
  ASSUME JobTableType, IntakeRecordsInv, NEW p \in Pollers, PollStep(p) \/ PollFails(p)
  PROVE  \A j \in JobIds : \/ jobs'[j] = jobs[j]
                           \/ jobs[j].status = "absent" /\ jobs'[j].status = "queued"
<1>1. CASE RecordIssue(p)
  <2>1. ASSUME NEW e, e.form \in Kinds, NEW j \in JobIds, InsertJob(j, e.form)
        PROVE  \A k \in JobIds : \/ jobs'[k] = jobs[k]
                                 \/ jobs[k].status = "absent" /\ jobs'[k].status = "queued"
    BY <2>1, InsertedJob
  <2>2. Head(batch[p]).form \in Forms
    BY <1>1, BatchTail DEF RecordIssue, IntakeRecordsInv, IntakeTypeOK, BatchesWereApproved, Entries
  <2>3. ASSUME NEW policy \in BOOLEAN, ~Blocked(Head(batch[p]), policy) PROVE Head(batch[p]).form \in Kinds
    BY <2>2, <2>3 DEF Blocked, Forms, Kinds
  <2> QED BY <1>1, <2>1, <2>3 DEF RecordIssue
<1>2. CASE ~RecordIssue(p)
  BY <1>2 DEF PollStep, PollFails, StartPoll, ListIssues, ListFails, BatchDone, SourceReady, SourceBlocked
<1> QED BY <1>1, <1>2

\* A new job is nobody's yet: the workers do not see it come.
LEMMA WorkersUnaware ==
  ASSUME WorkersInv, UNCHANGED workersOnly, JobTableType',
         \A j \in JobIds : \/ jobs'[j] = jobs[j]
                           \/ jobs[j].status = "absent" /\ jobs'[j].status = "queued"
  PROVE  WorkersInv'
<1> USE DEF WorkersInv, workersOnly, threadVars, gitVars, envVars
<1>1. WorkersTypeOK' BY DEF WorkersTypeOK
<1>2. \A w \in Workers : Executing(w) => cur[w] \in JobIds /\ jobs'[cur[w]] = jobs[cur[w]]
  BY DEF ExecutorOwnsJob, Terminal
<1>3. \A w \in Workers : Executing(w)' <=> Executing(w) BY DEF Executing
<1>4. ExecutorOwnsJob' BY <1>2, <1>3 DEF ExecutorOwnsJob
<1>5. HandlerOnlyFails' BY DEF HandlerOnlyFails
<1>6. GitUnderLock' BY DEF GitUnderLock
<1>7. DashboardAgrees' BY DEF DashboardAgrees
<1>8. RunEstablishes'
  <2> SUFFICES ASSUME NEW w \in Workers
               PROVE  /\ (HasWorktree(w) \/ Succeeding(w)) => cur[w] \in worktrees
                      /\ (HasMetadata(w) \/ Succeeding(w)) => jobs'[cur[w]].branch
                      /\ Succeeding(w) => Accepted(cur[w])'
    BY DEF RunEstablishes, HasWorktree, HasMetadata, Succeeding
  <2>1. HasWorktree(w) \/ HasMetadata(w) \/ Succeeding(w) => Executing(w)
    BY DEF HasWorktree, HasMetadata, Succeeding, Executing, Holding
  <2>2. Executing(w) => (Accepted(cur[w])' <=> Accepted(cur[w])) BY <1>2 DEF Accepted
  <2> QED BY <1>2, <2>1, <2>2 DEF RunEstablishes
<1>9. SuccessIsVerified' BY DEF SuccessIsVerified, InStatus
<1>10. AbsentUnowned' BY DEF AbsentUnowned, InStatus
<1> QED BY <1>1, <1>4, <1>5, <1>6, <1>7, <1>8, <1>9, <1>10

\* The workers of the service queue no job and strike no event.
LEMMA ServiceKeepsQueue ==
  ASSUME WorkersInv, NEW w \in Service, WorkerStep(w)
  PROVE  \A j \in JobIds : /\ jobs'[j].status = "absent" <=> jobs[j].status = "absent"
                           /\ events[j] \subseteq events'[j]
<1>1. w \in Workers /\ jobs \in [JobIds -> JobRow] /\ events \in [JobIds -> SUBSET EventNames]
  BY WorkersAssumption DEF WorkersInv, WorkersTypeOK, JobTableType
<1>2. CASE Claim(w)
  <2>1. PICK j \in JobIds : jobs[j].status = "queued" /\ jobs' = Claimed(j, w) /\ Event(j, "claimed")
    BY <1>2 DEF Claim, OldestQueued, InStatus
  <2>2. jobs'[j].status = "running" /\ \A k \in JobIds \ {j} : jobs'[k] = jobs[k] BY <1>1, <2>1, ClaimedRow
  <2> QED BY <1>1, <2>1, <2>2 DEF Event
<1>3. CASE FinishUpdate(w)
  <2>1. cur[w] \in JobIds /\ verdict[w] \in Terminal
    BY <1>1, <1>3 DEF FinishUpdate, Goto, WorkersInv, WorkersTypeOK, ExecutorOwnsJob, Executing, Holding
  <2>2. CASE Unfinalised(cur[w])
    BY <1>1, <1>3, <2>1, <2>2, FinishedRow DEF FinishUpdate, Unfinalised, Terminal
  <2>3. CASE ~Unfinalised(cur[w]) BY <1>3, <2>3 DEF FinishUpdate
  <2> QED BY <2>2, <2>3
<1>4. CASE FinishEvent(w) BY <1>1, <1>4 DEF FinishEvent, Event
<1>5. CASE SetExecutionMetadata(w) BY <1>1, <1>5 DEF SetExecutionMetadata, JobRow
<1>6. CASE MetadataEvent(w) \/ CommandInserted(w) BY <1>1, <1>6 DEF MetadataEvent, CommandInserted, Event
<1>7. CASE HeartbeatBlocked(w) \/ NothingToClaim(w) \/ HeartbeatIdle(w) \/ HeartbeatRunning(w) \/ HeartbeatDone(w)
  BY <1>7 DEF HeartbeatBlocked, NothingToClaim, HeartbeatIdle, HeartbeatRunning, HeartbeatDone
<1>8. CASE PrepareOk(w) \/ TaskRaises(w) \/ AcquireProjectLock(w) \/ AddWorktree(w) \/ GitFails(w)
  BY <1>8 DEF PrepareOk, TaskRaises, AcquireProjectLock, AddWorktree, GitFails
<1>9. CASE ExecuteCodex(w) \/ ValidateOutcome(w) \/ PreflightOk(w) \/ PreflightBlocked(w) \/ PreflightHangs(w)
  BY <1>9 DEF ExecuteCodex, ValidateOutcome, PreflightOk, PreflightBlocked, PreflightHangs
<1>10. CASE CommandRunOnce(w) \/ StatementFails(w) \/ KillCommand(w)
  BY <1>10 DEF CommandRunOnce, StatementFails, KillCommand, Kill, InitializeStore
<1>11. ~(\E kind \in Kinds : CommandInsert(w, kind)) BY DEF CommandInsert
<1> QED BY <1>2, <1>3, <1>4, <1>5, <1>6, <1>7, <1>8, <1>9, <1>10, <1>11 DEF WorkerStep, Progress

\* Jobs that come and go through the workers keep their rows.
LEMMA IntakeUnaware ==
  ASSUME IntakeRecordsInv, JobTableType', UNCHANGED intakeOnly
  PROVE  /\ IntakeRecordsInv'
         /\ (\A j \in JobIds : /\ jobs'[j].status = "absent" <=> jobs[j].status = "absent"
                               /\ events[j] \subseteq events'[j])
              => (JobsAreAccepted => JobsAreAccepted')
<1> USE DEF intakeOnly, githubVars, pollVars, IntakeRecordsInv
<1>1. IntakeTypeOK' BY DEF IntakeTypeOK
<1>2. ShownWasApproved' BY DEF ShownWasApproved, Approvable
<1>3. BatchesWereApproved' BY DEF BatchesWereApproved, EntryApproved
<1>4. RevisionRecordedOnce' /\ AcceptedWasApproved' /\ BlockedHaveNoJob'
  BY DEF RevisionRecordedOnce, AcceptedWasApproved, BlockedHaveNoJob
<1>5. \A j \in JobIds : Accepts(j)' = Accepts(j) BY DEF Accepts
<1> QED BY <1>1, <1>2, <1>3, <1>4, <1>5 DEF JobsAreAccepted

\* The process is killed and starts again: the poller forgets its batch.
LEMMA RestartStep ==
  ASSUME PlatformInv, RestartPlatform
  PROVE  PlatformInv'
<1> USE DEF PlatformInv, IntakeRecordsInv
<1>1. WorkersInv' BY KillStep, WorkersAssumption DEF RestartPlatform, RestartService
<1>2. UNCHANGED <<jobs, events, clock, intake, sources, failures, issues, approved, edits>>
  BY DEF RestartPlatform, RestartService, Kill, InitializeStore, githubVars
<1>3. <<>> \in Seq(Entries) /\ DOMAIN <<>> = {} OBVIOUS
<1>4. batch' \in [Pollers -> Seq(Entries)] /\ \A p \in Pollers : batch'[p] \in {batch[p], <<>>}
  BY <1>3 DEF RestartPlatform, IntakeTypeOK
<1>5. at' \in [Pollers -> Places] /\ project' \in [Pollers -> 1..Projects]
  BY IntakeAssumption DEF RestartPlatform, IntakeTypeOK, Resting, Places
<1>6. IntakeTypeOK' BY <1>2, <1>4, <1>5 DEF IntakeTypeOK, JobTableType
<1>7. ShownWasApproved' BY <1>2 DEF ShownWasApproved, Approvable
<1>8. BatchesWereApproved' BY <1>2, <1>3, <1>4 DEF BatchesWereApproved, EntryApproved
<1>9. RevisionRecordedOnce' /\ AcceptedWasApproved' /\ BlockedHaveNoJob'
  BY <1>2 DEF RevisionRecordedOnce, AcceptedWasApproved, BlockedHaveNoJob
<1>10. JobsAreAccepted => JobsAreAccepted' BY <1>2 DEF JobsAreAccepted, Accepts
<1> QED BY <1>1, <1>6, <1>7, <1>8, <1>9, <1>10 DEF NoCommands

\* Every step of the process keeps both invariants (serve, run_once, poll_once).
LEMMA PlatformStep == PlatformInv /\ [PlatformNext]_platformVars => PlatformInv'
<1> SUFFICES ASSUME PlatformInv, [PlatformNext]_platformVars PROVE PlatformInv'
  OBVIOUS
<1> USE DEF PlatformInv
<1>t. WorkersInv' => JobTableType' BY DEF WorkersInv, WorkersTypeOK
<1>u. IntakeRecordsInv' => JobTableType' BY DEF IntakeRecordsInv, IntakeTypeOK
<1>1. CASE RestartPlatform BY <1>1, RestartStep
<1>2. ASSUME NEW w \in Workers, WorkerActs(w) PROVE PlatformInv'
  <2>1. WorkerStep(w) /\ UNCHANGED intakeOnly BY <1>2 DEF WorkerActs
  <2>2. WorkersInv' BY <2>1, InvStep DEF WorkersNext
  <2>3. NoCommands => \A j \in JobIds : /\ jobs'[j].status = "absent" <=> jobs[j].status = "absent"
                                        /\ events[j] \subseteq events'[j]
    BY <2>1, ServiceKeepsQueue DEF NoCommands
  <2> QED BY <1>t, <2>1, <2>2, <2>3, IntakeUnaware DEF NoCommands
<1>3. ASSUME NEW p \in Pollers, PollerActs(p) PROVE PlatformInv'
  <2>1. PollStep(p) \/ PollFails(p) BY <1>3 DEF PollerActs
  <2>2. IntakeRecordsInv' /\ (JobsAreAccepted => JobsAreAccepted') BY <2>1, IntakeStep DEF IntakeNext
  <2>3. JobTableType BY DEF WorkersInv, WorkersTypeOK
  <2>4. WorkersInv' BY <1>3, <1>u, <2>1, <2>2, <2>3, IntakeJobs, WorkersUnaware DEF PollerActs
  <2> QED BY <2>2, <2>4 DEF NoCommands
<1>4. ASSUME NEW i \in Issues, EditIssue(i), UNCHANGED workersOnly PROVE PlatformInv'
  <2>1. IntakeRecordsInv' /\ (JobsAreAccepted => JobsAreAccepted') BY <1>4, IntakeStep DEF IntakeNext
  <2>2. UNCHANGED jobs BY <1>4 DEF EditIssue
  <2>3. WorkersInv' BY <1>4, <1>u, <2>1, <2>2, WorkersUnaware
  <2> QED BY <2>1, <2>3 DEF NoCommands
<1>5. CASE UNCHANGED platformVars
  <2>1. WorkersInv' BY <1>5, InvStep DEF platformVars
  <2>2. IntakeRecordsInv' /\ (JobsAreAccepted => JobsAreAccepted') BY <1>5, IntakeStep DEF platformVars
  <2> QED BY <2>1, <2>2 DEF NoCommands
<1> QED BY <1>1, <1>2, <1>3, <1>4, <1>5 DEF PlatformNext

-----------------------------------------------------------------------------
(* Theorems.                                                               *)

\* The workers' invariant and the intake's hold of the whole process, on the
\* tables they share, whatever fails and is killed.
THEOREM PlatformInvariant == PlatformSpec => []PlatformInv
<1>1. PlatformInit => PlatformInv
  BY InitInv, IntakeStart DEF PlatformInit, PlatformInv, IntakeInv
<1> QED BY <1>1, PlatformStep, PTL DEF PlatformSpec

\* Next to a poller, a job is executed by one worker at a time, and succeeds
\* only after its outcome was verified.
THEOREM PlatformIsSafe == PlatformSpec => [](ExclusiveOwnership /\ SuccessIsVerified)
<1>1. PlatformInv => ExclusiveOwnership /\ SuccessIsVerified
  BY DEF PlatformInv, WorkersInv, ExecutorOwnsJob, SingleExecutor, ExclusiveOwnership
<1> QED BY <1>1, PlatformInvariant, PTL

\* Without a command that queues jobs, whatever a worker executes is the job of
\* exactly one row of the intake, and that revision was approved (serve).
THEOREM OnlyApprovedExecuted == ASSUME NoCommands PROVE PlatformSpec => []ExecutedWasApproved
<1>1. PlatformInv => ExecutedWasApproved
  <2> SUFFICES ASSUME PlatformInv, NEW w \in Workers, Executing(w)
               PROVE  \E r \in intake :
                        /\ r.job = cur[w] /\ r.status = "accepted" /\ <<r.issue, r.rev>> \in approved
                        /\ \A s \in intake : s.job = cur[w] => s = r
    BY DEF ExecutedWasApproved
  <2> USE DEF PlatformInv
  <2>1. cur[w] \in JobIds /\ jobs[cur[w]].status # "absent" BY DEF WorkersInv, ExecutorOwnsJob, Terminal
  <2>2. PICK r \in intake : Accepts(cur[w]) = {r} BY <2>1 DEF JobsAreAccepted
  <2>3. r.job = cur[w] /\ r.status = "accepted" BY <2>2 DEF Accepts
  <2>4. <<r.issue, r.rev>> \in approved BY <2>3 DEF IntakeRecordsInv, AcceptedWasApproved
  <2>5. ASSUME NEW s \in intake, s.job = cur[w] PROVE s = r
    <3>1. s.status \in {"accepted", "blocked"} BY DEF IntakeRecordsInv, IntakeTypeOK, IntakeRows
    <3>2. s.status = "accepted" BY <2>1, <2>5, <3>1, NoneAssumption DEF IntakeRecordsInv, BlockedHaveNoJob
    <3> QED BY <2>2, <2>5, <3>2 DEF Accepts
  <2> QED BY <2>3, <2>4, <2>5
<1> QED BY <1>1, PlatformInvariant, PTL

============================================================================
