---------------------------- MODULE AgentWorkers ----------------------------
(***************************************************************************)
(* The worker side of the agent platform: the worker threads of            *)
(* `iron-house-agent serve`, the one-shot commands `run-once`, `smoke` and *)
(* `enqueue`, and the statements of JobStore they execute                  *)
(* (ops/agent/iron_house_agent/runtime.py, store.py, cli.py).              *)
(*                                                                         *)
(* The store opens SQLite with isolation_level=None, so that a statement   *)
(* outside BEGIN IMMEDIATE commits by itself; each such statement is an    *)
(* action of its own.  A statement may fail (busy timeout, full disk), at  *)
(* most MaxFaults times; a process may be killed and started again, at     *)
(* most MaxRestarts times; a preflight command may exceed its timeout, at  *)
(* most MaxHangs times.                                                    *)
(***************************************************************************)
EXTENDS JobTable

CONSTANTS
  Service,      \* the threads of WorkerPool; the other workers are commands
  Smoke,        \* the worker ids of `smoke` commands
  Outcomes,     \* what a Codex run may leave behind: subsets of Facts
  MaxFaults, MaxRestarts, MaxHangs

ASSUME WorkersAssumption ==
  /\ Service \subseteq Workers
  /\ Smoke \subseteq Workers \ Service

VARIABLES
  pc,           \* where each worker is in _worker_loop, run_once, finish
  cur,          \* the local `job` of run_once
  verdict,      \* what finish is to record: "succeeded" or "failed"
  handling,     \* the worker is in run_once's except clause
  rows,         \* the workers table
  lock,         \* the holder of the project's flock
  worktrees,    \* jobs whose worktree and branch exist
  outcome,      \* what Codex left behind for each job
  faults, restarts, hangs

threadVars == <<pc, cur, verdict, handling>>
envVars    == <<faults, restarts, hangs>>
gitVars    == <<lock, worktrees, outcome>>
workersVars == <<jobs, events, clock, threadVars, rows, gitVars, envVars>>

(***************************************************************************)
(* The facts _validate_codex_outcome looks for after a Codex run.          *)
(***************************************************************************)
Facts == {"exit zero", "not blocked", "clean", "new commit",
          "pushed head", "draft PR"}
PublishFacts == {"clean", "new commit", "pushed head", "draft PR"}

ASSUME OutcomesAssumption == Outcomes \subseteq SUBSET Facts

\* Where a worker is when it holds a claimed job.
Holding == {"hbRunning", "prepare", "acquire", "git", "meta", "metaEvent",
            "exec", "validate", "finish"}
\* ... and after the status was updated.
Finishing == {"finishEvent", "hbDone"}

PcValues == {"loop", "off", "dead", "insertEvent", "claim", "hbIdle", "hbBlocked"}
              \cup Holding \cup Finishing

RowStates == {"none", "idle", "running", "blocked"}

WorkersTypeOK ==
  /\ JobTableType
  /\ pc \in [Workers -> PcValues]
  /\ cur \in [Workers -> JobIds \cup {None}]
  /\ verdict \in [Workers -> Terminal]
  /\ handling \in [Workers -> BOOLEAN]
  /\ rows \in [Workers -> [state: RowStates, job: JobIds \cup {None}]]
  /\ lock \in Workers \cup {None}
  /\ worktrees \in SUBSET JobIds
  /\ outcome \in [JobIds -> SUBSET Facts]
  /\ faults \in Nat /\ restarts \in Nat /\ hangs \in Nat

\* The threads are started by `serve`; no command is running yet.
Start(w) == IF w \in Service THEN "loop" ELSE "off"

WorkersInit ==
  /\ JobTableInit
  /\ pc = [w \in Workers |-> Start(w)]
  /\ cur = [w \in Workers |-> None]
  /\ verdict = [w \in Workers |-> "failed"]
  /\ handling = [w \in Workers |-> FALSE]
  /\ rows = [w \in Workers |-> [state |-> "none", job |-> None]]
  /\ lock = None
  /\ worktrees = {}
  /\ outcome = [j \in JobIds |-> {}]
  /\ faults = 0 /\ restarts = 0 /\ hangs = 0

-----------------------------------------------------------------------------
(* Thread bookkeeping.                                                     *)

Goto(w, from, to) ==
  /\ pc[w] = from
  /\ pc' = [pc EXCEPT ![w] = to]

\* run_once returned, or was never reached: the loop's next iteration.
Return(w) ==
  /\ pc' = [pc EXCEPT ![w] = Start(w)]
  /\ cur' = [cur EXCEPT ![w] = None]
  /\ handling' = [handling EXCEPT ![w] = FALSE]
  /\ verdict' = [verdict EXCEPT ![w] = "failed"]

(***************************************************************************)
(* An exception leaves run_once.  _worker_loop catches RuntimeError only,  *)
(* and a sqlite3 error is none: the thread ends.  A command ends as well.  *)
(***************************************************************************)
Unwind(w) ==
  /\ pc' = [pc EXCEPT ![w] = IF w \in Service THEN "dead" ELSE "off"]
  /\ cur' = [cur EXCEPT ![w] = None]
  /\ handling' = [handling EXCEPT ![w] = FALSE]
  /\ verdict' = [verdict EXCEPT ![w] = "failed"]

\* Mutant of Raise: the except clause is gone, the thread dies of its job.
RaiseUnhandled(w) == Unwind(w)

\* An exception inside run_once's try block: the handler calls store.fail.
Raise(w) ==
  /\ pc' = [pc EXCEPT ![w] = "finish"]
  /\ verdict' = [verdict EXCEPT ![w] = "failed"]
  /\ handling' = [handling EXCEPT ![w] = TRUE]
  /\ UNCHANGED cur

\* Mutant of SetRow: the upsert forgets current_job_id.
SetRowState(w, state, j) == rows' = [rows EXCEPT ![w].state = state]

\* JobStore.heartbeat: one upsert of the worker's row.
SetRow(w, state, j) == rows' = [rows EXCEPT ![w] = [state |-> state, job |-> j]]

-----------------------------------------------------------------------------
(* _worker_loop and the head of run_once.                                  *)

PreflightOk(w) ==
  /\ Goto(w, "loop", "claim")
  /\ UNCHANGED <<jobs, events, clock, cur, verdict, handling, rows, gitVars, envVars>>

\* Mutant of PreflightBlocked: the job is claimed before the preflight.
PreflightAfterClaim(w) ==
  /\ pc[w] \in {"loop", "hbRunning"}
  /\ pc' = [pc EXCEPT ![w] = IF w \in Service THEN "hbBlocked" ELSE "off"]
  /\ UNCHANGED <<jobs, events, clock, cur, verdict, handling, rows, gitVars, envVars>>

\* A command is missing or fails: RuntimeError.  Only the service's loop
\* reports the worker as blocked; a command prints the error and exits.
PreflightBlocked(w) ==
  /\ Goto(w, "loop", IF w \in Service THEN "hbBlocked" ELSE "off")
  /\ UNCHANGED <<jobs, events, clock, cur, verdict, handling, rows, gitVars, envVars>>

\* subprocess.TimeoutExpired is not translated to RuntimeError.
PreflightHangs(w) ==
  /\ pc[w] = "loop"
  /\ hangs < MaxHangs
  /\ hangs' = hangs + 1
  /\ Unwind(w)
  /\ UNCHANGED <<jobs, events, clock, rows, gitVars, faults, restarts>>

HeartbeatBlocked(w) ==
  /\ Goto(w, "hbBlocked", "loop")
  /\ SetRow(w, "blocked", None)
  /\ UNCHANGED <<jobs, events, clock, cur, verdict, handling, gitVars, envVars>>

-----------------------------------------------------------------------------
(* JobStore.claim_next.                                                    *)

\* Mutant of OldestQueued: the select loses its status filter.
Unfinished == {j \in JobIds : jobs[j].status \in {"queued", "running"}}

\* ORDER BY queued_at, id LIMIT 1; the ids are random, so ties go any way.
OldestQueued ==
  {j \in InStatus("queued") :
     \A k \in InStatus("queued") : jobs[j].queuedAt <= jobs[k].queuedAt}

NothingToClaim(w) ==
  /\ InStatus("queued") = {}
  /\ Goto(w, "claim", "hbIdle")
  /\ UNCHANGED <<jobs, events, clock, cur, verdict, handling, rows, gitVars, envVars>>

HeartbeatIdle(w) ==
  /\ pc[w] = "hbIdle"
  /\ SetRow(w, "idle", None)
  /\ Return(w)
  /\ UNCHANGED <<jobs, events, clock, gitVars, envVars>>

\* Mutant of Claimed: the update does not record the worker.
ClaimedByNobody(j, w) == [jobs EXCEPT ![j].status = "running"]

Claimed(j, w) == [jobs EXCEPT ![j].status = "running", ![j].worker = w]

\* BEGIN IMMEDIATE ... COMMIT: the select, the update and the event are one.
Claim(w) ==
  /\ Goto(w, "claim", "hbRunning")
  /\ \E j \in OldestQueued :
       /\ jobs' = Claimed(j, w)
       /\ Event(j, "claimed")
       /\ cur' = [cur EXCEPT ![w] = j]
  /\ UNCHANGED <<clock, verdict, handling, rows, gitVars, envVars>>

HeartbeatRunning(w) ==
  /\ Goto(w, "hbRunning", "prepare")
  /\ SetRow(w, "running", cur[w])
  /\ UNCHANGED <<jobs, events, clock, cur, verdict, handling, gitVars, envVars>>

-----------------------------------------------------------------------------
(* The body of run_once: prepare_worktree, metadata, Codex, validation.    *)

\* The project is registered, its checkout and AGENTS.md are there and the
\* job has no worktree yet.
PrepareOk(w) ==
  /\ cur[w] \notin worktrees
  /\ Goto(w, "prepare", "acquire")
  /\ UNCHANGED <<jobs, events, clock, cur, verdict, handling, rows, gitVars, envVars>>

\* Any exception of the body that is not a statement's or git's: an unknown
\* project, a missing policy, a log file, Codex not starting, a failing check.
TaskRaises(w) ==
  /\ pc[w] \in {"prepare", "meta", "exec", "validate"}
  /\ Raise(w)
  /\ UNCHANGED <<jobs, events, clock, rows, gitVars, envVars>>

\* Mutant of AcquireProjectLock: a lock that excludes nobody.
AcquireSharedLock(w) ==
  /\ Goto(w, "acquire", "git")
  /\ lock' = w
  /\ UNCHANGED <<jobs, events, clock, cur, verdict, handling, rows, worktrees,
                 outcome, envVars>>

AcquireProjectLock(w) ==
  /\ lock = None
  /\ Goto(w, "acquire", "git")
  /\ lock' = w
  /\ UNCHANGED <<jobs, events, clock, cur, verdict, handling, rows, worktrees,
                 outcome, envVars>>

\* git fetch, git worktree add -b; the lock is released on every way out.
AddWorktree(w) ==
  /\ Goto(w, "git", "meta")
  /\ worktrees' = worktrees \cup {cur[w]}
  /\ lock' = None
  /\ UNCHANGED <<jobs, events, clock, cur, verdict, handling, rows, outcome, envVars>>

GitFails(w) ==
  /\ pc[w] = "git"
  /\ lock' = None
  /\ Raise(w)
  /\ UNCHANGED <<jobs, events, clock, rows, worktrees, outcome, envVars>>

SetExecutionMetadata(w) ==
  /\ Goto(w, "meta", "metaEvent")
  /\ jobs' = [jobs EXCEPT ![cur[w]].branch = TRUE]
  /\ UNCHANGED <<events, clock, cur, verdict, handling, rows, gitVars, envVars>>

MetadataEvent(w) ==
  /\ Goto(w, "metaEvent", "exec")
  /\ Event(cur[w], "worktree-ready")
  /\ UNCHANGED <<jobs, clock, cur, verdict, handling, rows, gitVars, envVars>>

\* _execute_codex: the child process runs to its end.
ExecuteCodex(w) ==
  /\ Goto(w, "exec", "validate")
  /\ \E facts \in Outcomes : outcome' = [outcome EXCEPT ![cur[w]] = facts]
  /\ UNCHANGED <<jobs, events, clock, cur, verdict, handling, rows, lock,
                 worktrees, envVars>>

\* Mutant of Accepted: publishing roles are not checked any further.
AcceptedIfDone(j) == {"exit zero", "not blocked"} \subseteq outcome[j]

\* _validate_codex_outcome: what a run must leave behind to be a success.
Accepted(j) ==
  /\ {"exit zero", "not blocked"} \subseteq outcome[j]
  /\ jobs[j].kind = "publish" => PublishFacts \subseteq outcome[j]

ValidateOutcome(w) ==
  /\ Goto(w, "validate", "finish")
  /\ verdict' = [verdict EXCEPT ![w] = IF Accepted(cur[w]) THEN "succeeded"
                                                           ELSE "failed"]
  /\ UNCHANGED <<jobs, events, clock, cur, handling, rows, gitVars, envVars>>

-----------------------------------------------------------------------------
(* JobStore.finish: three statements, each committed by itself.            *)

\* Mutant of Unfinalised: the update has no status condition.
AnyStatus(j) == TRUE

\* WHERE id = ? AND status = 'running'
Unfinalised(j) == jobs[j].status = "running"

Finished(j, result) ==
  [jobs EXCEPT ![j].status = result,
               ![j].exit = IF result = "succeeded" THEN "zero" ELSE "nonzero"]

FinishUpdate(w) ==
  LET j == cur[w] IN
  /\ Goto(w, "finish", "finishEvent")
  /\ jobs' = IF Unfinalised(j) THEN Finished(j, verdict[w]) ELSE jobs
  /\ UNCHANGED <<events, clock, cur, verdict, handling, rows, gitVars, envVars>>

FinishEvent(w) ==
  /\ Goto(w, "finishEvent", "hbDone")
  /\ Event(cur[w], verdict[w])
  /\ UNCHANGED <<jobs, clock, cur, verdict, handling, rows, gitVars, envVars>>

\* heartbeat(row["worker_id"], "idle", None)
HeartbeatDone(w) ==
  /\ pc[w] = "hbDone"
  /\ SetRow(jobs[cur[w]].worker, "idle", None)
  /\ Return(w)
  /\ UNCHANGED <<jobs, events, clock, gitVars, envVars>>

-----------------------------------------------------------------------------
(* The commands, failing statements, and the death of processes.           *)

\* `smoke` (after its own preflight) inserts a smoke job and `enqueue` a
\* standard one; the event follows in a statement of its own.
CommandInsert(w, kind) ==
  /\ w \notin Service
  /\ (w \in Smoke) <=> (kind = "smoke")
  /\ \E j \in JobIds :
       /\ InsertJob(j, kind)
       /\ cur' = [cur EXCEPT ![w] = j]
  /\ Goto(w, "off", "insertEvent")
  /\ UNCHANGED <<events, verdict, handling, rows, gitVars, envVars>>

\* `smoke` goes on to run_once; `enqueue` exits.
CommandInserted(w) ==
  LET j == cur[w] IN
  /\ Goto(w, "insertEvent", IF w \in Smoke THEN "loop" ELSE "off")
  /\ Event(j, "queued")
  /\ cur' = [cur EXCEPT ![w] = None]
  /\ UNCHANGED <<jobs, clock, verdict, handling, rows, gitVars, envVars>>

\* `run-once`: the head of run_once with no loop around it.
CommandRunOnce(w) ==
  /\ w \notin Service \cup Smoke
  /\ Goto(w, "off", "loop")
  /\ UNCHANGED <<jobs, events, clock, cur, verdict, handling, rows, gitVars, envVars>>

Guarded == {"meta", "metaEvent", "finish", "finishEvent", "hbDone"}
Unguarded == {"hbBlocked", "claim", "hbIdle", "hbRunning", "insertEvent"}

\* A statement of the worker's next action raises sqlite3.OperationalError.
\* Inside run_once's try block it becomes a failure of the job; in the
\* handler, in claim_next or in a heartbeat of the loop nothing catches it.
StatementFails(w) ==
  /\ faults < MaxFaults
  /\ faults' = faults + 1
  /\ \/ /\ pc[w] \in Guarded /\ ~handling[w]
        /\ Raise(w)
     \/ /\ pc[w] \in Unguarded \/ (pc[w] \in Guarded /\ handling[w])
        /\ Unwind(w)
  /\ UNCHANGED <<jobs, events, clock, rows, gitVars, restarts, hangs>>

\* Mutant of InitializeStore: a start queues again whatever is running.
RequeueRunning ==
  /\ jobs' = [j \in JobIds |-> IF jobs[j].status = "running"
                              THEN [jobs[j] EXCEPT !.status = "queued"]
                              ELSE jobs[j]]
  /\ UNCHANGED <<events, clock>>

\* AgentRuntime.initialize, at every start: only missing tables are created.
InitializeStore == UNCHANGED <<jobs, events, clock>>

\* The processes of the workers in W are killed; a flock dies with its holder.
Kill(W) ==
  /\ restarts < MaxRestarts
  /\ restarts' = restarts + 1
  /\ pc' = [w \in Workers |-> IF w \in W THEN Start(w) ELSE pc[w]]
  /\ cur' = [w \in Workers |-> IF w \in W THEN None ELSE cur[w]]
  /\ handling' = [w \in Workers |-> IF w \in W THEN FALSE ELSE handling[w]]
  /\ verdict' = [w \in Workers |-> IF w \in W THEN "failed" ELSE verdict[w]]
  /\ lock' = IF lock \in W THEN None ELSE lock
  /\ InitializeStore
  /\ UNCHANGED <<rows, worktrees, outcome, faults, hangs>>

\* The service is killed, and systemd or the operator starts it again.
RestartService == Kill(Service)

KillCommand(w) ==
  /\ w \notin Service
  /\ pc[w] # "off"
  /\ Kill({w})

\* What a worker that is not killed does of its own accord.
Progress(w) ==
  \/ HeartbeatBlocked(w)
  \/ NothingToClaim(w) \/ HeartbeatIdle(w) \/ Claim(w) \/ HeartbeatRunning(w)
  \/ PrepareOk(w) \/ TaskRaises(w)
  \/ AcquireProjectLock(w) \/ AddWorktree(w) \/ GitFails(w)
  \/ SetExecutionMetadata(w) \/ MetadataEvent(w)
  \/ ExecuteCodex(w) \/ ValidateOutcome(w)
  \/ FinishUpdate(w) \/ FinishEvent(w) \/ HeartbeatDone(w)
  \/ CommandInserted(w)

WorkerStep(w) ==
  \/ Progress(w)
  \/ PreflightOk(w) \/ PreflightBlocked(w) \/ PreflightHangs(w)
  \/ \E kind \in Kinds : CommandInsert(w, kind)
  \/ CommandRunOnce(w)
  \/ StatementFails(w) \/ KillCommand(w)

WorkersNext == RestartService \/ \E w \in Workers : WorkerStep(w)

WorkersSpec == WorkersInit /\ [][WorkersNext]_workersVars

(***************************************************************************)
(* Python schedules every thread, git and Codex end (git has a timeout,    *)
(* Codex is assumed to), flock serves every waiter, and the operator       *)
(* repairs what a preflight reports, so that it does not fail for ever.    *)
(***************************************************************************)
WorkersFairness ==
  \A w \in Workers :
    /\ WF_workersVars(Progress(w))
    /\ SF_workersVars(AcquireProjectLock(w))
    /\ SF_workersVars(PreflightOk(w))

FairWorkersSpec == WorkersSpec /\ WorkersFairness

-----------------------------------------------------------------------------
(* Properties.                                                             *)

\* The worker is between the claim and the end of run_once.
Executing(w) == pc[w] \in Holding \cup Finishing

\* Two workers never execute the same job, whatever is killed or fails
\* between the claim and the outcome (JobStore.claim_next).
SingleExecutor ==
  \A v, w \in Workers :
    Executing(v) /\ Executing(w) /\ cur[v] = cur[w] => v = w

\* The job a worker executes is recorded as its own, and as running until
\* the worker itself records an outcome.
ExecutorOwnsJob ==
  \A w \in Workers : Executing(w) =>
    /\ cur[w] \in JobIds
    /\ jobs[cur[w]].worker = w
    /\ jobs[cur[w]].status \in {"running"} \cup Terminal
    /\ pc[w] \in Holding /\ ~handling[w] => jobs[cur[w]].status = "running"

\* A job is executed by one worker at a time, the one that its row names.
ExclusiveOwnership == SingleExecutor /\ ExecutorOwnsJob

\* An outcome is final: a handler that runs after the outcome was written
\* (a failed event or heartbeat) does not rewrite it (JobStore.finish).
OutcomeIsFinal ==
  [][\A j \in JobIds : jobs[j].status \in Terminal =>
       /\ jobs'[j].status = jobs[j].status
       /\ jobs'[j].exit = jobs[j].exit]_workersVars

\* A success was executed in a worktree of its own with its branch on record,
\* and a publishing job left a clean, pushed commit in an open draft pull
\* request (docs/agent-platform.md, key controls).
SuccessIsVerified ==
  \A j \in InStatus("succeeded") :
    /\ j \in worktrees
    /\ jobs[j].branch
    /\ jobs[j].exit = "zero"
    /\ {"exit zero", "not blocked"} \subseteq outcome[j]
    /\ jobs[j].kind = "publish" => PublishFacts \subseteq outcome[j]

\* From the first heartbeat after a claim to the last one, the dashboard
\* shows the worker running exactly the job it executes.
DashboardAgrees ==
  \A w \in Workers :
    pc[w] \in (Holding \cup Finishing) \ {"hbRunning"} =>
      rows[w] = [state |-> "running", job |-> cur[w]]

\* Two workers never run git on the project's checkout at the same time,
\* also when a lock holder is killed (_project_lock).
CheckoutExclusive ==
  \A v, w \in Workers : pc[v] = "git" /\ pc[w] = "git" => v = w

\* A running job has a worker on it: a task that fails is recorded as failed
\* (runtime.py:198).
RunningIsAttended ==
  \A j \in InStatus("running") : \E w \in Workers : Executing(w) /\ cur[w] = j

\* As long as no statement failed and no process was killed, whatever raises
\* in a worker (git, Codex, a check, a preflight) leaves no job running.
AttendedUnlessMishap == faults + restarts = 0 => RunningIsAttended

\* As long as no statement failed, and whatever was killed, the audit trail
\* never tells another outcome than the job's, and shows a claim exactly when
\* there was one.
AuditTrailAgrees == faults = 0 =>
  \A j \in JobIds :
    /\ events[j] \cap Terminal \subseteq {jobs[j].status}
    /\ "claimed" \in events[j] <=> jobs[j].status \notin {"absent", "queued"}

\* Every queued job gets an outcome while threads are left to claim it.
QueueDrains ==
  \A j \in JobIds : jobs[j].status = "queued" ~> jobs[j].status \in Terminal

\* The worker side implements the life cycle of JobLifecycle.
Lifecycle == INSTANCE JobLifecycle WITH
  status <- [j \in JobIds |-> jobs[j].status],
  owner  <- [j \in JobIds |-> jobs[j].worker]

ImplementsLifecycle == Lifecycle!LifecycleSpec

\* The tables keep their types; while nothing outside of a worker goes wrong, no
\* running job is abandoned and the audit trail tells each job's own outcome.
UndisturbedRecordsAgree == WorkersTypeOK /\ AttendedUnlessMishap /\ AuditTrailAgrees

=============================================================================
