--------------------------- MODULE AgentPlatform ---------------------------
(***************************************************************************)
(* The agent platform as `iron-house-agent serve` runs it: the worker pool *)
(* of AgentWorkers and the intake poller of AgentIntake, in one process    *)
(* and on one database, next to the one-shot commands.                     *)
(***************************************************************************)
EXTENDS AgentWorkers, AgentIntake

platformVars == <<workersVars, intakeVars>>

\* What belongs to one side only; jobs, events and clock are shared.
workersOnly == <<threadVars, rows, gitVars, envVars>>
intakeOnly  == <<intake, sources, failures, githubVars, pollVars>>

PlatformInit == WorkersInit /\ IntakeInit

\* The poller is a daemon thread and the pool is what `serve` waits for:
\* when its last worker thread has ended, the process exits.
ServeExited == \A w \in Service : pc[w] = "dead"

\* Mutant of RestartPlatform: the workers start again and the poller does not.
RestartWithoutPoller ==
  /\ RestartService
  /\ at' = [p \in Pollers |-> IF p \in Daemon THEN "dead" ELSE at[p]]
  /\ UNCHANGED <<intake, sources, failures, githubVars, project, batch>>

\* The whole process is killed and started again.
RestartPlatform ==
  /\ RestartService
  /\ at' = [p \in Pollers |-> IF p \in Daemon THEN Resting(p) ELSE at[p]]
  /\ project' = [p \in Pollers |-> IF p \in Daemon THEN 1 ELSE project[p]]
  /\ batch' = [p \in Pollers |-> IF p \in Daemon THEN <<>> ELSE batch[p]]
  /\ UNCHANGED <<intake, sources, failures, githubVars>>

WorkerActs(w) == WorkerStep(w) /\ UNCHANGED intakeOnly

PollerActs(p) ==
  /\ p \in Daemon => ~ServeExited
  /\ PollStep(p) \/ PollFails(p)
  /\ UNCHANGED workersOnly

PlatformNext ==
  \/ RestartPlatform
  \/ \E w \in Workers : WorkerActs(w)
  \/ \E p \in Pollers : PollerActs(p)
  \/ \E i \in Issues : EditIssue(i) /\ UNCHANGED workersOnly

PlatformSpec == PlatformInit /\ [][PlatformNext]_platformVars

\* As for the parts; the poller is scheduled as long as the process lives.
PlatformFairness ==
  /\ \A w \in Workers :
       /\ WF_platformVars(Progress(w) /\ UNCHANGED intakeOnly)
       /\ SF_platformVars(AcquireProjectLock(w) /\ UNCHANGED intakeOnly)
       /\ SF_platformVars(PreflightOk(w) /\ UNCHANGED intakeOnly)
  /\ \A p \in Daemon :
       WF_platformVars(PollStep(p) /\ ~ServeExited /\ UNCHANGED workersOnly)

FairPlatformSpec == PlatformSpec /\ PlatformFairness

-----------------------------------------------------------------------------
(* Properties.                                                             *)

\* With no command queueing jobs, whatever a worker executes is the job of
\* one revision on record, and that revision was approved: across the queue,
\* the edits and every kill (docs/agent-platform.md, key controls).
ExecutedWasApproved ==
  \A w \in Workers : Executing(w) =>
    \E r \in intake :
      /\ r.job = cur[w] /\ r.status = "accepted"
      /\ <<r.issue, r.rev>> \in approved
      /\ \A s \in intake : s.job = cur[w] => s = r

\* An issue the listing shows is recorded, also when the service is killed
\* in the middle of a pass and started again.
PlatformCatchesUp ==
  \A i \in Issues : []<>(~Listed(i) \/ Recorded(Revision(i)))

=============================================================================
