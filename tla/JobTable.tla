------------------------------ MODULE JobTable ------------------------------
(***************************************************************************)
(* The jobs and events tables of the agent platform's SQLite database      *)
(* (ops/agent/iron_house_agent/store.py) and the statements that insert    *)
(* into them.  AgentWorkers and AgentIntake share these tables.            *)
(***************************************************************************)
EXTENDS Naturals

CONSTANTS
  JobIds,      \* the uuids the store can draw
  Workers,     \* worker ids: the service's threads and the one-shot commands
  None         \* SQL NULL

ASSUME NoneAssumption == None \notin JobIds \cup Workers

VARIABLES
  jobs,        \* the jobs table, one record per uuid
  events,      \* the events table: for each job, the names of its events
  clock        \* reads of utc_now() that ended in an inserted job

(***************************************************************************)
(* A job's kind stands for its role and mode: "publish" is a standard job  *)
(* of a role in _PUBLISH_REQUIRED_ROLES, "report" a standard job of        *)
(* another role, "smoke" the smoke test's job, whose role is "build".      *)
(***************************************************************************)
Kinds == {"publish", "report", "smoke"}

Terminal == {"succeeded", "failed"}

\* "cancelled" is allowed by the schema and no statement ever writes it;
\* "absent" is the uuid that is not drawn yet.
Statuses == {"absent", "queued", "running"} \cup Terminal

EventNames == {"queued", "claimed", "worktree-ready"} \cup Terminal

NoRow == [status |-> "absent", kind |-> "report", queuedAt |-> 0,
          worker |-> None, branch |-> FALSE, exit |-> "null"]

JobRow == [status: Statuses, kind: Kinds, queuedAt: Nat,
           worker: Workers \cup {None}, branch: BOOLEAN,
           exit: {"null", "zero", "nonzero"}]

JobTableType ==
  /\ jobs \in [JobIds -> JobRow]
  /\ events \in [JobIds -> SUBSET EventNames]
  /\ clock \in Nat

JobTableInit ==
  /\ jobs = [j \in JobIds |-> NoRow]
  /\ events = [j \in JobIds |-> {}]
  /\ clock = 0

InStatus(s) == {j \in JobIds : jobs[j].status = s}

(***************************************************************************)
(* INSERT INTO jobs ... 'queued'.  queued_at is read before the statement  *)
(* waits for SQLite's write lock, so it may precede the stamp of a job     *)
(* inserted meanwhile: any value up to the current time.                   *)
(***************************************************************************)
QueuedRow(kind, stamp) ==
  [NoRow EXCEPT !.status = "queued", !.kind = kind, !.queuedAt = stamp]

InsertJob(j, kind) ==
  /\ jobs[j].status = "absent"
  /\ \E stamp \in 0..clock : jobs' = [jobs EXCEPT ![j] = QueuedRow(kind, stamp)]
  /\ clock' = clock + 1

\* INSERT INTO events (JobStore._event).
Event(j, name) == events' = [events EXCEPT ![j] = @ \cup {name}]

=============================================================================
