---------------------------- MODULE AgentIntake ----------------------------
(***************************************************************************)
(* The GitHub issue intake of the agent platform                           *)
(* (ops/agent/iron_house_agent/intake.py, JobStore.record_issue_intake):   *)
(* the poller thread of `serve` and the command `intake-once` list the     *)
(* labelled issues of every registered project and queue a job for each    *)
(* approved revision, while people edit the issues.                        *)
(*                                                                         *)
(* record_issue_intake is one BEGIN IMMEDIATE transaction and one action.  *)
(* What raises inside poll_once's try block (GitHub, the payload, a        *)
(* statement) happens at most MaxFailures times; issues are edited at most   *)
(* MaxEdits times in all.                                                  *)
(***************************************************************************)
EXTENDS JobTable, FiniteSets, Sequences

CONSTANTS
  Issues,       \* the issues, by number: the newest has the highest number
  Projects,     \* the number of registered projects, polled in their order
  ProjectOf,    \* the project whose repository an issue belongs to
  Pollers,      \* the threads that poll
  Daemon,       \* those of the service; the others are `intake-once` commands
  Down,         \* the projects whose repository gh can never read
  ListLimit,    \* gh issue list --limit
  MaxFailures, MaxEdits

ASSUME IntakeAssumption ==
  /\ Issues \subseteq Nat \ {0}
  /\ IsFiniteSet(Issues)
  /\ Projects \in Nat \ {0}
  /\ ProjectOf \in [Issues -> 1..Projects]
  /\ Daemon \subseteq Pollers
  /\ Down \subseteq 1..Projects
  /\ ListLimit \in Nat \ {0}

VARIABLES
  issues,       \* GitHub: revision (updatedAt), ready (open and agent:ready), form
  approved,     \* history: the revisions that were ever ready and well formed
  intake,       \* the issue_intake table
  sources,      \* the intake_sources table
  at,           \* where each poller is in poll_once
  project,      \* the project of its for loop
  batch,        \* what is left of the issues it listed
  failures, edits

githubVars == <<issues, approved, edits>>
pollVars   == <<at, project, batch>>
intakeVars == <<jobs, events, clock, intake, sources, failures, githubVars, pollVars>>

(***************************************************************************)
(* A revision's form is the kind of job its one role label asks for, or    *)
(* "bad": no or several roles, prohibited or secret-like text, a title or  *)
(* body that _validate_job refuses.                                        *)
(***************************************************************************)
Forms == {"publish", "report", "bad"}

Revision(i) == [issue |-> i, rev |-> issues[i].rev, form |-> issues[i].form]

Entries == [issue: Issues, rev: Nat, form: Forms]

IntakeRows == [issue: Issues, rev: Nat, status: {"accepted", "blocked"},
               job: JobIds \cup {None}]

Places == {"wait", "list", "process", "ready", "blocked", "off", "dead"}

IntakeTypeOK ==
  /\ JobTableType
  /\ issues \in [Issues -> [rev: Nat, ready: BOOLEAN, form: Forms]]
  /\ approved \subseteq Issues \X Nat
  /\ intake \subseteq IntakeRows
  /\ sources \in [1..Projects -> {"none", "ready", "blocked"}]
  /\ at \in [Pollers -> Places]
  /\ project \in [Pollers -> 1..Projects]
  /\ batch \in [Pollers -> Seq(Entries)]
  /\ failures \in Nat /\ edits \in Nat

Resting(p) == IF p \in Daemon THEN "wait" ELSE "off"

IntakeInit ==
  /\ JobTableInit
  /\ issues \in [Issues -> [rev: {0}, ready: BOOLEAN, form: Forms]]
  /\ approved = {<<i, 0>> : i \in {k \in Issues : issues[k].ready
                                                    /\ issues[k].form # "bad"}}
  /\ intake = {}
  /\ sources = [n \in 1..Projects |-> "none"]
  /\ at = [p \in Pollers |-> Resting(p)]
  /\ project = [p \in Pollers |-> 1]
  /\ batch = [p \in Pollers |-> <<>>]
  /\ failures = 0 /\ edits = 0

-----------------------------------------------------------------------------
(* GitHub.                                                                 *)

\* Someone edits or labels an issue.  updatedAt has a resolution of one
\* second: two edits may share a revision.
EditIssue(i) ==
  /\ edits < MaxEdits
  /\ edits' = edits + 1
  /\ \E ready \in BOOLEAN, form \in Forms, rev \in {issues[i].rev, issues[i].rev + 1} :
       /\ issues' = [issues EXCEPT ![i] = [rev |-> rev, ready |-> ready, form |-> form]]
       /\ approved' = IF ready /\ form # "bad" THEN approved \cup {<<i, rev>>}
                                               ELSE approved
  /\ UNCHANGED <<jobs, events, clock, intake, sources, failures, pollVars>>

ReadyIssues(n) == {i \in Issues : issues[i].ready /\ ProjectOf[i] = n}

\* gh issue list: the newest ListLimit ready issues.
Listing(n) ==
  {i \in ReadyIssues(n) : Cardinality({k \in ReadyIssues(n) : k > i}) < ListLimit}

\* In the order it shows them, newest first.
NewestFirst(S) ==
  {s \in [1..Cardinality(S) -> S] : \A a, b \in DOMAIN s : a < b => s[a] > s[b]}

-----------------------------------------------------------------------------
(* poll_once.                                                              *)

Move(p, from, to) ==
  /\ at[p] = from
  /\ at' = [at EXCEPT ![p] = to]

StartPoll(p) ==
  /\ Move(p, Resting(p), "list")
  /\ project' = [project EXCEPT ![p] = 1]
  /\ UNCHANGED <<jobs, events, clock, intake, sources, failures, githubVars,
                 batch>>

ListIssues(p) ==
  /\ project[p] \notin Down
  /\ Move(p, "list", "process")
  /\ \E s \in NewestFirst(Listing(project[p])) :
       batch' = [batch EXCEPT ![p] = [k \in DOMAIN s |-> Revision(s[k])]]
  /\ UNCHANGED <<jobs, events, clock, intake, sources, failures, githubVars, project>>

\* gh exits with an error, every time.
ListFails(p) ==
  /\ project[p] \in Down
  /\ Move(p, "list", "blocked")
  /\ UNCHANGED <<jobs, events, clock, intake, sources, failures, githubVars,
                 project, batch>>

\* SELECT ... WHERE source, repository, issue_number and revision match.
Recorded(e) == \E r \in intake : r.issue = e.issue /\ r.rev = e.rev

\* Mutant of Blocked: the text and the roles are not looked at.
BlockedByPolicy(e, policy) == ~policy

\* The block reasons of _process_issue and _validate_job.
Blocked(e, policy) == e.form = "bad" \/ ~policy

\* Mutant of IntakeRow: the row does not refer to its job.
IntakeRowWithoutJob(e, status, j) ==
  [issue |-> e.issue, rev |-> e.rev, status |-> status, job |-> None]

IntakeRow(e, status, j) ==
  [issue |-> e.issue, rev |-> e.rev, status |-> status, job |-> j]

\* record_issue_intake, one transaction; policy: the checkout has AGENTS.md.
RecordIssue(p) ==
  LET e == Head(batch[p]) IN
  /\ at[p] = "process" /\ batch[p] # <<>>
  /\ batch' = [batch EXCEPT ![p] = Tail(@)]
  /\ \/ /\ Recorded(e)
        /\ UNCHANGED <<jobs, events, clock, intake>>
     \/ /\ ~Recorded(e)
        /\ \E policy \in BOOLEAN :
             \/ /\ Blocked(e, policy)
                /\ intake' = intake \cup {IntakeRow(e, "blocked", None)}
                /\ UNCHANGED <<jobs, events, clock>>
             \/ /\ ~Blocked(e, policy)
                /\ \E j \in JobIds :
                     /\ InsertJob(j, e.form)
                     /\ Event(j, "queued")
                     /\ intake' = intake \cup {IntakeRow(e, "accepted", j)}
  /\ UNCHANGED <<sources, failures, githubVars, at, project>>

BatchDone(p) ==
  /\ batch[p] = <<>>
  /\ Move(p, "process", "ready")
  /\ UNCHANGED <<jobs, events, clock, intake, sources, failures, githubVars,
                 project, batch>>

\* After the last project poll_once returns.
NextProject(p) ==
  IF project[p] < Projects
  THEN /\ at' = [at EXCEPT ![p] = "list"]
       /\ project' = [project EXCEPT ![p] = @ + 1]
  ELSE /\ at' = [at EXCEPT ![p] = Resting(p)]
       /\ project' = [project EXCEPT ![p] = 1]

\* update_intake_source
SetSource(p, state) == sources' = [sources EXCEPT ![project[p]] = state]

SourceReady(p) ==
  /\ at[p] = "ready"
  /\ SetSource(p, "ready")
  /\ NextProject(p)
  /\ UNCHANGED <<jobs, events, clock, intake, failures, githubVars, batch>>

\* Mutant of SourceBlocked: a blocked source ends the pass.
SourceBlockedReturns(p) ==
  /\ Move(p, "blocked", Resting(p))
  /\ SetSource(p, "blocked")
  /\ batch' = [batch EXCEPT ![p] = <<>>]
  /\ UNCHANGED <<jobs, events, clock, intake, failures, githubVars, project>>

SourceBlocked(p) ==
  /\ at[p] = "blocked"
  /\ SetSource(p, "blocked")
  /\ NextProject(p)
  /\ batch' = [batch EXCEPT ![p] = <<>>]
  /\ UNCHANGED <<jobs, events, clock, intake, failures, githubVars>>

\* gh fails, an issue cannot be read, or a statement raises: the except
\* clause.  A statement that raises in the except clause leaves poll_once,
\* and with it the poller's loop.
PollFails(p) ==
  /\ failures < MaxFailures
  /\ failures' = failures + 1
  /\ \/ /\ at[p] \in {"list", "process", "ready"}
        /\ at' = [at EXCEPT ![p] = "blocked"]
     \/ /\ Move(p, "blocked", IF p \in Daemon THEN "dead" ELSE "off")
  /\ UNCHANGED <<jobs, events, clock, intake, sources, githubVars, project, batch>>

\* What a poller does of its own accord.
PollStep(p) ==
  \/ StartPoll(p)
  \/ ListIssues(p) \/ ListFails(p) \/ RecordIssue(p) \/ BatchDone(p)
  \/ SourceReady(p) \/ SourceBlocked(p)

IntakeNext ==
  \/ \E i \in Issues : EditIssue(i)
  \/ \E p \in Pollers : PollStep(p) \/ PollFails(p)

IntakeSpec == IntakeInit /\ [][IntakeNext]_intakeVars

\* The daemon's loop polls again after every interval, and GitHub answers.
IntakeFairness == \A p \in Daemon : WF_intakeVars(PollStep(p))

FairIntakeSpec == IntakeSpec /\ IntakeFairness

-----------------------------------------------------------------------------
(* Properties.                                                             *)

\* Each issue revision is recorded at most once, whoever polls it and
\* however often (docs/agent-platform.md:115).
RevisionRecordedOnce ==
  \A r, s \in intake : r.issue = s.issue /\ r.rev = s.rev => r = s

\* A revision on record as accepted has a job of its own in the queue, and
\* no job is in the queue without one (JobStore.record_issue_intake).
QueueMatchesIntake ==
  LET Accepts(j) == {r \in intake : r.status = "accepted" /\ r.job = j} IN
  \A j \in JobIds :
    IF jobs[j].status = "absent" THEN Accepts(j) = {}
    ELSE Cardinality(Accepts(j)) = 1 /\ "queued" \in events[j]

\* Only a revision that was labelled ready, with one role and no refused
\* text, becomes a job, however stale the listing it is taken from.
AcceptedWasApproved ==
  \A r \in intake : r.status = "accepted" => <<r.issue, r.rev>> \in approved

\* The listing of its project shows the issue.
Listed(i) == i \in Listing(ProjectOf[i])

\* The daemon gets round to every issue a listing shows, whatever it is
\* edited to, also when an earlier repository cannot be read and when a call
\* fails, as long as no failure of the except clause ends its thread.
IntakeCatchesUp ==
  \A i \in Issues : ProjectOf[i] \notin Down =>
    []<>(~Listed(i) \/ Recorded(Revision(i)) \/ \E p \in Daemon : at[p] = "dead")

\* Whatever the pollers do at the same time, the intake and the queue agree:
\* every recorded revision is recorded once, was queued with its job if and
\* only if it was accepted, and was accepted only if it was approved.
IntakeIsConsistent ==
  IntakeTypeOK /\ RevisionRecordedOnce /\ QueueMatchesIntake /\ AcceptedWasApproved

=============================================================================
