# Iron House OS: a TLA+ model of its shared state

This directory specifies the parts of Iron House OS in which several actors
work on shared state, or one actor may stop half-way: the agent platform of
`ops/agent`, the backend's accounts, projects, quotes, field work, time
sheets, money, documents, connections and imports, and the draft hook of the
frontend. Each module is translated from the source; `PROJECT.json` maps every
definition to the lines it stands for. TLC checks the modules on small
instances, and TLAPS proves for every instance their safety: 35 of the 36 safety
and action properties that the passing runs check, all but `ImportsHold`
(section 5 says why). Liveness stays with TLC.

Paths below are relative to the repository. Run a check with, for example,
`tlc -config workers_fair.cfg MCAgentWorkers`, and the proofs with
`tlapm AwardProofs.tla` (from a minute for the smallest proof module to about ten for
`ImportProofs`).

## 1. Inventory

Iron House OS is a FastAPI application over PostgreSQL (READ COMMITTED, one
SQLAlchemy session and transaction per request, no retries by the server), a
React frontend, an agent platform with a database of its own (SQLite in WAL
mode), operators' commands, and the scripts that deploy and back up all of it.

| Component | State it keeps | Operations | Hard behaviour | What makes it correct |
| --- | --- | --- | --- | --- |
| Job store and worker pool (`ops/agent/iron_house_agent/{store,runtime,cli}.py`) | `jobs`, `events`, `workers` tables; worktrees and branches; the checkout's flock | `serve` (threads), `run-once`, `smoke`, `enqueue`; claim, prepare, execute, validate, finish, heartbeat | threads and processes claim from one queue; every statement commits by itself; statements fail, preflights hang, processes die and are restarted | a job is claimed once and executed by one worker, gets one outcome for good, succeeds only if verified; the queue drains |
| GitHub intake (`intake.py`, `store.py`) | `issue_intake`, `intake_sources` tables | poll, record a revision and queue its job, report a source's health | a daemon and a command poll at once; issues are edited between listing and record; calls fail; the process dies | a revision is recorded once, with its job, only if it was approved; nothing that is listed is forgotten |
| Project registry (`config.py`, `registration.py`) | one JSON file, checkouts, staging directories | register, load, poll | unlocked read, append, replace; a death between clone, labels and file | a project is served from its own checkout, the file loads, what was reported active is served |
| Accounts and login throttle (`services/auth.py`, `admin_access_recovery.py`) | accounts, session versions, throttle rows | log in and out, create, change, reset, recover | counts and increments read before they are written | an active administrator remains, an old password opens nothing, no failure goes uncounted |
| Employee onboarding (`services/employee_onboarding.py`) | records, links, packets | invite, fill in, submit, review, activate, revoke | link replaced, expired or used meanwhile; two activations | approved as reviewed, hired once, a dead link stays dead |
| Projects and launch (`services/projects.py`, `project_safety_launch.py`) | projects, job numbers, metadata, checklists | create, update, award, launch, release, close out, archive | retries on a unique number; a JSON column written as a whole | one number per award, a release is management's last decision, no completion with open closeout |
| Customer quotes (`services/customer_quotes.py`) | quotes with revisions, contract value | create, revise, approve, issue, close, accept | acceptance races other sessions and job numbers | accepted as shown and issued, with its award whole |
| Daily time sheets (`services/daily_timesheets.py`) | `field_records`, `time_entries` | save, submit, approve, reject, void, reopen, revise, export, post | row locks, an advisory lock per job and day, the job's row; deadlocks; lost answers | no double booking, no day paid twice, a post is exact, what is submitted does not change |
| Field records (`services/field_operations.py`) | `field_records` with JSON details, signatures and histories | assess, sign, reassess, release, move, decide, import | whole columns written back; repeated imports | released only signed and complete, histories and imports whole |
| Operators and the fleet (`services/field_operations.py`, `equipment.py`) | vehicles, equipment, logs | assign, log, set odometer and status, review | access read in several statements | an entry was allowed, the odometer at the highest reading |
| Receipts (`services/receipts.py`) | receipts with versions, ledger entries | capture, correct, submit, approve, reconcile, export, void | screens that are out of date, repeated exports | posted once, as the approver saw it |
| Invoices and packages (`services/customer_invoices.py`, `chat_invoice_intake.py`, `project_invoice_packages.py`) | invoices, package keys | make by hand, from a chat, from completed work; change status | two steps without a lock; repeated intake | on file as asked for, billed once, no project without its invoice |
| Budgets and costs (`services/finance.py`, `completed_work_costs.py`) | entries, baseline and plan, costs | import, enter, decide, post | overlapping and repeated imports | the baseline is the estimate, a decided plan stays, costs counted once |
| Supplier RFQs (`services/rfq_packages.py`, `rfq_workflows.py`) | recipients, documents, one JSON column | select, scope, attach, plan, answer | the column read and written as a whole | a plan not called stale is today's, no acknowledged answer is dropped |
| Supplier quotes and hand-off (`services/quotes.py`, `quote_selection.py`, `quote_estimate_handoff.py`, `estimates.py`, `equipment_rates.py`) | quotes, estimate drafts with lines and costs | save, select, hand off, calculate | a draft saved or a quote revised meanwhile; costs stored beside the lines they are of | a line is priced once, by the quote the rules select, and at what it costs |
| Photo inbox (`services/backups.py`) | intake rows, audit trail | claim, screen, classify, triage, retry, route | two controllers, a dying run, a late retry | one controller per intake, sensitive text stays, no change of queue is lost |
| Help inbox (`services/help_feedback.py`) | groups with counts, reports | report, review | first reports race for one key | every answered report counted, the last review stands |
| Workflow drafts (`services/workflow_drafts.py`, `useWorkflowDraft.ts`) | drafts with revisions, the browser's recovery buffer | edit, autosave, close, resume | two tabs, lost calls and answers | no silent overwrite, what is shown as saved is saved |
| Documents, media, storage (`services/documents.py`, `media.py`, `file_storage.py`) | rows, versions, links, files | upload, replace, edit, link, delete | file and row are not one transaction; version numbers | versions in order, the evidence's file and metadata kept |
| QuickBooks (`api/v1/routes/quickbooks.py`, `services/quickbooks.py`) | connection, OAuth states, saved credentials; Intuit's grants and rotating tokens | configure, remove, start, callback, verify, disconnect | calls to Intuit between a read and a write; only one reader locks; columns written selectively | a state is used once, no rotated token is overwritten, a disconnect leaves no token |
| Google Calendar (`api/v1/routes/google_calendar.py`) | connection, OAuth states; Google's grants | start, callback, use, disconnect | the same without any lock | connected means a token; only a callback connects |
| Staging imports (`services/drive_tender_import.py`, `fuel_`, `fernie_`, `bennett_..._import.py`) | projects, tenders, bids, documents | read, find by key, make or update | repeated, refreshed manifest, overlapping, rolled back | each thing once and whole; a repetition changes nothing |
| E-mail domain (`services/email_domain_migration.py`) | accounts, employees, contacts, throttles | migrate | logins, hires, edits and restarts beside it | no retired address, nobody loses an account |
| Staging pilots (`tools/bennett_*_staging_pilot.py`, `bennett_quote_staging_award.py`) | none; quote, project, budget, plan and launch over HTTP | verify, request, request again, verify, report | runs that die, requests served late, overlapping pilots, the office | a report is true, a rerun passes, no decision undone |
| Production imports (`ops/scripts/production_*_import.py`) | quotes, projects, work lines, invoice, over HTTP | find or make each | answers lost, requests served late, runs that die | nothing twice, what is reported is true |
| Deployment, cutover, backup (`ops/digitalocean`, `ops/deploy-agent`, `scripts`) | releases, maintenance mode, dumps | deploy, cut over, roll back, back up, restore | locks, traps, dying half-way | one deployment at a time, maintenance mode ends |
| Tenders, takeoff, meetings, municipality, assistant, CI, pages, observability | rows, or none | single-row changes, look-ups, texts | - | - |

How they interact: the intake inserts jobs into the table the workers claim
from, in one process and one SQLite file, next to one-shot commands in other
processes; a registration writes the file this process reads at its start. In
the backend, requests meet only in PostgreSQL, through row locks, one advisory
lock and unique keys. Quotes award projects; time sheets read a project's
release and lock its row; the hand-off reads quotes and writes the drafts that
the estimator saves; the invoices of a chat make projects; an activation makes
an account and an employee, which the e-mail migration rewrites. QuickBooks and
Google Calendar meet their provider's token service.

## 2. Modules and their correspondence to the code

| Module | Models |
| --- | --- |
| `JobTable` | the `jobs` and `events` tables and the inserts, shared by both sides of the agent platform |
| `JobLifecycle` | the abstract promise: submitted once, claimed once, one outcome |
| `AgentWorkers` | worker threads and one-shot commands on the job store; implements `JobLifecycle` |
| `AgentIntake` | GitHub issues, the pollers, the intake tables |
| `AgentPlatform` | both in one process, with its death and restart |
| `ProjectRegistry` | registrations, the registry file, the service that loads it |
| `Accounts`, `EmployeeOnboarding` | accounts with sessions and throttles; onboarding records, links and hiring |
| `Projects`, `CustomerQuotes` | the project register with launch and closeout; quotes, which EXTENDS it and awards its projects |
| `DailyTimesheets` | the time sheets of one job, as concurrent transactions |
| `FieldRecords`, `OperatorFleet` | the other records of the field; vehicles, equipment and operators' entries |
| `Receipts`, `CustomerInvoices`, `ProjectLedger` | receipts; invoices of three origins; budgets, plan and costs of a project |
| `RFQPackages`, `QuoteHandoff` | one RFQ package; supplier quotes handed to an estimate, and what its lines cost |
| `BackupsInbox`, `HelpInbox` | one photo on its way to a review queue; the groups of reports |
| `WorkflowDrafts` | drafts on the server, tabs, browsers' buffers, and the network between |
| `MediaLibrary` | documents, their files, the versions and links of one photo |
| `QuickBooksConnection`, `GoogleCalendar` | the connection row, concurrent requests, and the provider |
| `StagingImports` | how Drive folders become tender groups, and the four imports that use them |
| `EmailDomain`, `ProductionImports` | the migration of addresses; the two scripts that import over HTTP |
| `StagingPilots` | the six pilots of one job in staging, and the handlers they call |
| `OfficePromises` | what the accounts, the inboxes and the drafts promise together |
| `AgentPlatformProofs` | theorems about `AgentWorkers`, `AgentIntake` and `AgentPlatform` |
| `AwardProofs` | theorems about `Projects` and `CustomerQuotes` |
| `DailyTimesheetsProofs` | theorems about `DailyTimesheets` |
| `ConnectionProofs` | theorems about `QuickBooksConnection`, `GoogleCalendar` and `MediaLibrary` |
| `OfficeProofs` | theorems about `Accounts`, `BackupsInbox`, `HelpInbox`, `WorkflowDrafts` |
| `CrewProofs` | theorems about `OperatorFleet`, `Receipts`, `EmployeeOnboarding`, `FieldRecords` |
| `TradeProofs` | theorems about `RFQPackages`, `QuoteHandoff`, `CustomerInvoices`, `ProjectLedger` |
| `ImportProofs` | theorems about `EmailDomain`, `ProductionImports`, `ProjectRegistry`, `StagingPilots` |
| `MC...` | definitions that instantiate these for TLC |

**A request of the backend.** Handlers read rows without a lock unless they say
`with_for_update`, decide, and write when they flush. Such a request is two
actions in every module: `Begin...` keeps what was read, with its new values,
and `Commit...` writes the columns that the handler has assigned (SQLAlchemy
writes the columns that differ from what was loaded, a JSON column as a whole).
A handler that locks first is one action. Where a property cannot hold under
such a race, and the code makes no attempt at it, a history variable (`stale`,
`raced`, `overtaken`, ...) records that a commit was based on a read that had
gone out of date; the property is then stated for the other executions,
and the parts of it that the code does protect (by a lock, a version, a
unique key) are stated without that condition. Section 6 lists what the
races do.

**AgentWorkers.** `pc[w]` is where a thread is in `_worker_loop`, `run_once`
and `finish`; `cur`, `verdict` and `handling` are its local variables. The
store opens SQLite with `isolation_level=None`, so each statement outside
`BEGIN IMMEDIATE` commits by itself and is one action: claiming is one action
(a transaction), its heartbeat the next one, and `finish` is three. An
exception inside `run_once`'s try block leads to `finish` with a failure
(`Raise`), one outside of it, or in the handler, ends the thread (`Unwind`).
`StatementFails` covers every statement, `PreflightHangs` the `TimeoutExpired`
that `_worker_loop` does not catch, `RestartService` and `KillCommand` the death
of a process, which releases its flock and its locals and keeps the tables.
`InitializeStore` is what a start does to the tables. What Codex
did is an element of `Outcomes`, a set of `Facts` that
`_validate_codex_outcome` examines.

**AgentIntake.** `issues` is GitHub (revision, label, form). `Listing` is the set
of issues that a listing shows, `NewestFirst` their sequence; `batch` is what a
poller has left of it, with the text the listing had. `RecordIssue` is
the one transaction of `record_issue_intake`. `PollFails` is anything that
raises in `poll_once`, including the statement in its except clause. `approved`
is a history variable. `AgentPlatform` conjoins each side's actions with
UNCHANGED for the other and kills both sides together.

**DailyTimesheets.** `req[r]` is a request that has its first lock and waits
for the next or holds all; a request with one lock is one action. `rowLock`,
`dayLock` and `projectLock` are PostgreSQL's locks; `Holder` says whom a request
waits for, and `DeadlockVictim` aborts a request of a cycle. The lines of a sheet
are the set of resources it uses: an employee in an interval, or a machine.
`copy[r]` is what `save_draft` read between its two commits. `Patient` says that
clients wait for a save's answer before they use its sheet: the web client
does, the API does not ask for it.

**QuickBooksConnection.** `req[r].loaded` is the ORM object. A flush writes the
columns that differ from what was loaded (`Flush`), whatever the row holds by
then; this is the reason why the order of unlocked
requests matters. Only `_locked_connection` locks when it reads; every write
waits for the lock. `grants` is Intuit: the newest token number of each
authorisation, and whether it lives. A rotated token invalidates the one before
(Intuit allows a period of grace, which is not assumed). Tokens carry the number of the
key they are encrypted with. `admins` distinguishes one administrator, who
waits for each answer, from several.

**GoogleCalendar.** As QuickBooks, without a lock; `live` is Google's valid
grants, a token is named by its grant, and any call may fail after Google has
done its part (`MaxLosses`).

**Projects and CustomerQuotes.** A row holds stage, job number, workspace,
launch metadata; `update[s]` is a generic update with the metadata it read.
Numbers are drawn as the code does (the highest taken plus one) before the
insert, so an award is two steps and its loser starts again. `CustomerQuotes`
adds the quotes, what a manager has on screen (`view`) and the acceptance,
whose transaction contains the award.

**WorkflowDrafts.** `page[t]` is the hook: payload, baseline, revision, chain of
saves, timer, call in flight. A call may be served after its page is gone
(`strays`), and its answer may be lost. Payloads are the numbers of edits, so
that `edits` can tell which payload was made from which.

**QuoteHandoff.** A line has a code, a crew, a machine, a direct cost and the
quotes of its vendors. Saving, selecting and pricing are operators of the saved
quotes and of a line: the last revision of each supplier, the quote that the rules
or a manager select, the crew and machine that a standard activity supplies,
an all-in rate that already pays the operator, the vendor's quote that counts.
A hand-off reads the quotes and the latest draft (`BeginHandoff`) and stores the
merged lines with costs calculated anew; an estimator saves the draft that he
opened, with lines of his own. `base` is the draft that a hand-off merged into.

**StagingImports.** A folder is a name and files, `Plan` the grouping
by reference and name; the store is the tables with ids. An import reads
everything (`BeginImport`) and commits or rolls back; the office edits between.
The manifest is refreshed from `Manifests`.

**ProductionImports.** `script` walks through the bundle request by request;
each request is of a run (`attempt`) and carries what the script has found by then.
When a run dies, its last request may still be served (`late`), also after
the next run has begun (`overtaken`). The mark is the
key that the script writes into the quote's notes and looks for.

**StagingPilots.** `os` is the server's tables as far as they concern the job,
and each handler an operator from tables to tables. `Programs[p]` is what pilot
`p` does in order, `runOf[p]` where its run is and what it has read. Each GET is
a step, each POST one too, but for the import of a budget, which reads first and
writes back the plan and the launch as whole columns if it has changed them. A dead run leaves its last request (`unanswered`).
`Reported` is what a pilot's report says of the job.

**ProjectRegistry.** `registering[r]` is where a run of the wrapper is; the
registry is a sequence, and `Loads` is what `load_settings` refuses.

**OperatorFleet.** What an operator may use is in five tables (employee, the unit's
assignment and status, orientation, qualification), which a request reads one
after the other before it inserts its entry (`entry[e].at`), so that any of them
may change behind it. An update of a unit is two actions, which check that the
assigned operator is an active employee before they commit; the status of an
employee is set when he is entered and stays. `due` is what the odometer should show.

**EmailDomain, HelpInbox, MediaLibrary and the rest** follow
the scheme of a request; each variable's comment names its table. In
`HelpInbox` a transaction holds the key it has inserted (`holder`), and others
wait for it, as in PostgreSQL.

## 3. Runs

| Run | Instance | Shows |
| --- | --- | --- |
| `workers_mishaps` | one thread and a command, two jobs; one failing statement or one kill, anywhere | exclusive claims and ownership (`ExclusiveOwnership`), the dashboard, the checkout lock, final outcomes, the refinement of `JobLifecycle`; and, before the mishap, no running job abandoned and the audit trail in agreement with the job |
| `workers_fair` | two threads, a command, one job, one hanging preflight, fairness | every queued job gets an outcome, a success only if verified |
| `intake_pollers` | daemon and command, two repositories of which the first is unreadable, listing shorter than the issues, one edit, one failing call, fairness | recorded once, with its job, only approved; every listed issue in the end |
| `platform_restarts` | poller and worker in one process, one issue, one edit, one kill, fairness | what is executed was approved; nothing is forgotten |
| `timesheets_booking` | two requests, three sheets, two days with one interval, deadlocks and crashes | no double booking, no day paid twice, exact posts, immutability |
| `timesheets_fair` | two requests, two sheets, one day with two intervals, an entry by hand, fairness | every request ends and gives its locks back |
| `award` | two projects, two quotes, two sessions of which one is a manager's | the register and the quotes, with races for numbers, launches and acceptances |
| `office` | accounts, onboarding, field records, fleet, receipts, photo and help inbox, drafts: two actors each | what each component's row in section 1 asks for, and that nothing final reopens |
| `trade` | RFQ package, hand-off, invoices, ledger: two requests each | repeated and racing imports, packages and hand-offs count once |
| `connections` | QuickBooks, Google Calendar, media library: two requests each | tokens, states and evidence under overlapping requests and lost answers |
| `imports` | staging imports and pilots, e-mail migration, production scripts, registry | repeated, overlapping and interrupted commands |
| `timesheets_resave` | a client that uses a sheet before its creation was answered | expected to be violated, see below |

`award`, `office`, `trade`, `connections` and `imports` each check several
components. The components of one such run share no table and no lock in the
model, so a behaviour chooses one `subject` in its first state and the other
components stutter: the state space is the sum of theirs, not the product, and
nothing is lost, since a product of components that share nothing has no other
violations of their properties. Each component has one invariant, a conjunction of the
named parts of its module (`PackageHolds == RFQTypeOK /\ ...`), and the parts
are commented one by one. Components that do share tables are checked
together: intake and workers, quotes and projects, quotes and estimate drafts,
invoices and projects, the tools with the records they import.

`timesheets_resave` is expected to find a violation of a sentence in the code
("submitted sheets are immutable", daily_timesheets.py:504): `save_draft` commits
a new sheet twice, and the second commit writes back lines that were replaced
and submitted meanwhile by a client that used the sheet before its
creation was answered.

Bounds. Two of everything that can conflict (workers, jobs, requests, sheets,
callbacks, grants, tabs, registrations) is the least that shows an
interleaving; a third waits for one of the two. `MaxFaults`, `MaxRestarts`,
`MaxHangs`, `MaxFailures`, `MaxLosses` bound mishaps to one: the handlers in the
code distinguish the first failure from one in its handler, and the proofs cover any
number for the workers. `MCOneMishap` keeps a run to one mishap of either sort.
A request on a time sheet may crash any number of times. Two days let a sheet move,
two intervals let two sheets of a day be compatible. `MaxRotations = 2`
lets a stale token be two versions old; `MaxKeys = 2` is one change of key.
`MaxFailed = 2` failed logins lock, so that one increment may be lost;
`MaxRuns = 3` imports are a first run, a repetition, and one that overlaps them;
the eight files and seven names of the Drive are the cases that the grouping distinguishes
(a shared reference, a name contained in another, an alias, a duplicate file).
`MaxAttempts = 3` runs of the production script are a run that dies, one
that meets its late request, and one that finds everything. `MaxActive = 2` pilots
and `MaxWrites = 1` write of the office: of a second pilot, a late request and
the office, one meets a pilot at a time (`PilotsSmall`); `MaxMade = 2` is one
budget entry and one safety shell. `MaxVersions = 3`,
`MaxDrafts = 2`, `MaxEdits = 2`, `MaxReports = 3`, `MaxRegistrations = 3` let an
item be replaced after it was replaced. `MCSmall` names, for each subject, the
bound on what it would count for ever (versions, ids, logs). The tabs of `office` share one browser profile, and so
one recovery buffer, which is where they meet outside of the server; `DraftsSmall` lets
one tab at a time save once a page was opened again, and one close at a time.
The theorems about the drafts have neither bound.
`MCInOrder` (sheets are created in id order) and the symmetry sets only remove
states that differ by names; runs with liveness properties use no symmetry.
`MCPayloads` keeps the lines that overlap and the ones that do not. In
`platform_restarts` there is one issue, which starts as an approved one and is
edited once; several issues and repositories are in `intake_pollers`.
`CHECK_DEADLOCK FALSE` is set where the bounds let a system stop: all jobs done,
all ids used.

Every property of a passing run has a mutant in `PROJECT.json`: a plausible bug
of the code (a dropped guard, a lock not taken, a reset forgotten) under which TLC
finds the property violated. The parts of a conjunction were tried with
mutants of their own while they were written; the one kept is the bug
that a change of the code would introduce most easily.

## 4. Fairness

- Workers: weak fairness on what a live thread does of its own accord (Python
  schedules it, git calls have timeouts, Codex is assumed to end); strong
  fairness on taking the flock, which serves its waiters, and on a preflight
  that succeeds, since an operator repairs what it reports. None on failures,
  kills, commands, or restarts. `QueueDrains` is checked without kills: a job
  whose worker is killed stays running, which the code does not repair.
- Intake: weak fairness on each daemon's step (it polls again after every
  interval); none on commands, edits, failures. Once its thread has
  died nothing is promised, and `IntakeCatchesUp` says so.
- Platform: as its parts; the poller is scheduled while the process lives.
- Time sheets: strong fairness on each request's next step, since PostgreSQL
  queues waiters, aborts a transaction of a deadlock, and the server works on
  every request it accepted. Nothing makes a request begin.
- Elsewhere no liveness is stated: a request of the backend ends or its
  client tries again, and nothing there waits for another. Safety is checked with
  requests that never end, which stand for those that crash.

## 5. What is proved

The theorems hold for every value of the constants under the named assumptions of the
modules (that NULL is no job and 0 no receipt, that bounds are naturals, that quotes and
suppliers are finitely many, that no repository is called "none" and no
address stands for "nobody"): any
sets of jobs, workers, requests, sheets, accounts, receipts or tabs, any number
of failures, kills, lost calls and edits. `PROJECT.json` lists them. A proof
module has, per component, an inductive invariant, lemmas about the
operators, a lemma per action or group of actions, and the theorems. Two theorems have
a hypothesis of their own: `Patient` (clients wait for a save's answer before they use its
sheet) for the time sheets, without which the run `timesheets_resave` shows the
contrary, and `NoCommands` (no one-shot command queues jobs) for
`OnlyApprovedExecuted`, as `enqueue` is there to queue jobs of no issue. Where a
property has a history condition (section 2), so has its theorem.

Why each invariant is needed, and what carries it:

- **Workers** (`WorkersInv`). *Ownership* (the job a worker executes names that
  worker) survives a claim only because a claimed row was queued, and gives
  *exclusion*, as a row names one worker; `ExclusiveOwnership` is both. That an outcome is written once rests on
  ownership and on the guard of the UPDATE. *VerifiedSuccess* needs what `run_once`
  has established at each line (`RunEstablishes`) and that the handler only records
  failures (`HandlerOnlyFails`); *CheckoutLocked* needs `GitUnderLock`.
  `Refinement` maps each step to a submit, a claim, a completion or a stutter, and
  needs that a row not yet drawn has no owner. `RecordsTruth` adds that the audit trail agrees with
  the job, until a statement fails or a worker is killed.
- **Intake and platform** (`IntakeInv`, `PlatformInv`). What a listing shows, and what
  a poller has left of it, was approved when it was listed; a row on record refers
  to a job that is no other row's. The two sides share the tables of jobs and events: `PlatformInv`
  is both invariants, and each side's actions are shown to keep the other's.
- **Time sheets** (`TimesheetsInv`). A request past its first lock holds the lock of its
  sheet's row, past its scan that of the day, and a post that of the project (`LocksHeld`).
  Hence what it was allowed to do it may still do (`GuardsKept`), and what its scan found
  is so until it commits (`CommitsClear`, `PostsUnpaid`), which gives that nothing is booked or
  paid twice. `SavesUndisturbed` is where `Patient` is needed.
- **QuickBooks** (`TokensInv`, `OneAdminInv`). Who presents a token holds the row's lock
  and has read the row as it is (`HoldersSeeTheRow`); a new grant's token is nobody
  else's until it is saved (`FreshTokens`); so the token on record is the newest of its
  grant although columns are written selectively. Each grant is paid for by a used state
  (`StatesPayForGrants`, an inequality of cardinalities). `OneAdminInv` follows one
  administrator who waits for each answer.
- **Google Calendar** (`CalendarInv`). There is no lock; until requests overlap, what each
  request holds is what is on record (`StateOK`), and what it is about to clear is no
  longer honoured by Google.
- **Projects** (`RegisterInv`). A request writes a row it has read long before, yet what it
  read was only added to: a number or a workspace once there stays (`WriteOK`), which is why
  a stale write cannot take one away. With the unique index no two projects have one number; a
  completing request's closeout is still ready unless a control was reopened beside it.
- **Customer quotes** (`QuotesInv`, with `RegisterInv`, as the two share the projects). A screen
  shows what its revision says (`ScreensOK`); an acceptance under way holds the lock of an open
  quote as its client saw it (`AwardingOK`), and its number is the project's own or the
  project had none. The numbers of the quotes are 1 to their count (`NumbersUsed`, by cardinality),
  so the number a request drew is the next one, or its insert fails.
- **Media library** (`LibraryInv`). Until an edit is committed over reads that were out of date,
  what each edit under way has read is on record (`EditOK`): the parent and the columns of
  a version to come, the project of a link, and that a file to be replaced is not evidence.
  Who commits makes the others' reads out of date, and the order of the versions
  survives even so, as a number is used once.
- **Accounts** (`AccountsInv`). Versions only grow and no session is ahead of its account, so a
  session of the present version was opened with the present password. A throttle row is
  held by one login (`OneHoldsKey`), which has read it as it is. Who removes an administrator has counted
  another, who is one still unless two crossed.
- **Inboxes** (`InboxInv`, `HelpInv`). Until a retry slips in, a run of the controller has
  its intake to itself and as it read it. The time of a report under way is taken
  by no other, which makes the count that of the evidence.
- **Drafts** (`DraftsInv`). Whoever knows a draft's revision, be it a page, a save in its
  chain, a call, an answer or a request served late, has seen what the draft says (`Sees`). With the lineage
  of the edits (`LineageOK`), no save replaces what it was not made from; that the last save
  of a chain is the form (`TailOK`) makes "saved" true.
- **Fleet** (`FleetInv`). What an operator's request found at each of its reads is still so
  as long as nobody changed anything of his; the odometer's history follows the updates.
- **Receipts** (`ReceiptsInv`). Versions only grow, so the version on a screen says one thing;
  a command keeps approvals and postings as they were (`EditOK`). Of two receipts of one
  image the later one knows of the other, or a command is about to say so (`TwinsNoticed`).
- **Onboarding** (`OnboardingInv`). A link belongs to one record and a new one is fresh;
  a packet is never lost; what a handler may write is fixed by what it read (`Plan`), and what has
  become of the record since is bounded (`Pending`), which gives one hire for an address
  although the handler does not lock.
- **Field records** (`FieldInv`). The status of an incident fixes the length of its log,
  so that two overlapping moves cannot both be answered; the kind of a row
  never changes, and each request's new row is planned from the one it read.
- **RFQs** (`RFQInv`). A drafted plan depends on what its manifest names and on nothing
  else (`SourceDrafts`), so one whose fingerprint is today's is today's. Until one request has
  written over another one's work (`raced`), the responses in the index are the acknowledged
  ones and a recipient's status is where its supplier has got to.
- **Hand-off** (`HandoffInv`). A draft of a hand-off was merged from the draft it names
  (`MergedFrom`), so it prices the line of the selected quote, once, and leaves the
  estimator's lines. Unless two hand-offs overlap, the drafts after the one that was read
  are the estimator's (`OneAtATime`), so that a hand-off that changes nothing is not
  stored again (`StoredOnce`).
- **Invoices** (`InvoicesInv`). What a client is about to insert is a whole draft, and who is about
  to write a status has read one that was neither paid nor void (`ClientsRead`); the unique keys do
  the rest. A row is not paid without having been issued, whoever wrote over whom, since
  that an invoice was issued is never taken back (`StatusRead`).
- **Ledger** (`LedgerInv`). What an import is about to post is what its new baseline says of the
  entries it has read, and entries are never removed (`ImportRead`), so budget and
  baseline agree after an import that nothing overlapped, and a plan that it read with a decision
  is written back as it was.
- **E-mail domain** (`EmailInv`). A form, a session and the command hold the account and not its
  address, so who is meant does not change with the domain; a run that nobody has
  crossed has met every row that it moves.
- **Production imports** (`BundleInv`). What a run knows is promised under three conditions
  of decreasing strength: to a run that is let alone (what it has verified is so: `VerifiedInRun`),
  to runs that no late request has overtaken (nothing is asked for that exists: `AskedOnce`), and
  to records that only the scripts have written (they are as made: `Untouched`).
- **Registry** (`RegistryInv`). Until a file was replaced that had changed (`displaced`), what
  a registration is about to write is the file with its project added (`GrowsWith`), so
  that the file loads and nothing acknowledged is lost; checkouts and
  labels precede the entry, whatever the file says.
- **Staging pilots** (`PilotsInv`). Each handler only advances the job, so what a pilot
  that was let alone has seen it would see again (`Knows`, one clause per pilot and step of its
  program), which makes its report true and a rerun pass. The job as pilots leave it by
  themselves (`SoundJob`, including what an import has read: `SoundRead`) is what a rerun
  can start from, however many runs died. A quote is the approved one in the revision that the
  pilot verified (`SeenRight`), which is the one that the server's check lets it accept.

Action properties proved are `OutcomeIsFinal` (workers), `SubmittedImmutable`,
`OnlyCallbackConnects` (Calendar), `NothingReopens` and `NumberPermanent` (for the requests on
projects alone, and beside the quotes); the refinement of `JobLifecycle` is
proved too. `TypeCorrectness`, `TimesheetsTyped` and the theorems named `...Invariant` state
what the others rest on.

Only model-checked:

- liveness (`QueueDrains`, `IntakeCatchesUp`, `PlatformCatchesUp`, `RequestsEnd`), since fairness
  and ENABLED are out of the provers' reach;
- `ImportsHold`: an import folds the groups of a manifest, and the files of each group, into the
  store. That every group is there once and whole after it, and that a repetition finds nothing to do,
  are statements about what these folds return for manifests of any length: induction over
  data, which the installed provers cannot do.

The choice among quotes in `Selection` is proved to be of an eligible quote; it is compared
with nothing else, as the rules are its definition.

No module declares a RECURSIVE operator.

## 6. What the races do

The properties with a history condition are weaker than a reader might expect.
These are the executions that the conditions leave out, and others that the models
show and no property forbids, each with the sentence of the documents that comes
nearest to it.

- Agent platform: `smoke` claims the oldest queued job, whatever it is
  (docs/agent-platform.md:54 calls it read-only). A heartbeat that fails after a
  claim leaves a job running with nobody on it; a statement that fails in the
  poller's except clause ends its thread.
- Registry: overlapping registrations can drop a project or leave a file that
  does not load. A registration killed while cloning leaves
  `.<name>.registering`, which refuses every retry; the cleanup of a losing
  clone removes the winner's staging directory.
- Projects: a generic update can put back launch metadata that it read before
  (docs/awarded-project-workspaces.md:16). A closed quote cannot be revised
  (docs/guided-mvp-workflow.md:32 says it is).
- Field records: an edit keeps signatures; a permit's history may lose
  entries. Two overlapping logs can leave the odometer below a reading. Operator
  access is read in several statements, so an entry may be accepted on a
  combination that never held at once.
- Drafts: a page opened with `?draft=` overwrites the recovery buffer
  (useWorkflowDraft.ts:109, docs/durable-workflow-drafts.md:5); an answer lost
  at the creation leaves a duplicate.
- Inboxes: a crash leaves a photo in processing. An older report that waits
  for its group's row sets `last_seen_at` back; two overlapping reviews of a group
  mix status, note and reviewer.
- RFQs: concurrent selections may make a recipient twice, and a response can
  be dropped from the index; `required` is not part of the fingerprint. Two
  overlapping hand-offs may store one draft twice.
- Media: a metadata edit of a drawing may replace the file of photo evidence
  (documents.py:304, against :213); an edit that races a replacement puts the old file
  back; versions that clash leave a document without an owner.
- QuickBooks and Calendar: a callback that completes between the read and the write
  of a disconnect is undone or survives it
  (docs/quickbooks-sandbox-oauth.md:67); in Google's case a new token may be
  dropped unrevoked, or kept under the status "disconnected".
- Staging imports: a refreshed manifest that splits or renames a group makes a
  second project at the next run (docs/operations/drive-tender-import.md:17, :42).
  The Fernie and fuel imports put an awarded project back to an earlier stage and a
  sent bid to a draft. The imports take different lock files, so they may overlap.
- E-mail migration: a restart between deployment and migration makes a second
  administrator at the new address, which blocks the migration
  (docs/operations/email-domain-migration.md:10, docker-compose.production.yml:73). A hire between its
  SELECTs leaves an employee without the account's address.
- Staging pilots: a budget import that a decision on the plan or the launch falls into
  writes both back as it read them (finance.py:152, :184), as `raced` records.
- Production import: the mark is in the notes, which a decline with a note
  replaces (customer_quotes.py:545), and the next run makes the quote again
  (docs/production-business-record-import.md calls repeated runs idempotent).

## 7. What is not modelled, and why

- The text of tasks, prompts, issues and reports, secret detection, formatting,
  PDFs, CSV, paths, markups and totals, validation of single fields: no state is shared.
- Permissions (foreman, management, administrator): each handler's first lines refuse
  the request and change nothing; the actors here are the ones allowed.
- A job's release for posting is a free choice in `DailyTimesheets`
  (`PostingBlocked`), as is an access token's expiry in the connections; `Projects`
  models the release itself.
- Wall-clock time: expiry of a state, a link or a lock, timeouts and intervals
  are choices.
- QuickBooks credentials from the server environment; the saved ones are the
  only source here. Last errors, company names, audit rows.
- One project's checkout, one job's sheets, one RFQ package, one photo: different
  ones share no lock. Two threads on two projects do less than two threads on one.
- Company cards and statements, certifications, suppliers, tenders,
  meetings, municipality pages: single rows without a protocol.
- `create_employee` with its account, made in two commits: a crash between them
  leaves an employee without an account, and the retry is refused.
- The pilots' sign-in, requirements one by one (the plan has four or none), purchase
  orders, and `tools/staging_onboarding.py`, which asks its questions interactively.
- Drawing intelligence, the assistant, takeoff and workbook arithmetic (an estimate's
  lines and their costs are modelled, their quantities are not), the
  read-only overviews, exports and previews: functions of rows.
- Deployment, cutover and backup scripts, CI and the pages of the frontend, with their reasons
  in `PROJECT.json`.

## 8. Plan

Modelled: the agent platform with its registry, and the components of the
backend in which requests interact. Proved: section 5. What is left, by importance:

1. `Cutover`: maintenance mode, its trap, the deployment and backup locks, as a module
   with a run of its own.
2. `ImportsHold` with the loops over a manifest as steps of an import instead of folds, which
   would put it within reach of an inductive invariant.
3. Card statements and certifications, if they come to share rows with other requests.

Runs stay at two actors with one mishap, and components that share no state
share a run.
