-------------------------- MODULE DailyTimesheets --------------------------
(***************************************************************************)
(* The foreman's daily time sheets of one job                              *)
(* (backend/app/services/daily_timesheets.py): drafts, submission, office  *)
(* decisions, revisions, export, and the posting of time entries, as       *)
(* concurrent requests on PostgreSQL at READ COMMITTED.                    *)
(*                                                                         *)
(* A request is a transaction.  One that takes a single row lock and       *)
(* commits is one action; submit, approve, post and the revisions take     *)
(* further locks while they hold the sheet's, and have an action for each. *)
(* A request that waits for its first lock holds nothing and is idle here. *)
(***************************************************************************)
EXTENDS Naturals, FiniteSets

CONSTANTS
  Requests,     \* the concurrent requests
  Sheets,       \* sheet ids, in the order the scan locks their rows
  Days,         \* work dates
  Employees,
  Slots,        \* the intervals of a day that labour is entered for
  Machines,     \* owned and rented equipment
  Payloads,     \* the lines a foreman may enter: sets of resources
  None,         \* SQL NULL
  Patient,      \* clients wait for a save's answer before they use its sheet
  MaxEntries    \* time entries made by hand

Labour == Employees \X Slots
Resources == Labour \cup Machines

ASSUME TimesheetsAssumption ==
  /\ Sheets \subseteq Nat \ {0}
  /\ None \notin Sheets \cup Requests
  /\ Days # {} /\ IsFiniteSet(Slots)
  /\ Payloads \subseteq SUBSET Resources
  /\ Patient \in BOOLEAN

VARIABLES
  sheets,       \* field_records of type daily_timesheet
  entries,      \* time_entries: how many rows per employee, day and origin
  req,          \* each request: its operation, its sheet, where it is
  copy,         \* the details it read after its first commit
  rowLock, dayLock, projectLock

locks == <<rowLock, dayLock, projectLock>>
timesheetVars == <<sheets, entries, req, copy, locks>>

(***************************************************************************)
(* status and day are columns; the others are members of the JSON column   *)
(* `details`, which is read and written as a whole.                        *)
(***************************************************************************)
ActiveStatuses == {"needs_review", "approved", "exported"}
SheetStatuses == {"absent", "draft", "rejected", "void"} \cup ActiveStatuses

Details == [uses: SUBSET Resources, version: Nat, root: Sheets \cup {None},
            posted: BOOLEAN]

NoDetails == [uses |-> {}, version |-> 1, root |-> None, posted |-> FALSE]

NoSheet == [status |-> "absent", day |-> CHOOSE d \in Days : TRUE, details |-> NoDetails]

\* Time entries come from a sheet's post or from create_time_entry.
Manual == 0
Origins == Sheets \cup {Manual}

Operations == {"save", "submit", "approve", "post", "revise", "reopen"}
Steps == {"idle", "project", "day", "scan", "commit", "insert", "refresh",
          "setRoot"}

Idle == [op |-> "save", sheet |-> None, at |-> "idle"]

TimesheetsTypeOK ==
  /\ sheets \in [Sheets -> [status: SheetStatuses, day: Days, details: Details]]
  /\ entries \in [Employees \X Days -> [Origins -> Nat]]
  /\ req \in [Requests -> [op: Operations, sheet: Sheets \cup {None}, at: Steps]]
  /\ copy \in [Requests -> Details]
  /\ rowLock \in [Sheets -> Requests \cup {None}]
  /\ dayLock \in [Days -> Requests \cup {None}]
  /\ projectLock \in Requests \cup {None}

TimesheetsInit ==
  /\ sheets = [s \in Sheets |-> NoSheet]
  /\ entries = [x \in Employees \X Days |-> [o \in Origins |-> 0]]
  /\ req = [r \in Requests |-> Idle]
  /\ copy = [r \in Requests |-> NoDetails]
  /\ rowLock = [s \in Sheets |-> None]
  /\ dayLock = [d \in Days |-> None]
  /\ projectLock = None

-----------------------------------------------------------------------------
(* Transactions.                                                           *)

\* Mutant of EndTransaction: the session is not closed after an error.
EndWithoutRollback(r) ==
  /\ req' = [req EXCEPT ![r] = Idle]
  /\ copy' = [copy EXCEPT ![r] = NoDetails]
  /\ rowLock' = [s \in Sheets |-> IF rowLock[s] = r THEN None ELSE rowLock[s]]
  /\ dayLock' = dayLock
  /\ projectLock' = IF projectLock = r THEN None ELSE projectLock

\* Commit or rollback: the session gives back every lock it holds.
EndTransaction(r) ==
  /\ req' = [req EXCEPT ![r] = Idle]
  /\ copy' = [copy EXCEPT ![r] = NoDetails]
  /\ rowLock' = [s \in Sheets |-> IF rowLock[s] = r THEN None ELSE rowLock[s]]
  /\ dayLock' = [d \in Days |-> IF dayLock[d] = r THEN None ELSE dayLock[d]]
  /\ projectLock' = IF projectLock = r THEN None ELSE projectLock

Free(s) == rowLock[s] = None

\* A foreign key to the job takes KEY SHARE on its row, which FOR UPDATE blocks.
JobRowFree == projectLock = None

\* No request is between the two commits of save_draft on the sheet, or the
\* client does not mind.
Quiet(s) ==
  Patient => \A q \in Requests : req[q].sheet = s => req[q].at \notin {"refresh", "setRoot"}

\* Ids are left for the revisions under way and one more sheet.
IdsLeft ==
  Cardinality({s \in Sheets : sheets[s].status = "absent"})
    > Cardinality({q \in Requests : req[q].at = "insert"})

Goto(r, from, to) ==
  /\ req[r].at = from
  /\ req' = [req EXCEPT ![r].at = to]

-----------------------------------------------------------------------------
(* save_draft: a first commit and, while the sheet has no root, a second.  *)

CreateDraft(r, s, uses, day) ==
  /\ req[r].at = "idle" /\ JobRowFree
  /\ sheets[s].status = "absent" /\ IdsLeft
  /\ sheets' = [sheets EXCEPT ![s] = [status |-> "draft", day |-> day,
                                      details |-> [NoDetails EXCEPT !.uses = uses]]]
  /\ req' = [req EXCEPT ![r] = [op |-> "save", sheet |-> s, at |-> "refresh"]]
  /\ UNCHANGED <<entries, copy, locks>>

\* Mutant of Editable: the status is not looked at.
EditableAlways(s) == sheets[s].status # "absent"

Editable(s) == sheets[s].status = "draft"

EditDraft(r, s, uses, day) ==
  /\ req[r].at = "idle" /\ Free(s) /\ Quiet(s)
  /\ Editable(s)
  /\ sheets' = [sheets EXCEPT ![s].day = day, ![s].details.uses = uses,
                              ![s].details.posted = FALSE]
  /\ req' = [req EXCEPT ![r] = [op |-> "save", sheet |-> s, at |-> "refresh"]]
  /\ UNCHANGED <<entries, copy, locks>>

\* db.refresh, and the test for a root.
Refresh(r) ==
  LET details == sheets[req[r].sheet].details IN
  /\ req[r].at = "refresh"
  /\ IF details.root = None
     THEN /\ req' = [req EXCEPT ![r].at = "setRoot"]
          /\ copy' = [copy EXCEPT ![r] = details]
     ELSE /\ req' = [req EXCEPT ![r] = Idle]
          /\ UNCHANGED copy
  /\ UNCHANGED <<sheets, entries, locks>>

\* The second commit writes the details read before, with the root.
SetRoot(r) ==
  LET s == req[r].sheet IN
  /\ req[r].at = "setRoot" /\ Free(s)
  /\ sheets' = [sheets EXCEPT ![s].details = [copy[r] EXCEPT !.root = s]]
  /\ req' = [req EXCEPT ![r] = Idle]
  /\ copy' = [copy EXCEPT ![r] = NoDetails]
  /\ UNCHANGED <<entries, locks>>

-----------------------------------------------------------------------------
(* Requests with several locks.                                            *)

Allowed(op, sheet) ==
  CASE op = "submit"  -> sheet.status = "draft" /\ sheet.details.uses \cap Labour # {}
    [] op = "approve" -> sheet.status = "needs_review"
    [] op = "post"    -> sheet.status \in {"approved", "exported"} /\ ~sheet.details.posted
    [] op = "revise"  -> sheet.status # "draft" /\ ~sheet.details.posted
    [] op = "reopen"  -> sheet.status \in {"rejected", "approved"} /\ ~sheet.details.posted

FirstStep(op) ==
  CASE op = "post"                -> "project"
    [] op \in {"submit", "approve"} -> "day"
    [] op \in {"revise", "reopen"}  -> "insert"

\* _get(for_update=True) and the guards; a request they refuse changes nothing.
LockSheet(r, op, s) ==
  /\ req[r].at = "idle" /\ Free(s) /\ Quiet(s)
  /\ sheets[s].status # "absent" /\ Allowed(op, sheets[s])
  /\ op \in {"revise", "reopen"} => IdsLeft
  /\ rowLock' = [rowLock EXCEPT ![s] = r]
  /\ req' = [req EXCEPT ![r] = [op |-> op, sheet |-> s, at |-> FirstStep(op)]]
  /\ UNCHANGED <<sheets, entries, copy, dayLock, projectLock>>

\* post_time_entries: SELECT ... FROM projects FOR UPDATE.
LockProject(r) ==
  /\ JobRowFree
  /\ Goto(r, "project", "day")
  /\ projectLock' = r
  /\ UNCHANGED <<sheets, entries, copy, rowLock, dayLock>>

\* require_posting_ready finds the job not released.
PostingBlocked(r) ==
  /\ req[r].op = "post" /\ req[r].at = "day"
  /\ EndTransaction(r)
  /\ UNCHANGED <<sheets, entries>>

\* Mutant of LockDay: no advisory lock, as on a database other than PostgreSQL.
LockNoDay(r) ==
  /\ Goto(r, "day", "scan")
  /\ UNCHANGED <<sheets, entries, copy, locks>>

LockDay(r) ==
  LET day == sheets[req[r].sheet].day IN
  /\ Goto(r, "day", "scan")
  /\ dayLock[day] = None
  /\ dayLock' = [dayLock EXCEPT ![day] = r]
  /\ UNCHANGED <<sheets, entries, copy, rowLock, projectLock>>

\* The rows _ensure_no_cross_record_conflicts selects FOR UPDATE.
Others(s) == {o \in Sheets \ {s} : sheets[o].status \in ActiveStatuses
                                     /\ sheets[o].day = sheets[s].day}

Unlocked(r) == {o \in Others(req[r].sheet) : rowLock[o] # r}

\* The row whose lock the scan needs next.
NextRow(r) == CHOOSE o \in Unlocked(r) : \A x \in Unlocked(r) : o <= x

ScanRow(r) ==
  /\ req[r].at = "scan" /\ Unlocked(r) # {}
  /\ Free(NextRow(r))
  /\ rowLock' = [rowLock EXCEPT ![NextRow(r)] = r]
  /\ UNCHANGED <<sheets, entries, req, copy, dayLock, projectLock>>

Root(s) == IF sheets[s].details.root = None THEN s ELSE sheets[s].details.root

Uses(s) == sheets[s].details.uses

Crew(s) == {e \in Employees : \E x \in Slots : <<e, x>> \in Uses(s)}

\* Mutant of HasEntries: time entries on record are not looked at.
HasNoEntries(s) == FALSE

HasEntries(s) ==
  \E e \in Crew(s) : \E o \in Origins : entries[<<e, sheets[s].day>>][o] > 0

\* Versions of one sheet (the same root) are not compared with each other.
Conflicts(s) ==
  \/ \E o \in Others(s) : Root(o) # Root(s) /\ Uses(o) \cap Uses(s) # {}
  \/ HasEntries(s)

Scanned(r) == req[r].at = "scan" /\ Unlocked(r) = {}

ConflictFound(r) ==
  /\ Scanned(r) /\ Conflicts(req[r].sheet)
  /\ EndTransaction(r)
  /\ UNCHANGED <<sheets, entries>>

NoConflictFound(r) ==
  /\ Scanned(r) /\ ~Conflicts(req[r].sheet)
  /\ Goto(r, "scan", "commit")
  /\ UNCHANGED <<sheets, entries, copy, locks>>

CommitStatus(r, op, status) ==
  /\ req[r].op = op /\ req[r].at = "commit"
  /\ sheets' = [sheets EXCEPT ![req[r].sheet].status = status]
  /\ EndTransaction(r)
  /\ UNCHANGED entries

CommitSubmit(r) == CommitStatus(r, "submit", "needs_review")

CommitApprove(r) == CommitStatus(r, "approve", "approved")

\* One entry per split of each labour line, and the posting manifest.
CommitPost(r) ==
  LET s == req[r].sheet
      splits(e) == Cardinality({x \in Slots : <<e, x>> \in Uses(s)})
  IN
  /\ req[r].op = "post" /\ req[r].at = "commit"
  /\ entries' = [x \in Employees \X Days |->
                   IF x[2] = sheets[s].day
                   THEN [entries[x] EXCEPT ![s] = @ + splits(x[1])] ELSE entries[x]]
  /\ sheets' = [sheets EXCEPT ![s].details.posted = TRUE]
  /\ EndTransaction(r)

\* _create_revision: the next version, as a draft of its own.
InsertRevision(r, n) ==
  LET source == sheets[req[r].sheet] IN
  /\ req[r].at = "insert" /\ JobRowFree
  /\ sheets[n].status = "absent"
  /\ sheets' = [sheets EXCEPT ![n] = [source EXCEPT !.status = "draft",
                                                    !.details.version = @ + 1]]
  /\ EndTransaction(r)
  /\ UNCHANGED entries

(***************************************************************************)
(* Every lock is exclusive and a request waits for one at a time, so a set *)
(* of requests that is the set of its own holders is a set of cycles.      *)
(***************************************************************************)
Holder(r) ==
  CASE req[r].at \in {"project", "insert"} -> projectLock
    [] req[r].at = "day"  -> dayLock[sheets[req[r].sheet].day]
    [] req[r].at = "scan" /\ Unlocked(r) # {} -> rowLock[NextRow(r)]
    [] req[r].at = "setRoot" -> rowLock[req[r].sheet]
    [] OTHER -> None

Deadlocked(r) == \E W \in SUBSET Requests : r \in W /\ {Holder(q) : q \in W} = W

\* deadlock_timeout: PostgreSQL aborts a transaction of the cycle.
DeadlockVictim(r) ==
  /\ Deadlocked(r)
  /\ EndTransaction(r)
  /\ UNCHANGED <<sheets, entries>>

\* The process dies; PostgreSQL rolls the transaction back.
Crash(r) ==
  /\ req[r].at # "idle"
  /\ EndTransaction(r)
  /\ UNCHANGED <<sheets, entries>>

-----------------------------------------------------------------------------
(* Requests with one lock.                                                 *)

\* decide(reject), decide(void), export_csv.
ChangeStatus(s, from, to) ==
  /\ Free(s) /\ Quiet(s)
  /\ sheets[s].status \in from
  /\ sheets' = [sheets EXCEPT ![s].status = to]
  /\ UNCHANGED <<entries, req, copy, locks>>

Reject(s) == ChangeStatus(s, {"needs_review"}, "rejected")
Void(s) == ChangeStatus(s, {"draft", "needs_review", "approved", "rejected"}, "void")
Export(s) == ChangeStatus(s, {"approved"}, "exported")

Made(e, d) == entries[<<e, d>>][Manual]

\* field_operations.create_time_entry: no conflict check.
CreateTimeEntry(e, d) ==
  /\ JobRowFree
  /\ Made(e, d) < MaxEntries
  /\ entries' = [entries EXCEPT ![<<e, d>>][Manual] = @ + 1]
  /\ UNCHANGED <<sheets, req, copy, locks>>

-----------------------------------------------------------------------------
(* What a request that has begun does next.                                *)
Proceed(r) ==
  \/ Refresh(r) \/ SetRoot(r)
  \/ LockProject(r) \/ PostingBlocked(r) \/ LockDay(r) \/ ScanRow(r)
  \/ ConflictFound(r) \/ NoConflictFound(r)
  \/ CommitSubmit(r) \/ CommitApprove(r) \/ CommitPost(r)
  \/ \E n \in Sheets : InsertRevision(r, n)
  \/ DeadlockVictim(r)

BeginRequest(r) ==
  \E s \in Sheets :
    \/ \E uses \in Payloads, day \in Days : CreateDraft(r, s, uses, day) \/ EditDraft(r, s, uses, day)
    \/ \E op \in Operations \ {"save"} : LockSheet(r, op, s)

TimesheetsNext ==
  \/ \E r \in Requests : BeginRequest(r) \/ Proceed(r) \/ Crash(r)
  \/ \E s \in Sheets : Reject(s) \/ Void(s) \/ Export(s)
  \/ \E e \in Employees, d \in Days : CreateTimeEntry(e, d)

TimesheetsSpec == TimesheetsInit /\ [][TimesheetsNext]_timesheetVars

\* The server works on every request, and the database finds every deadlock.
FairTimesheetsSpec ==
  TimesheetsSpec /\ \A r \in Requests : SF_timesheetVars(Proceed(r))

-----------------------------------------------------------------------------
(* Properties.                                                             *)

Active(s) == sheets[s].status \in ActiveStatuses

\* Two active sheets of a day that are not versions of each other never claim
\* the same employee at the same time or the same machine, in whatever order
\* they are submitted, edited, moved and approved (_lock_project_day).
NoDoubleBooking ==
  \A s, t \in Sheets :
    Active(s) /\ Active(t) /\ sheets[s].day = sheets[t].day /\ Root(s) # Root(t)
      => Uses(s) \cap Uses(t) = {}

\* However requests, versions and manual entries interleave, no employee's
\* day is paid from two sheets (post_time_entries).
PaidFromOneSheet ==
  \A x \in Employees \X Days, s, t \in Sheets :
    entries[x][s] > 0 /\ entries[x][t] > 0 => s = t

\* A sheet's time entries are exactly its labour lines if it was posted, and
\* none if it was not: a retry or a race adds and loses nothing
\* (docs/controlled-field-production-posting.md, Atomic post and retry).
PostedExactly ==
  \A s \in Sheets, e \in Employees, d \in Days :
    entries[<<e, d>>][s] =
      IF sheets[s].details.posted /\ sheets[s].day = d
      THEN Cardinality({x \in Slots : <<e, x>> \in Uses(s)}) ELSE 0

\* A sheet that left the draft state keeps its day, its lines and its version
\* (daily_timesheets.py:504, test_daily_timesheets.py:586).
SubmittedImmutable ==
  [][\A s \in Sheets : sheets[s].status \notin {"absent", "draft"} =>
       /\ sheets'[s].day = sheets[s].day
       /\ sheets'[s].details.uses = sheets[s].details.uses
       /\ sheets'[s].details.version = sheets[s].details.version]_timesheetVars

\* A request that has begun ends, also when it runs into a deadlock, so that
\* no sheet stays locked.
RequestsEnd == \A r \in Requests : req[r].at # "idle" ~> req[r].at = "idle"

\* Posting is exact: a posted sheet has one approved entry for each of its
\* intervals, and no employee's day is paid from two sheets.
PaidOnceExactly == TimesheetsTypeOK /\ PaidFromOneSheet /\ PostedExactly

=============================================================================
