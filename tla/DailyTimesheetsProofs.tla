----------------------- MODULE DailyTimesheetsProofs -----------------------
(***************************************************************************)
(* Theorems about DailyTimesheets, for any number of requests, sheets,     *)
(* days, employees, intervals and machines.                                *)
(***************************************************************************)
EXTENDS DailyTimesheets, FiniteSetTheorems, WellFoundedInduction, TLAPS

-----------------------------------------------------------------------------
(* The inductive invariant.                                                *)

Locking == {"project", "day", "scan", "commit", "insert"}
Checking == {"day", "scan", "commit"}
Saving == {"refresh", "setRoot"}

Target(r) == req[r].sheet

\* A request that is past its first lock is about a sheet, and at a step of its
\* operation.
RequestsPlaced ==
  \A r \in Requests :
    /\ req[r].at # "idle" => Target(r) \in Sheets
    /\ req[r].at = "project" => req[r].op = "post"
    /\ req[r].at \in Checking => req[r].op \in {"submit", "approve", "post"}
    /\ req[r].at = "insert" => req[r].op \in {"revise", "reopen"}

\* It holds the locks it has taken until it ends.
HoldsLocks(r) ==
  /\ req[r].at \in Locking => rowLock[Target(r)] = r
  /\ req[r].at \in {"scan", "commit"} => dayLock[sheets[Target(r)].day] = r
  /\ req[r].at \in Checking /\ req[r].op = "post" => projectLock = r

\* What it was allowed to do when it locked its sheet it may still do.
MayFinish(r) ==
  req[r].at \in Locking =>
    /\ sheets[Target(r)].status # "absent"
    /\ Allowed(req[r].op, sheets[Target(r)])

\* Between its two commits a save has its draft to itself, and what it read is
\* what is stored: its client waits.
HasItsDraft(r) ==
  req[r].at \in Saving =>
    /\ sheets[Target(r)].status = "draft" /\ rowLock[Target(r)] = None
    /\ req[r].at = "setRoot" => copy[r] = sheets[Target(r)].details

LocksHeld == \A r \in Requests : HoldsLocks(r)

GuardsKept == \A r \in Requests : MayFinish(r)

SavesUndisturbed ==
  /\ \A r \in Requests : HasItsDraft(r)
  /\ \A r, q \in Requests : req[r].at \in Saving /\ req[q].at \in Saving /\ Target(r) = Target(q) => r = q

LockedRowsExist == \A s \in Sheets : rowLock[s] # None => sheets[s].status # "absent"

OnlyApprovedPosted ==
  \A s \in Sheets : sheets[s].details.posted => sheets[s].status \in {"approved", "exported", "void"}

\* What the scan found stays true until the commit, by the lock of the day.
CommitsClear ==
  \A r \in Requests : req[r].at = "commit" =>
    \A o \in Others(Target(r)) : Root(o) # Root(Target(r)) => Uses(o) \cap Uses(Target(r)) = {}

\* And so do the time entries, by the lock of the project.
PostsUnpaid ==
  \A r \in Requests : req[r].at = "commit" /\ req[r].op = "post" => ~HasEntries(Target(r))

RequestsInv == TimesheetsTypeOK /\ RequestsPlaced

TimesheetsInv ==
  /\ RequestsInv
  /\ LocksHeld /\ GuardsKept /\ LockedRowsExist /\ SavesUndisturbed
  /\ OnlyApprovedPosted
  /\ CommitsClear /\ PostsUnpaid
  /\ NoDoubleBooking /\ PaidFromOneSheet /\ PostedExactly

-----------------------------------------------------------------------------
(* Types, for every client.                                                *)

\* The rows and requests.
Row == [status: SheetStatuses, day: Days, details: Details]
Request == [op: Operations, sheet: Sheets \cup {None}, at: Steps]

\* A step of a request changes nothing of the other requests.
LEMMA GotoTypes ==
  ASSUME req \in [Requests -> Request], NEW r \in Requests, NEW to \in Steps,
         req' = [req EXCEPT ![r].at = to]
  PROVE  /\ req' \in [Requests -> Request]
         /\ req'[r].op = req[r].op /\ req'[r].sheet = req[r].sheet /\ req'[r].at = to
         /\ \A q \in Requests \ {r} : req'[q] = req[q]
  BY DEF Request

\* What a statement does to the row of a sheet and no other.
LEMMA RowTypes ==
  ASSUME sheets \in [Sheets -> Row], NEW s \in Sheets
  PROVE  /\ \A status \in SheetStatuses : [sheets EXCEPT ![s].status = status] \in [Sheets -> Row]
         /\ [sheets EXCEPT ![s].details.posted = TRUE] \in [Sheets -> Row]
         /\ \A details \in Details : [sheets EXCEPT ![s].details = details] \in [Sheets -> Row]
         /\ \A day \in Days, uses \in SUBSET Resources :
              [sheets EXCEPT ![s].day = day, ![s].details.uses = uses, ![s].details.posted = FALSE]
                \in [Sheets -> Row]
         /\ [sheets[s] EXCEPT !.status = "draft", !.details.version = @ + 1] \in Row
<1> USE DEF Row
<1>1. sheets[s] \in Row /\ sheets[s].details \in Details OBVIOUS
<1>2. \A status \in SheetStatuses : [sheets EXCEPT ![s].status = status] \in [Sheets -> Row]
  OBVIOUS
<1>3. \A details \in Details : [sheets EXCEPT ![s].details = details] \in [Sheets -> Row]
  OBVIOUS
<1>4. [sheets EXCEPT ![s].details.posted = TRUE] \in [Sheets -> Row]
  <2>1. [sheets[s].details EXCEPT !.posted = TRUE] \in Details BY <1>1 DEF Details
  <2>2. [sheets EXCEPT ![s].details.posted = TRUE]
          = [sheets EXCEPT ![s].details = [sheets[s].details EXCEPT !.posted = TRUE]]
    BY <1>1
  <2> QED BY <2>1, <2>2, <1>3
<1>5. ASSUME NEW day \in Days, NEW uses \in SUBSET Resources
      PROVE  [sheets EXCEPT ![s].day = day, ![s].details.uses = uses, ![s].details.posted = FALSE]
               \in [Sheets -> Row]
  <2> DEFINE details == [sheets[s].details EXCEPT !.uses = uses, !.posted = FALSE]
             row == [sheets[s] EXCEPT !.day = day, !.details = details]
  <2>1. details \in Details BY <1>1 DEF Details
  <2>2. row \in Row BY <1>1, <2>1
  <2>3. [sheets EXCEPT ![s].day = day, ![s].details.uses = uses, ![s].details.posted = FALSE]
          = [sheets EXCEPT ![s] = row]
    BY <1>1 DEF Details
  <2> QED BY <2>2, <2>3
<1>6. [sheets[s] EXCEPT !.status = "draft", !.details.version = @ + 1] \in Row
  <2>1. [sheets[s].details EXCEPT !.version = @ + 1] \in Details BY <1>1 DEF Details
  <2> QED BY <1>1, <2>1 DEF SheetStatuses
<1> QED BY <1>2, <1>3, <1>4, <1>5, <1>6

\* And what the changed row says then.
LEMMA RowEffects ==
  ASSUME sheets \in [Sheets -> Row], NEW s \in Sheets
  PROVE  /\ \A status \in SheetStatuses :
              /\ [sheets EXCEPT ![s].status = status][s].status = status
              /\ [sheets EXCEPT ![s].status = status][s].day = sheets[s].day
              /\ [sheets EXCEPT ![s].status = status][s].details = sheets[s].details
         /\ /\ [sheets EXCEPT ![s].details.posted = TRUE][s].status = sheets[s].status
            /\ [sheets EXCEPT ![s].details.posted = TRUE][s].day = sheets[s].day
            /\ [sheets EXCEPT ![s].details.posted = TRUE][s].details.uses = sheets[s].details.uses
            /\ [sheets EXCEPT ![s].details.posted = TRUE][s].details.root = sheets[s].details.root
            /\ [sheets EXCEPT ![s].details.posted = TRUE][s].details.version = sheets[s].details.version
            /\ [sheets EXCEPT ![s].details.posted = TRUE][s].details.posted = TRUE
         /\ \A details \in Details :
              /\ [sheets EXCEPT ![s].details = details][s].status = sheets[s].status
              /\ [sheets EXCEPT ![s].details = details][s].day = sheets[s].day
              /\ [sheets EXCEPT ![s].details = details][s].details = details
         /\ \A day \in Days, uses \in SUBSET Resources :
              LET edited == [sheets EXCEPT ![s].day = day, ![s].details.uses = uses, ![s].details.posted = FALSE]
              IN /\ edited[s].status = sheets[s].status
                 /\ edited[s].details.posted = FALSE
         /\ LET revision == [sheets[s] EXCEPT !.status = "draft", !.details.version = @ + 1] IN
              revision.status = "draft" /\ revision.details.posted = sheets[s].details.posted
<1>1. sheets[s] \in Row /\ sheets[s].details \in Details BY DEF Row
<1> QED BY <1>1 DEF Row, Details

\* Commit and rollback: the request is idle, its locks are free, and no other
\* request loses one.
LEMMA EndTypes ==
  ASSUME TimesheetsTypeOK, NEW r \in Requests, EndTransaction(r)
  PROVE  /\ req' \in [Requests -> Request]
         /\ copy' \in [Requests -> Details]
         /\ rowLock' \in [Sheets -> Requests \cup {None}]
         /\ dayLock' \in [Days -> Requests \cup {None}]
         /\ projectLock' \in Requests \cup {None}
         /\ req'[r] = Idle
         /\ \A q \in Requests \ {r} : req'[q] = req[q] /\ copy'[q] = copy[q]
         /\ \A s \in Sheets : rowLock'[s] = IF rowLock[s] = r THEN None ELSE rowLock[s]
         /\ \A d \in Days : dayLock'[d] = IF dayLock[d] = r THEN None ELSE dayLock[d]
         /\ projectLock' = IF projectLock = r THEN None ELSE projectLock
<1> USE DEF TimesheetsTypeOK, Request, EndTransaction
<1>1. Idle \in Request BY DEF Idle, Request, Operations, Steps
<1>2. NoDetails \in Details BY DEF NoDetails, Details
<1> QED BY <1>1, <1>2

\* A rollback leaves requests with a sheet of their own.
LEMMA Rollback ==
  ASSUME RequestsInv, NEW r \in Requests, EndTransaction(r), UNCHANGED <<sheets, entries>>
  PROVE  RequestsInv'
<1> USE DEF RequestsInv
<1>1. TimesheetsTypeOK' BY EndTypes DEF TimesheetsTypeOK, Request
<1>2. RequestsPlaced' BY EndTypes DEF RequestsPlaced, Target, Idle, Checking
<1> QED BY <1>1, <1>2

\* So does a request that begins ...
LEMMA TypesBegin ==
  ASSUME RequestsInv, NEW r \in Requests, BeginRequest(r)
  PROVE  RequestsInv'
<1> USE TimesheetsAssumption DEF RequestsInv, TimesheetsTypeOK, locks
<1>1. CASE \E s \in Sheets, uses \in Payloads, day \in Days : CreateDraft(r, s, uses, day)
  <2>1. PICK s \in Sheets, uses \in Payloads, day \in Days : CreateDraft(r, s, uses, day) BY <1>1
  <2>2. [NoDetails EXCEPT !.uses = uses] \in Details BY DEF NoDetails, Details
  <2>3. TimesheetsTypeOK' BY <2>1, <2>2 DEF CreateDraft, SheetStatuses, Operations, Steps
  <2>4. RequestsPlaced' BY <2>1 DEF CreateDraft, RequestsPlaced, Target, Checking
  <2> QED BY <2>3, <2>4
<1>2. CASE \E s \in Sheets, uses \in Payloads, day \in Days : EditDraft(r, s, uses, day)
  <2>1. PICK s \in Sheets, uses \in Payloads, day \in Days : EditDraft(r, s, uses, day) BY <1>2
  <2>2. uses \in SUBSET Resources OBVIOUS
  <2>3. sheets' \in [Sheets -> Row] BY <2>1, <2>2, RowTypes DEF EditDraft, Row
  <2>5. TimesheetsTypeOK' BY <2>1, <2>3 DEF EditDraft, Row, Operations, Steps
  <2>4. RequestsPlaced' BY <2>1 DEF EditDraft, RequestsPlaced, Target, Checking
  <2> QED BY <2>4, <2>5
<1>3. CASE \E s \in Sheets, op \in Operations \ {"save"} : LockSheet(r, op, s)
  <2>1. PICK s \in Sheets, op \in Operations \ {"save"} : LockSheet(r, op, s) BY <1>3
  <2>2. /\ FirstStep(op) \in Steps
        /\ FirstStep(op) = "project" => op = "post"
        /\ FirstStep(op) \in Checking => op \in {"submit", "approve", "post"}
        /\ FirstStep(op) = "insert" => op \in {"revise", "reopen"}
    BY DEF FirstStep, Operations, Steps, Checking
  <2>3. TimesheetsTypeOK' BY <2>1, <2>2 DEF LockSheet
  <2>4. RequestsPlaced' BY <2>1, <2>2 DEF LockSheet, RequestsPlaced, Target
  <2> QED BY <2>3, <2>4
<1> QED BY <1>1, <1>2, <1>3 DEF BeginRequest

\* ... and every later step of it.
LEMMA TypesProceed ==
  ASSUME RequestsInv, NEW r \in Requests, Proceed(r)
  PROVE  RequestsInv'
<1> USE TimesheetsAssumption DEF RequestsInv, locks
<1>1. CASE Refresh(r)
  <2>1. CASE req' = [req EXCEPT ![r] = Idle] /\ UNCHANGED <<sheets, entries, copy, locks>>
    <3>1. TimesheetsTypeOK' BY <2>1 DEF TimesheetsTypeOK, Idle, Operations, Steps
    <3>2. RequestsPlaced' BY <2>1 DEF TimesheetsTypeOK, RequestsPlaced, Target, Idle, Checking
    <3> QED BY <3>1, <3>2
  <2>2. CASE /\ req[r].at = "refresh" /\ req' = [req EXCEPT ![r].at = "setRoot"]
             /\ copy' = [copy EXCEPT ![r] = sheets[Target(r)].details]
             /\ UNCHANGED <<sheets, entries, locks>>
    <3>1. Target(r) \in Sheets BY <2>2 DEF RequestsPlaced
    <3>2. copy' \in [Requests -> Details] BY <2>2, <3>1 DEF TimesheetsTypeOK
    <3>3. "setRoot" \in Steps BY DEF Steps
    <3>4. TimesheetsTypeOK' BY <2>2, <3>2, <3>3, GotoTypes DEF TimesheetsTypeOK, Request
    <3>5. RequestsPlaced' BY <2>2, <3>1, <3>3, GotoTypes DEF TimesheetsTypeOK, RequestsPlaced, Request, Target, Checking
    <3> QED BY <3>4, <3>5
  <2> QED BY <1>1, <2>1, <2>2 DEF Refresh, Target
<1>2. CASE SetRoot(r)
  <2>1. Target(r) \in Sheets BY <1>2 DEF SetRoot, RequestsPlaced
  <2>2. [copy[r] EXCEPT !.root = Target(r)] \in Details
    <3>1. copy[r] \in Details BY DEF TimesheetsTypeOK
    <3> QED BY <2>1, <3>1 DEF Details
  <2>3. sheets' \in [Sheets -> Row] BY <1>2, <2>1, <2>2, RowTypes DEF SetRoot, Target, TimesheetsTypeOK, Row
  <2>4. NoDetails \in Details BY DEF NoDetails, Details
  <2>5. TimesheetsTypeOK' BY <1>2, <2>3, <2>4 DEF SetRoot, TimesheetsTypeOK, Row, Idle, Operations, Steps
  <2>6. RequestsPlaced' BY <1>2 DEF SetRoot, TimesheetsTypeOK, RequestsPlaced, Target, Idle, Checking
  <2> QED BY <2>5, <2>6
<1>3. CASE LockProject(r) \/ LockDay(r) \/ NoConflictFound(r)
  <2>1. PICK to \in {"day", "scan", "commit"} :
          /\ req' = [req EXCEPT ![r].at = to]
          /\ req[r].at \in {"project", "day", "scan"}
          /\ UNCHANGED <<sheets, entries, copy, rowLock>>
          /\ dayLock' \in [Days -> Requests \cup {None}] /\ projectLock' \in Requests \cup {None}
    BY <1>3, ZenonT(40) DEF LockProject, LockDay, NoConflictFound, Scanned, Goto, TimesheetsTypeOK
  <2>2. to \in Steps BY DEF Steps
  <2>3. TimesheetsTypeOK' BY <2>1, <2>2, GotoTypes DEF TimesheetsTypeOK, Request
  <2>4. RequestsPlaced'
    BY <2>1, <2>2, GotoTypes DEF TimesheetsTypeOK, RequestsPlaced, Request, Target, Checking
  <2> QED BY <2>3, <2>4
<1>4. CASE ScanRow(r)
  <2>1. RequestsPlaced' BY <1>4 DEF ScanRow, RequestsPlaced, Target
  <2>2. TimesheetsTypeOK' BY <1>4 DEF ScanRow, TimesheetsTypeOK
  <2> QED BY <2>1, <2>2
<1>5. CASE PostingBlocked(r) \/ ConflictFound(r) \/ DeadlockVictim(r)
  BY <1>5, Rollback DEF PostingBlocked, ConflictFound, DeadlockVictim
<1>6. CASE CommitSubmit(r) \/ CommitApprove(r)
  <2>1. PICK status \in SheetStatuses : /\ sheets' = [sheets EXCEPT ![Target(r)].status = status]
                                        /\ EndTransaction(r) /\ UNCHANGED entries
    BY <1>6 DEF CommitSubmit, CommitApprove, CommitStatus, SheetStatuses, ActiveStatuses, Target
  <2>2. Target(r) \in Sheets BY <1>6 DEF CommitSubmit, CommitApprove, CommitStatus, RequestsPlaced, Target
  <2>3. sheets' \in [Sheets -> Row] BY <2>1, <2>2, RowTypes DEF TimesheetsTypeOK, Row
  <2>4. TimesheetsTypeOK' BY <2>1, <2>3, EndTypes DEF TimesheetsTypeOK, Request, Row
  <2>5. RequestsPlaced' BY <2>1, EndTypes DEF RequestsPlaced, Target, Idle, Checking
  <2> QED BY <2>4, <2>5
<1>7. CASE CommitPost(r)
  <2> DEFINE s == Target(r)
             splits(e) == Cardinality({x \in Slots : <<e, x>> \in Uses(s)})
  <2>1. \A e \in Employees : splits(e) \in Nat
    <3>1. \A e \in Employees : IsFiniteSet({x \in Slots : <<e, x>> \in Uses(s)})
      BY FS_Subset
    <3> QED BY <3>1, FS_CardinalityType
  <2>2. /\ s \in Sheets
        /\ entries' = [x \in Employees \X Days |->
                        IF x[2] = sheets[s].day THEN [entries[x] EXCEPT ![s] = @ + splits(x[1])] ELSE entries[x]]
        /\ sheets' = [sheets EXCEPT ![s].details.posted = TRUE]
        /\ EndTransaction(r)
    BY <1>7 DEF CommitPost, RequestsPlaced, Target
  <2>3. entries' \in [Employees \X Days -> [Origins -> Nat]]
    <3> HIDE DEF splits, s
    <3>1. \A x \in Employees \X Days : splits(x[1]) \in Nat BY <2>1
    <3>2. \A x \in Employees \X Days : [entries[x] EXCEPT ![s] = @ + splits(x[1])] \in [Origins -> Nat]
      BY <2>2, <3>1 DEF TimesheetsTypeOK, Origins
    <3> QED BY <2>2, <3>2 DEF TimesheetsTypeOK
  <2>4. sheets' \in [Sheets -> Row] BY <2>2, RowTypes DEF TimesheetsTypeOK, Row
  <2>5. TimesheetsTypeOK' BY <2>2, <2>3, <2>4, EndTypes DEF TimesheetsTypeOK, Row, Request
  <2>6. RequestsPlaced' BY <2>2, EndTypes DEF RequestsPlaced, Target, Idle, Checking
  <2> QED BY <2>5, <2>6
<1>8. ASSUME NEW n \in Sheets, InsertRevision(r, n) PROVE RequestsInv'
  <2>1. Target(r) \in Sheets /\ EndTransaction(r) /\ UNCHANGED entries
        /\ sheets' = [sheets EXCEPT ![n] = [sheets[Target(r)] EXCEPT !.status = "draft", !.details.version = @ + 1]]
    BY <1>8 DEF InsertRevision, RequestsPlaced, Target
  <2>2. [sheets[Target(r)] EXCEPT !.status = "draft", !.details.version = @ + 1] \in Row
    BY <2>1, RowTypes DEF TimesheetsTypeOK, Row
  <2>3. TimesheetsTypeOK' BY <2>1, <2>2, EndTypes DEF TimesheetsTypeOK, Row, Request
  <2>4. RequestsPlaced' BY <2>1, EndTypes DEF RequestsPlaced, Target, Idle, Checking
  <2> QED BY <2>3, <2>4
<1> QED BY <1>1, <1>2, <1>3, <1>4, <1>5, <1>6, <1>7, <1>8 DEF Proceed

-----------------------------------------------------------------------------
(* What a step leaves alone.                                               *)

Kept(r) ==
  /\ \A q \in Requests \ {r} :
       /\ req'[q] = req[q] /\ copy'[q] = copy[q]
       /\ \A s \in Sheets : rowLock[s] = q <=> rowLock'[s] = q
       /\ \A d \in Days : dayLock[d] = q <=> dayLock'[d] = q
       /\ projectLock = q <=> projectLock' = q
  /\ \A s \in Sheets, q \in Requests \ {r} :
       rowLock[s] = q \/ (req[q].at \in Saving /\ Target(q) = s) => sheets'[s] = sheets[s]
  /\ \A s \in Sheets : rowLock[s] = None /\ rowLock'[s] # None =>
       \A q \in Requests : req[q].at \in Saving => Target(q) # s

\* A transaction that ends keeps the others, if it wrote only its own sheet or a
\* new one.
LEMMA EndKeeps ==
  ASSUME TimesheetsInv, NEW r \in Requests, EndTransaction(r),
         \A s \in Sheets : sheets'[s] # sheets[s] => \/ s = Target(r) /\ rowLock[s] = r
                                                     \/ sheets[s].status = "absent"
  PROVE  Kept(r)
<1> USE TimesheetsAssumption DEF TimesheetsInv, RequestsInv
<1>1. \A q \in Requests : q # None OBVIOUS
<1>2. \A s \in Sheets : rowLock'[s] # None => rowLock'[s] = rowLock[s] BY EndTypes
<1>3. \A s \in Sheets, q \in Requests \ {r} :
        rowLock[s] = q \/ (req[q].at \in Saving /\ Target(q) = s) => sheets'[s] = sheets[s]
  BY DEF LockedRowsExist, SavesUndisturbed, HasItsDraft
<1> QED BY <1>1, <1>2, <1>3, EndTypes DEF Kept

\* A request that begins keeps the others: their rows are locked, or their
\* clients wait.
LEMMA BeginKeeps ==
  ASSUME TimesheetsInv, Patient, NEW r \in Requests, BeginRequest(r)
  PROVE  Kept(r)
<1> USE TimesheetsAssumption DEF TimesheetsInv, RequestsInv, TimesheetsTypeOK, locks, Free, Quiet, Saving
<1>1. ASSUME NEW s \in Sheets, NEW uses \in Payloads, NEW day \in Days, CreateDraft(r, s, uses, day)
      PROVE  Kept(r)
  BY <1>1 DEF CreateDraft, Kept, LockedRowsExist, SavesUndisturbed, HasItsDraft
<1>2. ASSUME NEW s \in Sheets, NEW uses \in Payloads, NEW day \in Days, EditDraft(r, s, uses, day)
      PROVE  Kept(r)
  <2>1. \A t \in Sheets \ {s} : sheets'[t] = sheets[t] BY <1>2 DEF EditDraft
  <2>2. rowLock[s] = None BY <1>2 DEF EditDraft
  <2>3. \A q \in Requests : req[q].at \in Saving => Target(q) # s BY <1>2 DEF EditDraft, Target
  <2>4. \A q \in Requests \ {r} : req'[q] = req[q] BY <1>2 DEF EditDraft
  <2> QED BY <1>2, <2>1, <2>2, <2>3, <2>4 DEF EditDraft, Kept
<1>3. ASSUME NEW s \in Sheets, NEW op \in Operations \ {"save"}, LockSheet(r, op, s)
      PROVE  Kept(r)
  BY <1>3 DEF LockSheet, Kept, Target
<1> QED BY <1>1, <1>2, <1>3 DEF BeginRequest

\* Rows are locked in the order of their ids: there is a next one.
LEMMA NextRowIsUnlocked ==
  ASSUME NEW r \in Requests, Unlocked(r) # {}
  PROVE  NextRow(r) \in Unlocked(r)
<1>1. Unlocked(r) \subseteq Nat BY TimesheetsAssumption DEF Unlocked, Others
<1>2. PICK o \in Unlocked(r) : \A x \in Unlocked(r) : ~(<<x, o>> \in OpToRel(<, Nat))
  BY <1>1, NatLessThanWellFounded, WFMin, Zenon
<1>3. \A x \in Unlocked(r) : o <= x
  <2> TAKE x \in Unlocked(r)
  <2>1. o \in Nat /\ x \in Nat BY <1>1
  <2>2. ~(x < o) BY <1>2, <2>1 DEF OpToRel
  <2> QED BY <2>1, <2>2
<1> QED BY <1>3 DEF NextRow

\* Every later step keeps the others.
LEMMA ProceedKeeps ==
  ASSUME TimesheetsInv, NEW r \in Requests, Proceed(r)
  PROVE  Kept(r)
<1> USE TimesheetsAssumption DEF TimesheetsInv, RequestsInv, locks
<1>1. CASE Refresh(r)
  BY <1>1 DEF Refresh, Kept, TimesheetsTypeOK
<1>2. CASE SetRoot(r)
  <2>1. Target(r) \in Sheets BY <1>2 DEF SetRoot, RequestsPlaced
  <2>2. \A t \in Sheets \ {Target(r)} : sheets'[t] = sheets[t]
    BY <1>2, <2>1 DEF SetRoot, Target, TimesheetsTypeOK
  <2>3. rowLock[Target(r)] = None BY <1>2 DEF SetRoot, Free, Target
  <2>4. \A q \in Requests \ {r} : req[q].at \in Saving => Target(q) # Target(r)
    BY <1>2 DEF SetRoot, SavesUndisturbed, Saving
  <2> QED BY <1>2, <2>1, <2>2, <2>3, <2>4 DEF SetRoot, Kept, TimesheetsTypeOK
<1>3. CASE LockProject(r) \/ LockDay(r) \/ NoConflictFound(r)
  <2>1. \A q \in Requests \ {r} : req'[q] = req[q]
    BY <1>3 DEF LockProject, LockDay, NoConflictFound, Goto, TimesheetsTypeOK
  <2>2. CASE LockDay(r)
    <3>1. Target(r) \in Sheets BY <2>2 DEF LockDay, Goto, RequestsPlaced
    <3>2. sheets[Target(r)].day \in Days BY <3>1 DEF TimesheetsTypeOK
    <3> QED BY <2>1, <2>2, <3>2 DEF LockDay, Kept, Target, TimesheetsTypeOK
  <2>3. CASE LockProject(r) \/ NoConflictFound(r)
    BY <2>1, <2>3 DEF LockProject, NoConflictFound, Kept, JobRowFree
  <2> QED BY <1>3, <2>2, <2>3
<1>4. CASE ScanRow(r)
  <2> DEFINE o == NextRow(r)
  <2>1. Target(r) \in Sheets BY <1>4 DEF ScanRow, RequestsPlaced
  <2>2. o \in Unlocked(r) BY <1>4, NextRowIsUnlocked DEF ScanRow
  <2>3. o \in Sheets /\ sheets[o].status \in ActiveStatuses BY <2>2 DEF Unlocked, Others
  <2>4. rowLock[o] = None /\ rowLock' = [rowLock EXCEPT ![o] = r] BY <1>4 DEF ScanRow, Free
  <2>5. UNCHANGED <<sheets, req, copy, dayLock, projectLock>> BY <1>4 DEF ScanRow
  <2>6. \A q \in Requests : req[q].at \in Saving => Target(q) # o
    BY <2>3 DEF SavesUndisturbed, HasItsDraft, ActiveStatuses
  <2> HIDE DEF o
  <2> QED BY <2>3, <2>4, <2>5, <2>6 DEF Kept, TimesheetsTypeOK
<1>5. CASE PostingBlocked(r) \/ ConflictFound(r) \/ DeadlockVictim(r)
  BY <1>5, EndKeeps DEF PostingBlocked, ConflictFound, DeadlockVictim
<1>6. CASE CommitSubmit(r) \/ CommitApprove(r) \/ CommitPost(r)
  <2>1. Target(r) \in Sheets /\ rowLock[Target(r)] = r
    BY <1>6 DEF CommitSubmit, CommitApprove, CommitPost, CommitStatus, RequestsPlaced, LocksHeld, HoldsLocks, Locking
  <2>2. \A s \in Sheets \ {Target(r)} : sheets'[s] = sheets[s]
    BY <1>6, <2>1 DEF CommitSubmit, CommitApprove, CommitPost, CommitStatus, Target, TimesheetsTypeOK
  <2>3. EndTransaction(r) BY <1>6 DEF CommitSubmit, CommitApprove, CommitPost, CommitStatus
  <2> QED BY <2>1, <2>2, <2>3, EndKeeps
<1>7. ASSUME NEW n \in Sheets, InsertRevision(r, n) PROVE Kept(r)
  <2>1. \A s \in Sheets \ {n} : sheets'[s] = sheets[s]
    BY <1>7 DEF InsertRevision, TimesheetsTypeOK
  <2>2. sheets[n].status = "absent" /\ EndTransaction(r) BY <1>7 DEF InsertRevision
  <2> QED BY <2>1, <2>2, EndKeeps
<1> QED BY <1>1, <1>2, <1>3, <1>4, <1>5, <1>6, <1>7 DEF Proceed

-----------------------------------------------------------------------------
(* The control of the requests: locks, guards and saves.                   *)

\* What is kept stays under control.
LEMMA OthersControlled ==
  ASSUME TimesheetsInv, NEW r \in Requests, Kept(r), NEW q \in Requests \ {r}
  PROVE  HoldsLocks(q)' /\ MayFinish(q)' /\ HasItsDraft(q)'
<1> USE TimesheetsAssumption DEF TimesheetsInv, RequestsInv
<1>1. req'[q] = req[q] /\ copy'[q] = copy[q] BY DEF Kept
<1>2. req[q].at # "idle" => Target(q) \in Sheets /\ sheets[Target(q)].day \in Days
  BY DEF RequestsPlaced, TimesheetsTypeOK
<1>3. req[q].at \in Locking => rowLock[Target(q)] = q BY DEF LocksHeld, HoldsLocks
<1>4. req[q].at \in Locking \cup Saving => sheets'[Target(q)] = sheets[Target(q)]
  BY <1>2, <1>3 DEF Kept, Locking, Saving
<1>5. HoldsLocks(q)'
  <2>1. HoldsLocks(q) BY DEF LocksHeld
  <2>2. req'[q].at \in Locking => rowLock'[Target(q)'] = q
    BY <1>1, <1>2, <1>3 DEF Kept, Locking, Target
  <2>3. req'[q].at \in {"scan", "commit"} => dayLock'[sheets'[Target(q)'].day] = q
    BY <1>1, <1>2, <1>4, <2>1 DEF HoldsLocks, Kept, Locking, Target
  <2>4. req'[q].at \in Checking /\ req'[q].op = "post" => projectLock' = q
    BY <1>1, <2>1 DEF HoldsLocks, Kept
  <2> QED BY <2>2, <2>3, <2>4 DEF HoldsLocks
<1>6. MayFinish(q)' BY <1>1, <1>4 DEF GuardsKept, MayFinish, Allowed, Target
<1>7. HasItsDraft(q)'
  <2> SUFFICES ASSUME req[q].at \in Saving
               PROVE  /\ sheets'[Target(q)].status = "draft" /\ rowLock'[Target(q)] = None
                      /\ req[q].at = "setRoot" => copy[q] = sheets'[Target(q)].details
    BY <1>1 DEF HasItsDraft, Target
  <2>1. /\ sheets[Target(q)].status = "draft" /\ rowLock[Target(q)] = None
        /\ req[q].at = "setRoot" => copy[q] = sheets[Target(q)].details
    BY DEF SavesUndisturbed, HasItsDraft
  <2>2. Target(q) \in Sheets /\ sheets'[Target(q)] = sheets[Target(q)] BY <1>2, <1>4 DEF Saving
  <2>3. rowLock'[Target(q)] = None BY <2>1, <2>2 DEF Kept
  <2> QED BY <2>1, <2>2, <2>3
<1> QED BY <1>5, <1>6, <1>7

\* A request that has ended has nothing left to keep.
LEMMA EndControlled ==
  ASSUME TimesheetsInv, NEW r \in Requests, EndTransaction(r), Kept(r),
         \A s \in Sheets : sheets[s].status # "absent" => sheets'[s].status # "absent"
  PROVE  LocksHeld' /\ GuardsKept' /\ SavesUndisturbed' /\ LockedRowsExist'
<1> USE TimesheetsAssumption DEF TimesheetsInv, RequestsInv
<1>1. req'[r].at = "idle" BY EndTypes DEF Idle
<1>2. HoldsLocks(r)' /\ MayFinish(r)' /\ HasItsDraft(r)'
  BY <1>1 DEF HoldsLocks, MayFinish, HasItsDraft, Locking, Checking, Saving
<1>3. LocksHeld' BY <1>2, OthersControlled DEF LocksHeld
<1>4. GuardsKept' BY <1>2, OthersControlled DEF GuardsKept
<1>5. SavesUndisturbed' BY <1>1, <1>2, OthersControlled DEF SavesUndisturbed, Kept, Target, Saving
<1>6. LockedRowsExist' BY EndTypes DEF LockedRowsExist
<1> QED BY <1>3, <1>4, <1>5, <1>6

\* A request that begins has the lock, the guard or the draft it needs.
LEMMA BeginControlled ==
  ASSUME TimesheetsInv, RequestsInv', Patient, NEW r \in Requests, BeginRequest(r)
  PROVE  LocksHeld' /\ GuardsKept' /\ SavesUndisturbed' /\ LockedRowsExist' /\ OnlyApprovedPosted'
<1> USE TimesheetsAssumption DEF TimesheetsInv, RequestsInv, locks
<1>k. Kept(r) BY BeginKeeps
<1>1. ASSUME NEW s \in Sheets, NEW uses \in Payloads, NEW day \in Days,
             CreateDraft(r, s, uses, day) \/ EditDraft(r, s, uses, day)
      PROVE  LocksHeld' /\ GuardsKept' /\ SavesUndisturbed' /\ LockedRowsExist' /\ OnlyApprovedPosted'
  <2>1. /\ req'[r] = [op |-> "save", sheet |-> s, at |-> "refresh"]
        /\ UNCHANGED <<copy, rowLock, dayLock, projectLock>>
    BY <1>1 DEF CreateDraft, EditDraft, TimesheetsTypeOK
  <2>2. sheets'[s].status = "draft" /\ sheets'[s].details.posted = FALSE
    <3>1. CASE CreateDraft(r, s, uses, day) BY <3>1 DEF CreateDraft, NoDetails, TimesheetsTypeOK
    <3>2. CASE EditDraft(r, s, uses, day)
      BY <3>2, RowEffects DEF EditDraft, Editable, TimesheetsTypeOK, Row
    <3> QED BY <1>1, <3>1, <3>2
  <2>3. \A t \in Sheets \ {s} : sheets'[t] = sheets[t]
    BY <1>1 DEF CreateDraft, EditDraft, TimesheetsTypeOK
  <2>4. rowLock[s] = None BY <1>1 DEF CreateDraft, EditDraft, Free, LockedRowsExist
  <2>5. \A q \in Requests : req[q].at \in Saving => Target(q) # s
    BY <1>1 DEF CreateDraft, EditDraft, Quiet, Target, SavesUndisturbed, HasItsDraft, Saving
  <2>6. HoldsLocks(r)' /\ MayFinish(r)' /\ HasItsDraft(r)'
    BY <2>1, <2>2, <2>4 DEF HoldsLocks, MayFinish, HasItsDraft, Locking, Checking, Saving, Target
  <2>7. LocksHeld' BY <1>k, <2>6, OthersControlled DEF LocksHeld
  <2>8. GuardsKept' BY <1>k, <2>6, OthersControlled DEF GuardsKept
  <2>9. SavesUndisturbed'
    BY <1>k, <2>1, <2>5, <2>6, OthersControlled DEF SavesUndisturbed, Kept, Target
  <2>10. LockedRowsExist' BY <2>1, <2>2, <2>3 DEF LockedRowsExist
  <2>11. OnlyApprovedPosted' BY <2>2, <2>3 DEF OnlyApprovedPosted
  <2> QED BY <2>7, <2>8, <2>9, <2>10, <2>11
<1>2. ASSUME NEW s \in Sheets, NEW op \in Operations \ {"save"}, LockSheet(r, op, s)
      PROVE  LocksHeld' /\ GuardsKept' /\ SavesUndisturbed' /\ LockedRowsExist' /\ OnlyApprovedPosted'
  <2>1. /\ req'[r] = [op |-> op, sheet |-> s, at |-> FirstStep(op)]
        /\ rowLock' = [rowLock EXCEPT ![s] = r]
        /\ UNCHANGED <<sheets, copy, dayLock, projectLock>>
    BY <1>2 DEF LockSheet, TimesheetsTypeOK
  <2>2. FirstStep(op) \in {"project", "day", "insert"} /\ (FirstStep(op) = "day" => op # "post")
    BY DEF FirstStep, Operations
  <2>3. rowLock'[s] = r /\ sheets[s].status # "absent" /\ Allowed(op, sheets[s])
    BY <1>2, <2>1 DEF LockSheet, TimesheetsTypeOK
  <2>m. MayFinish(r)' BY <2>1, <2>3 DEF MayFinish, Target
  <2>h. HoldsLocks(r)' BY <2>1, <2>2, <2>3 DEF HoldsLocks, Locking, Checking, Target
  <2>4. HoldsLocks(r)' /\ MayFinish(r)' /\ HasItsDraft(r)'
    BY <2>1, <2>2, <2>m, <2>h DEF HasItsDraft, Saving
  <2>5. LocksHeld' BY <1>k, <2>4, OthersControlled DEF LocksHeld
  <2>6. GuardsKept' BY <1>k, <2>4, OthersControlled DEF GuardsKept
  <2>7. SavesUndisturbed'
    BY <1>k, <2>1, <2>2, <2>4, OthersControlled DEF SavesUndisturbed, Kept, Target, Saving
  <2>8. LockedRowsExist' BY <2>1, <2>3 DEF LockedRowsExist, TimesheetsTypeOK
  <2>9. OnlyApprovedPosted' BY <2>1 DEF OnlyApprovedPosted
  <2> QED BY <2>5, <2>6, <2>7, <2>8, <2>9
<1> QED BY <1>1, <1>2 DEF BeginRequest

\* A rollback leaves everything under control.
LEMMA RollbackControlled ==
  ASSUME TimesheetsInv, NEW r \in Requests, EndTransaction(r), UNCHANGED sheets
  PROVE  LocksHeld' /\ GuardsKept' /\ SavesUndisturbed' /\ LockedRowsExist' /\ OnlyApprovedPosted'
<1>1. Kept(r) BY EndKeeps
<1>2. OnlyApprovedPosted' BY DEF OnlyApprovedPosted, TimesheetsInv
<1> QED BY <1>1, <1>2, EndControlled

\* So does every later step of a request.
LEMMA ProceedControlled ==
  ASSUME TimesheetsInv, RequestsInv', NEW r \in Requests, Proceed(r)
  PROVE  LocksHeld' /\ GuardsKept' /\ SavesUndisturbed' /\ LockedRowsExist' /\ OnlyApprovedPosted'
<1> USE TimesheetsAssumption DEF TimesheetsInv, RequestsInv, locks
<1>k. Kept(r) BY ProceedKeeps
<1>1. CASE Refresh(r)
  <2>1. Target(r) \in Sheets /\ HasItsDraft(r) /\ req[r].at \in Saving
    BY <1>1 DEF Refresh, RequestsPlaced, SavesUndisturbed, Saving
  <2>2. UNCHANGED <<sheets, rowLock, dayLock, projectLock>> BY <1>1 DEF Refresh
  <2>3. \/ req'[r] = Idle
        \/ /\ req'[r].at = "setRoot" /\ Target(r)' = Target(r)
           /\ copy'[r] = sheets[Target(r)].details
    BY <1>1 DEF Refresh, Target, TimesheetsTypeOK
  <2>4. HoldsLocks(r)' /\ MayFinish(r)' BY <2>3 DEF HoldsLocks, MayFinish, Locking, Checking, Idle
  <2>5. HasItsDraft(r)' BY <2>1, <2>2, <2>3 DEF HasItsDraft, Idle, Saving
  <2>6. SavesUndisturbed'
    BY <1>k, <2>1, <2>3, <2>5, OthersControlled DEF SavesUndisturbed, Kept, Target, Saving, Idle
  <2>7. LockedRowsExist' /\ OnlyApprovedPosted' BY <2>2 DEF LockedRowsExist, OnlyApprovedPosted
  <2> QED BY <1>k, <2>4, <2>6, <2>7, OthersControlled DEF LocksHeld, GuardsKept
<1>2. CASE SetRoot(r)
  <2>1. Target(r) \in Sheets /\ HasItsDraft(r) BY <1>2 DEF SetRoot, RequestsPlaced, SavesUndisturbed
  <2>2. /\ sheets' = [sheets EXCEPT ![Target(r)].details = [copy[r] EXCEPT !.root = Target(r)]]
        /\ req'[r] = Idle
        /\ UNCHANGED <<rowLock, dayLock, projectLock>>
    BY <1>2 DEF SetRoot, Target, TimesheetsTypeOK
  <2>3. copy[r] = sheets[Target(r)].details /\ sheets[Target(r)].status = "draft"
    BY <1>2, <2>1 DEF SetRoot, HasItsDraft, Saving
  <2>4. \A t \in Sheets : /\ sheets'[t].status = sheets[t].status
                          /\ sheets'[t].details.posted = sheets[t].details.posted
    BY <2>1, <2>2, <2>3 DEF TimesheetsTypeOK, Details
  <2>5. HoldsLocks(r)' /\ MayFinish(r)' /\ HasItsDraft(r)'
    BY <2>2 DEF HoldsLocks, MayFinish, HasItsDraft, Locking, Checking, Saving, Idle
  <2>6. SavesUndisturbed'
    BY <1>k, <2>2, <2>5, OthersControlled DEF SavesUndisturbed, Kept, Target, Saving, Idle
  <2>7. LockedRowsExist' /\ OnlyApprovedPosted' BY <2>2, <2>4 DEF LockedRowsExist, OnlyApprovedPosted
  <2> QED BY <1>k, <2>5, <2>6, <2>7, OthersControlled DEF LocksHeld, GuardsKept
<1>3. CASE LockProject(r) \/ LockDay(r) \/ NoConflictFound(r)
  <2>1. /\ HoldsLocks(r) /\ MayFinish(r) /\ Target(r) \in Sheets /\ sheets[Target(r)].day \in Days
        /\ req[r].at \in {"project", "day", "scan"}
    BY <1>3 DEF LockProject, LockDay, NoConflictFound, Scanned, Goto, LocksHeld, GuardsKept, RequestsPlaced,
         TimesheetsTypeOK
  <2>2. /\ UNCHANGED <<sheets, rowLock>>
        /\ req'[r].op = req[r].op /\ Target(r)' = Target(r)
        /\ req'[r].at \in {"day", "scan", "commit"}
        /\ req'[r].at = "day" => projectLock' = r
        /\ req'[r].at \in {"scan", "commit"} => req[r].at \in {"day", "scan"} /\ projectLock' = projectLock
        /\ req'[r].at = "scan" => dayLock'[sheets[Target(r)].day] = r
        /\ req'[r].at = "commit" => req[r].at = "scan" /\ dayLock' = dayLock
    BY <1>3, <2>1 DEF LockProject, LockDay, NoConflictFound, Scanned, Goto, Target, TimesheetsTypeOK
  <2>3. HoldsLocks(r)' BY <2>1, <2>2 DEF HoldsLocks, Locking, Checking
  <2>4. MayFinish(r)' BY <2>1, <2>2 DEF MayFinish, Locking
  <2>5. HasItsDraft(r)' BY <2>2 DEF HasItsDraft, Saving
  <2>6. SavesUndisturbed'
    BY <1>k, <2>2, <2>5, OthersControlled DEF SavesUndisturbed, Kept, Target, Saving
  <2>7. LockedRowsExist' /\ OnlyApprovedPosted' BY <2>2 DEF LockedRowsExist, OnlyApprovedPosted
  <2> QED BY <1>k, <2>3, <2>4, <2>6, <2>7, OthersControlled DEF LocksHeld, GuardsKept
<1>4. CASE ScanRow(r)
  <2> DEFINE o == NextRow(r)
  <2>1. o \in Sheets /\ sheets[o].status \in ActiveStatuses
    BY <1>4, NextRowIsUnlocked DEF ScanRow, Unlocked, Others
  <2>2. rowLock[o] = None /\ rowLock' = [rowLock EXCEPT ![o] = r]
    BY <1>4 DEF ScanRow, Free
  <2>3. UNCHANGED <<sheets, req, copy, dayLock, projectLock>> BY <1>4 DEF ScanRow
  <2>4. Target(r) \in Sheets /\ req[r].at = "scan" BY <1>4 DEF ScanRow, RequestsPlaced
  <2> HIDE DEF o
  <2>5. HoldsLocks(r)'
    BY <2>1, <2>2, <2>3, <2>4 DEF LocksHeld, HoldsLocks, Target, TimesheetsTypeOK
  <2>6. MayFinish(r)' BY <2>3 DEF GuardsKept, MayFinish, Target
  <2>7. HasItsDraft(r)' BY <2>3, <2>4 DEF HasItsDraft, Saving
  <2>8. SavesUndisturbed' BY <1>k, <2>3, <2>7, OthersControlled DEF SavesUndisturbed, Target
  <2>9. LockedRowsExist' /\ OnlyApprovedPosted'
    BY <2>1, <2>2, <2>3 DEF LockedRowsExist, OnlyApprovedPosted, ActiveStatuses, TimesheetsTypeOK
  <2> QED BY <1>k, <2>5, <2>6, <2>8, <2>9, OthersControlled DEF LocksHeld, GuardsKept
<1>5. CASE PostingBlocked(r) \/ ConflictFound(r) \/ DeadlockVictim(r)
  BY <1>5, RollbackControlled DEF PostingBlocked, ConflictFound, DeadlockVictim
<1>6. CASE CommitSubmit(r) \/ CommitApprove(r)
  <2>1. PICK status \in {"needs_review", "approved"} :
          sheets' = [sheets EXCEPT ![Target(r)].status = status]
    BY <1>6 DEF CommitSubmit, CommitApprove, CommitStatus, Target
  <2>2. /\ Target(r) \in Sheets /\ EndTransaction(r)
        /\ Allowed(req[r].op, sheets[Target(r)]) /\ req[r].op \in {"submit", "approve"}
    BY <1>6 DEF CommitSubmit, CommitApprove, CommitStatus, RequestsPlaced, GuardsKept, MayFinish, Locking
  <2>3. sheets[Target(r)].status \in {"draft", "needs_review"} BY <2>2 DEF Allowed
  <2>4. ~sheets[Target(r)].details.posted BY <2>2, <2>3 DEF OnlyApprovedPosted
  <2>5. OnlyApprovedPosted' BY <2>1, <2>2, <2>4 DEF OnlyApprovedPosted, TimesheetsTypeOK
  <2>6. \A s \in Sheets : sheets[s].status # "absent" => sheets'[s].status # "absent"
    BY <2>1, <2>2 DEF TimesheetsTypeOK
  <2> QED BY <1>k, <2>2, <2>5, <2>6, EndControlled
<1>7. CASE CommitPost(r)
  <2>1. /\ sheets' = [sheets EXCEPT ![Target(r)].details.posted = TRUE]
        /\ Target(r) \in Sheets /\ EndTransaction(r)
        /\ Allowed(req[r].op, sheets[Target(r)]) /\ req[r].op = "post"
    BY <1>7 DEF CommitPost, Target, RequestsPlaced, GuardsKept, MayFinish, Locking
  <2>2. sheets[Target(r)].status \in {"approved", "exported"} BY <2>1 DEF Allowed
  <2>3. \A s \in Sheets : sheets'[s].status = sheets[s].status
    BY <2>1 DEF TimesheetsTypeOK, Details
  <2>4. \A s \in Sheets \ {Target(r)} : sheets'[s] = sheets[s] BY <2>1 DEF TimesheetsTypeOK
  <2>5. OnlyApprovedPosted' BY <2>2, <2>3, <2>4 DEF OnlyApprovedPosted
  <2> QED BY <1>k, <2>1, <2>3, <2>5, EndControlled
<1>8. ASSUME NEW n \in Sheets, InsertRevision(r, n)
      PROVE  LocksHeld' /\ GuardsKept' /\ SavesUndisturbed' /\ LockedRowsExist' /\ OnlyApprovedPosted'
  <2>1. /\ sheets' = [sheets EXCEPT ![n] = [sheets[Target(r)] EXCEPT !.status = "draft", !.details.version = @ + 1]]
        /\ Target(r) \in Sheets /\ EndTransaction(r) /\ sheets[n].status = "absent"
        /\ Allowed(req[r].op, sheets[Target(r)]) /\ req[r].op \in {"revise", "reopen"}
    BY <1>8 DEF InsertRevision, Target, RequestsPlaced, GuardsKept, MayFinish, Locking
  <2>2. ~sheets[Target(r)].details.posted BY <2>1 DEF Allowed
  <2>3. sheets'[n].status = "draft" /\ sheets'[n].details.posted = sheets[Target(r)].details.posted
    BY <2>1, RowEffects DEF TimesheetsTypeOK, Row
  <2>4. \A s \in Sheets \ {n} : sheets'[s] = sheets[s] BY <2>1 DEF TimesheetsTypeOK
  <2>5. OnlyApprovedPosted' BY <2>2, <2>3, <2>4 DEF OnlyApprovedPosted
  <2> QED BY <1>k, <2>1, <2>3, <2>4, <2>5, EndControlled
<1> QED BY <1>1, <1>2, <1>3, <1>4, <1>5, <1>6, <1>7, <1>8 DEF Proceed

\* The office's decisions leave the rows alone that requests hold or save.
LEMMA StatusControlled ==
  ASSUME TimesheetsInv, Patient, NEW s \in Sheets, NEW from \in SUBSET {"draft", "needs_review", "approved", "rejected"},
         NEW to \in {"rejected", "void", "exported"}, ChangeStatus(s, from, to),
         to = "rejected" => from = {"needs_review"}
  PROVE  LocksHeld' /\ GuardsKept' /\ SavesUndisturbed' /\ LockedRowsExist' /\ OnlyApprovedPosted'
<1> USE TimesheetsAssumption DEF TimesheetsInv, RequestsInv, locks
<1>1. /\ sheets' = [sheets EXCEPT ![s].status = to] /\ sheets[s].status \in from
      /\ rowLock[s] = None
      /\ UNCHANGED <<req, copy, rowLock, dayLock, projectLock>>
  BY DEF ChangeStatus, Free
<1>2. \A q \in Requests : req[q].at \in Saving => Target(q) # s
  BY DEF ChangeStatus, Quiet, Saving, Target
<1>3. \A t \in Sheets \ {s} : sheets'[t] = sheets[t] BY <1>1 DEF TimesheetsTypeOK
<1>4. \A t \in Sheets : sheets'[t].day = sheets[t].day /\ sheets'[t].details = sheets[t].details
  BY <1>1 DEF TimesheetsTypeOK
<1>5. sheets'[s].status = to BY <1>1 DEF TimesheetsTypeOK
<1>6. \A q \in Requests : req[q].at \in Locking => Target(q) \in Sheets \ {s}
  BY <1>1 DEF LocksHeld, HoldsLocks, RequestsPlaced, Locking
<1>7. LocksHeld'
  BY <1>1, <1>3, <1>6 DEF LocksHeld, HoldsLocks, Target, Locking
<1>8. GuardsKept'
  <2>1. ASSUME NEW q \in Requests PROVE MayFinish(q)'
    <3>1. MayFinish(q) BY DEF GuardsKept
    <3> QED BY <1>1, <1>3, <1>6, <3>1 DEF MayFinish, Target
  <2> QED BY <2>1 DEF GuardsKept
<1>9. SavesUndisturbed'
  BY <1>1, <1>2, <1>3 DEF SavesUndisturbed, HasItsDraft, Target, Saving, RequestsPlaced
<1>10. LockedRowsExist' BY <1>1, <1>3, <1>5 DEF LockedRowsExist
<1>11. OnlyApprovedPosted' BY <1>1, <1>3, <1>4, <1>5 DEF OnlyApprovedPosted
<1> QED BY <1>7, <1>8, <1>9, <1>10, <1>11

-----------------------------------------------------------------------------
(* What a step does to a sheet.                                            *)

SameLines(s) ==
  /\ sheets'[s].day = sheets[s].day
  /\ sheets'[s].details.uses = sheets[s].details.uses
  /\ sheets'[s].details.root = sheets[s].details.root
  /\ sheets'[s].details.version = sheets[s].details.version

Drafted(s) ==
  /\ sheets[s].status \in {"absent", "draft"} /\ sheets'[s].status = "draft"
  /\ sheets'[s].details.posted = FALSE

Decided(s) ==
  /\ SameLines(s) /\ sheets'[s].details.posted = sheets[s].details.posted
  /\ sheets[s].status # "absent"
  /\ sheets'[s].status \in ActiveStatuses => sheets[s].status \in ActiveStatuses

Submitted(s) ==
  \E r \in Requests :
    /\ CommitSubmit(r) /\ Target(r) = s /\ SameLines(s)
    /\ sheets'[s].details.posted = sheets[s].details.posted

Posted(s) ==
  \E r \in Requests : CommitPost(r) /\ Target(r) = s /\ SameLines(s) /\ sheets'[s].status = sheets[s].status

RowStep(s) == sheets'[s] = sheets[s] \/ Drafted(s) \/ Decided(s) \/ Submitted(s) \/ Posted(s)

\* Every step of a request does one of these to each row.
LEMMA RequestRowStep ==
  ASSUME TimesheetsInv, NEW r \in Requests, BeginRequest(r) \/ Proceed(r) \/ Crash(r), NEW t \in Sheets
  PROVE  RowStep(t)
<1> USE TimesheetsAssumption DEF TimesheetsInv, RequestsInv
<1>1. ASSUME NEW s \in Sheets, NEW uses \in Payloads, NEW day \in Days, CreateDraft(r, s, uses, day)
      PROVE  RowStep(t)
  BY <1>1 DEF CreateDraft, RowStep, Drafted, NoDetails, TimesheetsTypeOK
<1>2. ASSUME NEW s \in Sheets, NEW uses \in Payloads, NEW day \in Days, EditDraft(r, s, uses, day)
      PROVE  RowStep(t)
  <2>1. sheets'[s].status = sheets[s].status /\ sheets'[s].details.posted = FALSE
    BY <1>2, RowEffects DEF EditDraft, TimesheetsTypeOK, Row
  <2>2. t # s => sheets'[t] = sheets[t] BY <1>2 DEF EditDraft, TimesheetsTypeOK
  <2> QED BY <1>2, <2>1, <2>2 DEF EditDraft, Editable, RowStep, Drafted
<1>3. ASSUME UNCHANGED sheets PROVE RowStep(t) BY <1>3 DEF RowStep
<1>4. CASE SetRoot(r)
  <2>1. Target(r) \in Sheets /\ HasItsDraft(r) BY <1>4 DEF SetRoot, RequestsPlaced, SavesUndisturbed
  <2>2. sheets' = [sheets EXCEPT ![Target(r)].details = [copy[r] EXCEPT !.root = Target(r)]]
    BY <1>4 DEF SetRoot, Target
  <2>3. copy[r] = sheets[Target(r)].details /\ sheets[Target(r)].status = "draft"
    BY <1>4, <2>1 DEF SetRoot, HasItsDraft, Saving
  <2>4. \A s \in Sheets : /\ sheets'[s].status = sheets[s].status
                          /\ sheets'[s].details.posted = sheets[s].details.posted
    BY <2>1, <2>2, <2>3 DEF TimesheetsTypeOK, Details
  <2>5. \A s \in Sheets \ {Target(r)} : sheets'[s] = sheets[s] BY <2>1, <2>2 DEF TimesheetsTypeOK
  <2>6. ~sheets[Target(r)].details.posted BY <2>1, <2>3 DEF OnlyApprovedPosted
  <2>7. sheets'[Target(r)].details.posted = FALSE BY <2>1, <2>4, <2>6 DEF TimesheetsTypeOK, Details
  <2> QED BY <2>1, <2>3, <2>4, <2>5, <2>7 DEF RowStep, Drafted
<1>5. CASE CommitSubmit(r) \/ CommitApprove(r)
  <2>1. PICK status \in {"needs_review", "approved"} :
          sheets' = [sheets EXCEPT ![Target(r)].status = status]
    BY <1>5 DEF CommitSubmit, CommitApprove, CommitStatus, Target
  <2>2. Target(r) \in Sheets /\ MayFinish(r) /\ req[r].at \in Locking
    BY <1>5 DEF CommitSubmit, CommitApprove, CommitStatus, RequestsPlaced, GuardsKept, Locking
  <2>3. SameLines(Target(r)) /\ sheets'[Target(r)].details.posted = sheets[Target(r)].details.posted
    BY <2>1, <2>2 DEF SameLines, TimesheetsTypeOK
  <2>4. \A s \in Sheets \ {Target(r)} : sheets'[s] = sheets[s] BY <2>1, <2>2 DEF TimesheetsTypeOK
  <2>5. CASE CommitSubmit(r) BY <2>3, <2>4, <2>5 DEF RowStep, Submitted
  <2>6. CASE CommitApprove(r)
    <3>1. req[r].op = "approve" BY <2>6 DEF CommitApprove, CommitStatus
    <3>2. sheets[Target(r)].status = "needs_review" BY <2>2, <3>1 DEF MayFinish, Allowed
    <3> QED BY <2>2, <2>3, <2>4, <3>2 DEF RowStep, Decided, ActiveStatuses
  <2> QED BY <1>5, <2>5, <2>6
<1>6. CASE CommitPost(r)
  <2>1. sheets' = [sheets EXCEPT ![Target(r)].details.posted = TRUE] /\ Target(r) \in Sheets
    BY <1>6 DEF CommitPost, Target, RequestsPlaced
  <2>2. SameLines(Target(r)) /\ sheets'[Target(r)].status = sheets[Target(r)].status
    BY <2>1, RowEffects DEF SameLines, TimesheetsTypeOK, Row
  <2>3. \A s \in Sheets \ {Target(r)} : sheets'[s] = sheets[s] BY <2>1 DEF TimesheetsTypeOK
  <2> QED BY <1>6, <2>2, <2>3 DEF RowStep, Posted
<1>7. ASSUME NEW n \in Sheets, InsertRevision(r, n) PROVE RowStep(t)
  <2>1. /\ sheets' = [sheets EXCEPT ![n] = [sheets[Target(r)] EXCEPT !.status = "draft", !.details.version = @ + 1]]
        /\ Target(r) \in Sheets /\ sheets[n].status = "absent"
        /\ Allowed(req[r].op, sheets[Target(r)]) /\ req[r].op \in {"revise", "reopen"}
    BY <1>7 DEF InsertRevision, Target, RequestsPlaced, GuardsKept, MayFinish, Locking
  <2>2. ~sheets[Target(r)].details.posted BY <2>1 DEF Allowed
  <2>3. sheets'[n].status = "draft" /\ sheets'[n].details.posted = sheets[Target(r)].details.posted
    BY <2>1, RowEffects DEF TimesheetsTypeOK, Row
  <2>4. sheets'[n].details.posted = FALSE BY <2>1, <2>2, <2>3 DEF TimesheetsTypeOK, Details
  <2>5. \A s \in Sheets \ {n} : sheets'[s] = sheets[s] BY <2>1 DEF TimesheetsTypeOK
  <2> QED BY <2>1, <2>3, <2>4, <2>5 DEF RowStep, Drafted
<1> QED
  BY <1>1, <1>2, <1>3, <1>4, <1>5, <1>6, <1>7 DEF BeginRequest, Proceed, Crash, LockSheet, Refresh, LockProject,
     LockDay, ScanRow, NoConflictFound, PostingBlocked, ConflictFound, DeadlockVictim

\* Every step of the system does.
LEMMA AnyRowStep ==
  ASSUME TimesheetsInv, TimesheetsNext, NEW t \in Sheets
  PROVE  RowStep(t)
<1> USE DEF TimesheetsInv, RequestsInv
<1>1. ASSUME NEW s \in Sheets, Reject(s) \/ Void(s) \/ Export(s) PROVE RowStep(t)
  <2>1. PICK to \in {"rejected", "void", "exported"} :
          /\ sheets' = [sheets EXCEPT ![s].status = to]
          /\ sheets[s].status # "absent"
          /\ to = "exported" => sheets[s].status = "approved"
    BY <1>1 DEF Reject, Void, Export, ChangeStatus
  <2>2. SameLines(s) /\ sheets'[s].details.posted = sheets[s].details.posted /\ sheets'[s].status = to
    BY <2>1 DEF SameLines, TimesheetsTypeOK
  <2>3. \A u \in Sheets \ {s} : sheets'[u] = sheets[u] BY <2>1 DEF TimesheetsTypeOK
  <2> QED BY <2>1, <2>2, <2>3 DEF RowStep, Decided, ActiveStatuses
<1>2. ASSUME NEW e \in Employees, NEW d \in Days, CreateTimeEntry(e, d) PROVE RowStep(t)
  BY <1>2 DEF CreateTimeEntry, RowStep
<1> QED BY <1>1, <1>2, RequestRowStep DEF TimesheetsNext

-----------------------------------------------------------------------------
(* Active sheets, and what is paid for them.                               *)

\* A sheet that is submitted keeps its lines, and is made active by a submission.
LEMMA ActivesKept ==
  ASSUME TimesheetsInv, TimesheetsNext, NEW s \in Sheets
  PROVE  /\ sheets[s].status \notin {"absent", "draft"} => SameLines(s)
         /\ Active(s)' /\ ~Active(s) =>
              \E r \in Requests : CommitSubmit(r) /\ Target(r) = s /\ SameLines(s)
         /\ Active(s)' => SameLines(s)
<1>1. RowStep(s) BY AnyRowStep
<1>2. sheets'[s] = sheets[s] => SameLines(s) /\ (Active(s)' <=> Active(s)) BY DEF SameLines, Active
<1> QED BY <1>1, <1>2 DEF RowStep, Drafted, Decided, Submitted, Posted, Active, ActiveStatuses

\* Whoever is at the commit was there before and has the row unchanged, or has
\* just found no conflict.
LEMMA CommitReached ==
  ASSUME TimesheetsInv, Patient, TimesheetsNext, NEW q \in Requests, req'[q].at = "commit"
  PROVE  \/ req'[q] = req[q] /\ sheets'[Target(q)] = sheets[Target(q)] /\ Target(q) \in Sheets
         \/ NoConflictFound(q) /\ UNCHANGED <<sheets, entries>> /\ Target(q)' = Target(q)
<1> USE DEF TimesheetsInv, RequestsInv, locks
<1>1. ASSUME NEW r \in Requests, BeginRequest(r) \/ Proceed(r) \/ Crash(r), r # q
      PROVE  req'[q] = req[q] /\ sheets'[Target(q)] = sheets[Target(q)] /\ Target(q) \in Sheets
  <2>1. Kept(r) BY <1>1, BeginKeeps, ProceedKeeps, EndKeeps DEF Crash
  <2>2. req'[q] = req[q] BY <1>1, <2>1 DEF Kept
  <2>3. Target(q) \in Sheets /\ rowLock[Target(q)] = q
    BY <2>2 DEF LocksHeld, HoldsLocks, RequestsPlaced, Locking
  <2> QED BY <1>1, <2>1, <2>2, <2>3 DEF Kept
<1>2. ASSUME BeginRequest(q) PROVE FALSE
  <2>1. ASSUME NEW s \in Sheets, NEW uses \in Payloads, NEW day \in Days,
               CreateDraft(q, s, uses, day) \/ EditDraft(q, s, uses, day)
        PROVE  FALSE
    <3>1. req' = [req EXCEPT ![q] = [op |-> "save", sheet |-> s, at |-> "refresh"]]
      BY <2>1 DEF CreateDraft, EditDraft
    <3> QED BY <3>1 DEF TimesheetsTypeOK
  <2>2. ASSUME NEW s \in Sheets, NEW op \in Operations \ {"save"}, LockSheet(q, op, s)
        PROVE  FALSE
    <3>1. req' = [req EXCEPT ![q] = [op |-> op, sheet |-> s, at |-> FirstStep(op)]]
      BY <2>2 DEF LockSheet
    <3>2. FirstStep(op) # "commit" BY DEF FirstStep, Operations
    <3> QED BY <3>1, <3>2 DEF TimesheetsTypeOK
  <2> QED BY <1>2, <2>1, <2>2 DEF BeginRequest
<1>3. ASSUME EndTransaction(q) PROVE FALSE
  BY <1>3, EndTypes DEF Idle
<1>4. ASSUME Proceed(q) PROVE NoConflictFound(q) /\ UNCHANGED <<sheets, entries>> /\ Target(q)' = Target(q)
  <2>1. ASSUME Refresh(q) \/ SetRoot(q) \/ LockProject(q) \/ LockDay(q) \/ ScanRow(q) PROVE FALSE
    BY <2>1 DEF Refresh, SetRoot, LockProject, LockDay, ScanRow, Goto, Idle, TimesheetsTypeOK
  <2>2. NoConflictFound(q)
    BY <1>3, <1>4, <2>1 DEF Proceed, PostingBlocked, ConflictFound, DeadlockVictim, CommitSubmit, CommitApprove,
       CommitStatus, CommitPost, InsertRevision
  <2> QED BY <2>2 DEF NoConflictFound, Goto, Target, TimesheetsTypeOK
<1>5. ASSUME NEW s \in Sheets, Reject(s) \/ Void(s) \/ Export(s)
      PROVE  req'[q] = req[q] /\ sheets'[Target(q)] = sheets[Target(q)] /\ Target(q) \in Sheets
  <2>1. rowLock[s] = None /\ UNCHANGED req /\ \A t \in Sheets \ {s} : sheets'[t] = sheets[t]
    BY <1>5 DEF Reject, Void, Export, ChangeStatus, Free, TimesheetsTypeOK
  <2>2. Target(q) \in Sheets /\ rowLock[Target(q)] = q
    BY <2>1 DEF LocksHeld, HoldsLocks, RequestsPlaced, Locking
  <2>3. Target(q) # s BY <2>1, <2>2, TimesheetsAssumption
  <2> QED BY <2>1, <2>2, <2>3
<1>6. ASSUME NEW e \in Employees, NEW d \in Days, CreateTimeEntry(e, d)
      PROVE  req'[q] = req[q] /\ sheets'[Target(q)] = sheets[Target(q)] /\ Target(q) \in Sheets
  BY <1>6 DEF CreateTimeEntry, RequestsPlaced
<1> QED BY <1>1, <1>2, <1>3, <1>4, <1>5, <1>6 DEF TimesheetsNext, Crash

\* No step books twice: who is at the commit has the day's lock, and only a
\* submission at the commit makes a sheet active.
LEMMA BookingStep ==
  ASSUME TimesheetsInv, Patient, TimesheetsNext, RequestsInv'
  PROVE  CommitsClear' /\ NoDoubleBooking'
<1> USE DEF TimesheetsInv, RequestsInv
<1>1. ASSUME NEW r \in Requests, CommitSubmit(r)
      PROVE  /\ req[r].at = "commit" /\ Target(r) \in Sheets /\ req'[r].at = "idle"
             /\ dayLock[sheets[Target(r)].day] = r
  BY <1>1, EndTypes DEF CommitSubmit, CommitStatus, RequestsPlaced, LocksHeld, HoldsLocks, Idle
<1>2. ASSUME NEW s \in Sheets, SameLines(s)
      PROVE  Root(s)' = Root(s) /\ Uses(s)' = Uses(s) /\ sheets'[s].day = sheets[s].day
  BY <1>2 DEF SameLines, Root, Uses
<1>3. CommitsClear'
  <2> SUFFICES ASSUME NEW q \in Requests, req'[q].at = "commit", NEW o \in Others(Target(q))',
                      Root(o)' # Root(Target(q))'
               PROVE  Uses(o)' \cap Uses(Target(q))' = {}
    BY DEF CommitsClear
  <2>1. CASE NoConflictFound(q) /\ UNCHANGED <<sheets, entries>> /\ Target(q)' = Target(q)
    BY <2>1 DEF NoConflictFound, Conflicts, Others, Root, Uses, Target
  <2>2. CASE req'[q] = req[q] /\ sheets'[Target(q)] = sheets[Target(q)] /\ Target(q) \in Sheets
    <3>1. Target(q)' = Target(q) BY <2>2 DEF Target
    <3>2. /\ o \in Sheets /\ o # Target(q) /\ Active(o)'
          /\ sheets'[o].day = sheets[Target(q)].day
      BY <2>2, <3>1 DEF Others, Active
    <3>3. SameLines(o) BY <3>2, ActivesKept
    <3>4. SameLines(Target(q)) BY <2>2 DEF SameLines
    <3>5. Active(o)
      <4> SUFFICES ASSUME ~Active(o) PROVE FALSE OBVIOUS
      <4>1. PICK r \in Requests : CommitSubmit(r) /\ Target(r) = o BY <3>2, ActivesKept
      <4>2. dayLock[sheets[o].day] = r /\ req'[r].at = "idle" BY <1>1, <4>1
      <4>3. dayLock[sheets[Target(q)].day] = q BY <2>2 DEF LocksHeld, HoldsLocks
      <4> QED BY <3>2, <3>3, <4>2, <4>3 DEF SameLines
    <3>6. o \in Others(Target(q)) BY <3>2, <3>3, <3>5 DEF Others, Active, SameLines
    <3>7. Root(o) # Root(Target(q)) BY <1>2, <2>2, <3>1, <3>2, <3>3, <3>4
    <3>8. Uses(o) \cap Uses(Target(q)) = {} BY <2>2, <3>6, <3>7 DEF CommitsClear
    <3> QED BY <1>2, <2>2, <3>1, <3>2, <3>3, <3>4, <3>8
  <2> QED BY <2>1, <2>2, CommitReached
<1>4. NoDoubleBooking'
  <2> SUFFICES ASSUME NEW s \in Sheets, NEW t \in Sheets, Active(s)', Active(t)',
                      sheets'[s].day = sheets'[t].day, Root(s)' # Root(t)'
               PROVE  Uses(s)' \cap Uses(t)' = {}
    BY DEF NoDoubleBooking
  <2>1. SameLines(s) /\ SameLines(t) BY ActivesKept
  <2>2. Root(s) # Root(t) /\ sheets[s].day = sheets[t].day BY <1>2, <2>1
  <2>3. ASSUME NEW u \in Sheets, NEW v \in Sheets, Active(u)', ~Active(u), Active(v)', Root(u) # Root(v),
               sheets[u].day = sheets[v].day
        PROVE  Uses(u) \cap Uses(v) = {}
    <3>1. PICK r \in Requests : CommitSubmit(r) /\ Target(r) = u BY <2>3, ActivesKept
    <3>2. Active(v)
      <4> SUFFICES ASSUME ~Active(v) PROVE FALSE OBVIOUS
      <4>1. PICK q \in Requests : CommitSubmit(q) /\ Target(q) = v BY <2>3, ActivesKept
      <4>2. q = r BY <1>1, <2>3, <3>1, <4>1
      <4> QED BY <2>3, <3>1, <4>1, <4>2
    <3>3. v \in Others(u) BY <2>3, <3>2 DEF Others, Active
    <3> QED BY <1>1, <2>3, <3>1, <3>3 DEF CommitsClear
  <2>4. Uses(s) \cap Uses(t) = {}
    BY <2>2, <2>3 DEF NoDoubleBooking
  <2> QED BY <1>2, <2>1, <2>4
<1> QED BY <1>3, <1>4

-----------------------------------------------------------------------------
(* Time entries.                                                           *)

\* How many intervals of an employee a sheet has.
Splits(s, e) == Cardinality({x \in Slots : <<e, x>> \in Uses(s)})

\* The number is positive for its crew only.
LEMMA SplitsOfCrew ==
  ASSUME NEW s \in Sheets, NEW e \in Employees
  PROVE  Splits(s, e) \in Nat /\ (Splits(s, e) > 0 => e \in Crew(s))
<1> DEFINE slots == {x \in Slots : <<e, x>> \in Uses(s)}
<1>1. IsFiniteSet(slots) BY TimesheetsAssumption, FS_Subset
<1>2. Cardinality(slots) \in Nat BY <1>1, FS_CardinalityType
<1>3. slots = {} => Cardinality(slots) = 0 BY FS_EmptySet
<1>4. slots # {} => e \in Crew(s) BY DEF Crew
<1> QED BY <1>2, <1>3, <1>4 DEF Splits

\* A post adds its sheet's entries on its sheet's day and changes no other.
LEMMA PostEntries ==
  ASSUME TimesheetsInv, NEW r \in Requests, CommitPost(r)
  PROVE  /\ Target(r) \in Sheets /\ projectLock = r /\ req'[r].at = "idle"
         /\ ~sheets[Target(r)].details.posted /\ sheets'[Target(r)].details.posted
         /\ SameLines(Target(r))
         /\ \A s \in Sheets \ {Target(r)} : sheets'[s] = sheets[s]
         /\ ~HasEntries(Target(r))
         /\ \A e \in Employees, d \in Days, o \in Origins :
              entries'[<<e, d>>][o] = IF o = Target(r) /\ d = sheets[Target(r)].day
                                      THEN entries[<<e, d>>][o] + Splits(Target(r), e)
                                      ELSE entries[<<e, d>>][o]
<1> USE DEF TimesheetsInv, RequestsInv
<1> DEFINE s == Target(r)
           splits(e) == Splits(s, e)
<1>1. /\ s \in Sheets /\ req[r].op = "post" /\ req[r].at = "commit" /\ EndTransaction(r)
      /\ sheets' = [sheets EXCEPT ![s].details.posted = TRUE]
      /\ entries' = [x \in Employees \X Days |->
                       IF x[2] = sheets[s].day THEN [entries[x] EXCEPT ![s] = @ + splits(x[1])] ELSE entries[x]]
  BY DEF CommitPost, RequestsPlaced, Target, Splits
<1>2. projectLock = r /\ ~HasEntries(s)
  BY <1>1 DEF LocksHeld, HoldsLocks, PostsUnpaid, Checking
<1>3. req'[r].at = "idle" BY <1>1, EndTypes DEF Idle
<1>4. ~sheets[s].details.posted
  <2>1. MayFinish(r) BY DEF GuardsKept
  <2> QED BY <1>1, <2>1 DEF MayFinish, Allowed, Locking
<1>5. SameLines(s) /\ sheets'[s].details.posted
  BY <1>1, RowEffects DEF SameLines, TimesheetsTypeOK, Row
<1>6. \A t \in Sheets \ {s} : sheets'[t] = sheets[t] BY <1>1 DEF TimesheetsTypeOK
<1>7. \A e \in Employees, d \in Days, o \in Origins :
        entries'[<<e, d>>][o] = IF o = s /\ d = sheets[s].day
                                THEN entries[<<e, d>>][o] + splits(e) ELSE entries[<<e, d>>][o]
  <2> HIDE DEF splits, s
  <2> QED BY <1>1 DEF TimesheetsTypeOK
<1> QED BY <1>1, <1>2, <1>3, <1>4, <1>5, <1>6, <1>7

\* Any other step leaves the entries of the sheets as they are.
LEMMA OtherEntries ==
  ASSUME TimesheetsInv, TimesheetsNext, \A r \in Requests : ~CommitPost(r)
  PROVE  /\ \A x \in Employees \X Days, s \in Sheets : entries'[x][s] = entries[x][s]
         /\ projectLock # None => UNCHANGED entries
<1> USE DEF TimesheetsInv, RequestsInv, locks
<1>1. ASSUME NEW e \in Employees, NEW d \in Days, CreateTimeEntry(e, d)
      PROVE  /\ \A x \in Employees \X Days, s \in Sheets : entries'[x][s] = entries[x][s]
             /\ projectLock = None
  <2>1. entries' = [entries EXCEPT ![<<e, d>>][Manual] = @ + 1] /\ projectLock = None
    BY <1>1 DEF CreateTimeEntry, JobRowFree
  <2>2. \A s \in Sheets : s # Manual /\ s \in Origins BY TimesheetsAssumption DEF Manual, Origins
  <2> QED BY <2>1, <2>2 DEF TimesheetsTypeOK
<1>2. ASSUME NEW s \in Sheets, Reject(s) \/ Void(s) \/ Export(s) PROVE UNCHANGED entries
  BY <1>2 DEF Reject, Void, Export, ChangeStatus
<1>3. ASSUME NEW r \in Requests, BeginRequest(r) PROVE UNCHANGED entries
  BY <1>3, ZenonT(40) DEF BeginRequest, CreateDraft, EditDraft, LockSheet
<1>4. ASSUME NEW r \in Requests, Proceed(r) PROVE UNCHANGED entries
  BY <1>4 DEF Proceed, Refresh, SetRoot, LockProject, PostingBlocked, LockDay, ScanRow, ConflictFound,
     NoConflictFound, CommitSubmit, CommitApprove, CommitStatus, InsertRevision, DeadlockVictim
<1>5. ASSUME NEW r \in Requests, Crash(r) PROVE UNCHANGED entries BY <1>5 DEF Crash
<1> QED BY <1>1, <1>2, <1>3, <1>4, <1>5 DEF TimesheetsNext

\* No step pays twice: who posts has the project's lock from before its scan.
LEMMA PaymentStep ==
  ASSUME TimesheetsInv, Patient, TimesheetsNext, RequestsInv'
  PROVE  PostsUnpaid' /\ PaidFromOneSheet' /\ PostedExactly'
<1> USE DEF TimesheetsInv, RequestsInv
<1>1. PostsUnpaid'
  <2> SUFFICES ASSUME NEW q \in Requests, req'[q].at = "commit", req'[q].op = "post"
               PROVE  ~HasEntries(Target(q))'
    BY DEF PostsUnpaid
  <2>1. CASE NoConflictFound(q) /\ UNCHANGED <<sheets, entries>> /\ Target(q)' = Target(q)
    BY <2>1 DEF NoConflictFound, Conflicts, HasEntries, Crew, Uses, Target
  <2>2. CASE req'[q] = req[q] /\ sheets'[Target(q)] = sheets[Target(q)] /\ Target(q) \in Sheets
    <3>1. projectLock = q /\ ~HasEntries(Target(q))
      BY <2>2 DEF LocksHeld, HoldsLocks, PostsUnpaid, Checking
    <3>2. UNCHANGED entries
      <4>1. \A r \in Requests : ~CommitPost(r) BY <2>2, <3>1, PostEntries
      <4> QED BY <3>1, <4>1, OtherEntries, TimesheetsAssumption
    <3> QED BY <2>2, <3>1, <3>2 DEF HasEntries, Crew, Uses, Target
  <2> QED BY <2>1, <2>2, CommitReached
<1>2. CASE \E r \in Requests : CommitPost(r)
  <2>1. PICK r \in Requests : CommitPost(r) BY <1>2
  <2>s. PICK s \in Sheets : s = Target(r) BY <2>1, PostEntries
  <2>2. /\ s \in Origins
        /\ ~HasEntries(s) /\ ~sheets[s].details.posted /\ sheets'[s].details.posted /\ SameLines(s)
        /\ \A t \in Sheets \ {s} : sheets'[t] = sheets[t]
        /\ \A e \in Employees, d \in Days, o \in Origins :
             entries'[<<e, d>>][o] = IF o = s /\ d = sheets[s].day
                                     THEN entries[<<e, d>>][o] + Splits(s, e) ELSE entries[<<e, d>>][o]
    BY <2>1, <2>s, PostEntries DEF Origins
  <2>3. \A e \in Employees : Splits(s, e) \in Nat /\ (Splits(s, e) > 0 => e \in Crew(s))
    BY <2>2, SplitsOfCrew
  <2>4. \A e \in Employees, d \in Days, o \in Origins : entries[<<e, d>>][o] \in Nat
    BY DEF TimesheetsTypeOK
  <2>5. PaidFromOneSheet'
    <3>1. ASSUME NEW e \in Employees, NEW d \in Days, NEW t \in Sheets \ {s},
                 entries'[<<e, d>>][s] > 0, entries'[<<e, d>>][t] > 0
          PROVE  FALSE
      <4>1. t \in Origins BY DEF Origins
      <4>2. entries[<<e, d>>][t] > 0 BY <2>2, <3>1, <4>1
      <4>3. entries[<<e, d>>][s] = 0 BY <2>2, <2>4, <4>2 DEF PaidFromOneSheet
      <4>4. d = sheets[s].day /\ Splits(s, e) > 0 BY <2>2, <2>3, <3>1, <4>3
      <4>5. e \in Crew(s) BY <2>3, <4>4
      <4> QED BY <2>2, <4>1, <4>2, <4>4, <4>5 DEF HasEntries
    <3>2. ASSUME NEW e \in Employees, NEW d \in Days, NEW t \in Sheets \ {s}
          PROVE  entries'[<<e, d>>][t] = entries[<<e, d>>][t]
      BY <2>2 DEF Origins
    <3>3. ASSUME NEW e \in Employees, NEW d \in Days, NEW a \in Sheets, NEW b \in Sheets,
                 entries'[<<e, d>>][a] > 0, entries'[<<e, d>>][b] > 0
          PROVE  a = b
      <4>1. CASE a = s \/ b = s BY <3>1, <3>3, <4>1
      <4>2. CASE a # s /\ b # s BY <3>2, <3>3, <4>2 DEF PaidFromOneSheet
      <4> QED BY <4>1, <4>2
    <3> QED BY <3>3 DEF PaidFromOneSheet
  <2>6. PostedExactly'
    <3> SUFFICES ASSUME NEW t \in Sheets, NEW e \in Employees, NEW d \in Days
                 PROVE  entries'[<<e, d>>][t] = IF sheets'[t].details.posted /\ sheets'[t].day = d
                                                THEN Splits(t, e)' ELSE 0
      BY DEF PostedExactly, Splits
    <3>1. entries[<<e, d>>][t] = IF sheets[t].details.posted /\ sheets[t].day = d THEN Splits(t, e) ELSE 0
      BY DEF PostedExactly, Splits
    <3>2. CASE t = s
      <4>1. Splits(s, e)' = Splits(s, e) /\ sheets'[s].day = sheets[s].day
        BY <2>2 DEF SameLines, Splits, Uses
      <4>2. entries[<<e, d>>][s] = 0 BY <2>2, <3>1, <3>2
      <4>3. entries'[<<e, d>>][s] = IF d = sheets[s].day THEN 0 + Splits(s, e) ELSE 0 BY <2>2, <4>2
      <4> QED BY <2>2, <2>3, <3>2, <4>1, <4>3
    <3>3. CASE t # s
      <4>1. sheets'[t] = sheets[t] /\ Splits(t, e)' = Splits(t, e) BY <2>2, <3>3, ZenonT(40) DEF Splits, Uses
      <4>2. entries'[<<e, d>>][t] = entries[<<e, d>>][t] BY <2>2, <3>3 DEF Origins
      <4> QED BY <3>1, <4>1, <4>2
    <3> QED BY <3>2, <3>3
  <2> QED BY <1>1, <2>5, <2>6
<1>3. CASE \A r \in Requests : ~CommitPost(r)
  <2>1. \A x \in Employees \X Days, s \in Sheets : entries'[x][s] = entries[x][s] BY <1>3, OtherEntries
  <2>2. PaidFromOneSheet' BY <2>1 DEF PaidFromOneSheet
  <2>3. PostedExactly'
    <3> SUFFICES ASSUME NEW t \in Sheets, NEW e \in Employees, NEW d \in Days
                 PROVE  entries'[<<e, d>>][t] = IF sheets'[t].details.posted /\ sheets'[t].day = d
                                                THEN Splits(t, e)' ELSE 0
      BY DEF PostedExactly, Splits
    <3>1. entries'[<<e, d>>][t] = IF sheets[t].details.posted /\ sheets[t].day = d THEN Splits(t, e) ELSE 0
      BY <2>1 DEF PostedExactly, Splits
    <3>2. CASE Drafted(t)
      <4>1. ~sheets[t].details.posted BY <3>2 DEF Drafted, OnlyApprovedPosted
      <4> QED BY <3>1, <3>2, <4>1 DEF Drafted
    <3>3. CASE SameLines(t) /\ sheets'[t].details.posted = sheets[t].details.posted
      BY <3>1, <3>3 DEF SameLines, Splits, Uses
    <3>4. CASE sheets'[t] = sheets[t] BY <3>1, <3>4 DEF Splits, Uses
    <3> QED BY <1>3, <3>2, <3>3, <3>4, AnyRowStep DEF RowStep, Decided, Submitted, Posted
  <2> QED BY <1>1, <2>2, <2>3
<1> QED BY <1>2, <1>3

-----------------------------------------------------------------------------
(* The steps of the specification.                                         *)

\* The initial states.
LEMMA RequestsInit == TimesheetsInit => RequestsInv
<1> SUFFICES ASSUME TimesheetsInit PROVE RequestsInv OBVIOUS
<1> USE TimesheetsAssumption DEF TimesheetsInit
<1>1. NoDetails \in Details BY DEF NoDetails, Details
<1>2. NoSheet \in Row BY <1>1 DEF NoSheet, Row, SheetStatuses
<1>3. Idle \in Request BY DEF Idle, Request, Operations, Steps
<1>4. TimesheetsTypeOK BY <1>1, <1>2, <1>3 DEF TimesheetsTypeOK, Row, Request
<1>5. RequestsPlaced BY DEF RequestsPlaced, Idle, Checking
<1> QED BY <1>4, <1>5 DEF RequestsInv

\* The types are inductive by themselves, for every client.
LEMMA RequestsStep == RequestsInv /\ [TimesheetsNext]_timesheetVars => RequestsInv'
<1> SUFFICES ASSUME RequestsInv, [TimesheetsNext]_timesheetVars PROVE RequestsInv' OBVIOUS
<1> USE DEF RequestsInv, locks
<1>1. CASE UNCHANGED timesheetVars
  BY <1>1 DEF timesheetVars, TimesheetsTypeOK, RequestsPlaced, Target
<1>2. ASSUME NEW r \in Requests, Crash(r) PROVE RequestsInv' BY <1>2, Rollback DEF Crash
<1>3. ASSUME NEW s \in Sheets, Reject(s) \/ Void(s) \/ Export(s) PROVE RequestsInv'
  <2>1. PICK to \in SheetStatuses : sheets' = [sheets EXCEPT ![s].status = to]
                                    /\ UNCHANGED <<entries, req, copy, locks>>
    BY <1>3 DEF Reject, Void, Export, ChangeStatus, SheetStatuses, ActiveStatuses
  <2>2. sheets' \in [Sheets -> Row] BY <2>1, RowTypes DEF TimesheetsTypeOK, Row
  <2>3. TimesheetsTypeOK' BY <2>1, <2>2 DEF TimesheetsTypeOK, Row
  <2>4. RequestsPlaced' BY <2>1 DEF RequestsPlaced, Target
  <2> QED BY <2>3, <2>4
<1>4. ASSUME NEW e \in Employees, NEW d \in Days, CreateTimeEntry(e, d) PROVE RequestsInv'
  <2>1. entries' \in [Employees \X Days -> [Origins -> Nat]]
    <3>1. <<e, d>> \in Employees \X Days /\ Manual \in Origins BY DEF Origins
    <3>2. entries[<<e, d>>] \in [Origins -> Nat] BY <3>1 DEF TimesheetsTypeOK
    <3>3. [entries[<<e, d>>] EXCEPT ![Manual] = @ + 1] \in [Origins -> Nat] BY <3>1, <3>2
    <3>4. entries' = [entries EXCEPT ![<<e, d>>] = [entries[<<e, d>>] EXCEPT ![Manual] = @ + 1]]
      BY <1>4, <3>1 DEF CreateTimeEntry, TimesheetsTypeOK
    <3> QED BY <3>1, <3>3, <3>4 DEF TimesheetsTypeOK
  <2>2. UNCHANGED <<sheets, req, copy, locks>> BY <1>4 DEF CreateTimeEntry
  <2>3. TimesheetsTypeOK' BY <2>1, <2>2 DEF TimesheetsTypeOK
  <2>4. RequestsPlaced' BY <2>2 DEF RequestsPlaced, Target
  <2> QED BY <2>3, <2>4
<1> QED BY <1>1, <1>2, <1>3, <1>4, TypesBegin, TypesProceed DEF TimesheetsNext

\* The initial states satisfy the invariant.
LEMMA InvInit == TimesheetsInit => TimesheetsInv
<1> SUFFICES ASSUME TimesheetsInit PROVE TimesheetsInv OBVIOUS
<1> USE TimesheetsAssumption DEF TimesheetsInit
<1>1. RequestsInv BY RequestsInit
<1>2. \A r \in Requests : req[r].at = "idle" BY DEF Idle
<1>3. \A s \in Sheets : sheets[s].status = "absent" /\ ~sheets[s].details.posted BY DEF NoSheet, NoDetails
<1>4. LocksHeld BY <1>2 DEF LocksHeld, HoldsLocks, Locking, Checking
<1>5. GuardsKept BY <1>2 DEF GuardsKept, MayFinish, Locking
<1>6. LockedRowsExist BY DEF LockedRowsExist
<1>7. SavesUndisturbed BY <1>2 DEF SavesUndisturbed, HasItsDraft, Saving
<1>8. OnlyApprovedPosted BY <1>3 DEF OnlyApprovedPosted
<1>9. CommitsClear /\ PostsUnpaid BY <1>2 DEF CommitsClear, PostsUnpaid
<1>10. NoDoubleBooking BY <1>3 DEF NoDoubleBooking, Active, ActiveStatuses
<1>11. \A x \in Employees \X Days, s \in Sheets : entries[x][s] = 0 BY DEF Origins
<1>12. PaidFromOneSheet /\ PostedExactly BY <1>3, <1>11 DEF PaidFromOneSheet, PostedExactly
<1> QED BY <1>1, <1>4, <1>5, <1>6, <1>7, <1>8, <1>9, <1>10, <1>12 DEF TimesheetsInv

\* Nothing of the invariant is about more than the current state.
LEMMA InvStutter == TimesheetsInv /\ UNCHANGED timesheetVars => TimesheetsInv'
<1> SUFFICES ASSUME TimesheetsInv, UNCHANGED timesheetVars PROVE TimesheetsInv' OBVIOUS
<1> USE DEF timesheetVars, locks, TimesheetsInv
<1>1. RequestsInv' BY RequestsStep
<1>2. LocksHeld' BY DEF LocksHeld, HoldsLocks, Target
<1>3. GuardsKept' BY DEF GuardsKept, MayFinish, Target
<1>4. LockedRowsExist' BY DEF LockedRowsExist
<1>5. SavesUndisturbed' BY DEF SavesUndisturbed, HasItsDraft, Target
<1>6. OnlyApprovedPosted' BY DEF OnlyApprovedPosted
<1>7. CommitsClear' BY DEF CommitsClear, Others, Root, Uses, Target
<1>8. PostsUnpaid' BY DEF PostsUnpaid, HasEntries, Crew, Uses, Target
<1>9. NoDoubleBooking' BY DEF NoDoubleBooking, Active, Root, Uses
<1>10. PaidFromOneSheet' BY DEF PaidFromOneSheet
<1>11. PostedExactly'
  <2> SUFFICES ASSUME NEW t \in Sheets, NEW e \in Employees, NEW d \in Days
               PROVE  entries'[<<e, d>>][t] = IF sheets'[t].details.posted /\ sheets'[t].day = d
                                              THEN Splits(t, e)' ELSE 0
    BY DEF PostedExactly, Splits
  <2>1. Splits(t, e)' = Splits(t, e) BY DEF Splits, Uses
  <2>2. entries[<<e, d>>][t] = IF sheets[t].details.posted /\ sheets[t].day = d THEN Splits(t, e) ELSE 0
    BY DEF PostedExactly, Splits
  <2> QED BY <2>1, <2>2
<1> QED BY <1>1, <1>2, <1>3, <1>4, <1>5, <1>6, <1>7, <1>8, <1>9, <1>10, <1>11

\* The invariant is inductive.
LEMMA InvStep ==
  ASSUME TimesheetsInv, Patient, [TimesheetsNext]_timesheetVars
  PROVE  TimesheetsInv'
<1>1. CASE UNCHANGED timesheetVars BY <1>1, InvStutter
<1>2. CASE TimesheetsNext
  <2>1. RequestsInv' BY <1>2, RequestsStep DEF TimesheetsInv
  <2>2. LocksHeld' /\ GuardsKept' /\ SavesUndisturbed' /\ LockedRowsExist' /\ OnlyApprovedPosted'
    <3>1. ASSUME NEW s \in Sheets, Reject(s) \/ Void(s) \/ Export(s)
          PROVE  LocksHeld' /\ GuardsKept' /\ SavesUndisturbed' /\ LockedRowsExist' /\ OnlyApprovedPosted'
      <4>1. CASE Reject(s) BY <4>1, StatusControlled DEF Reject
      <4>2. CASE Void(s) BY <4>2, StatusControlled DEF Void
      <4>3. CASE Export(s) BY <4>3, StatusControlled DEF Export
      <4> QED BY <3>1, <4>1, <4>2, <4>3
    <3>2. ASSUME NEW e \in Employees, NEW d \in Days, CreateTimeEntry(e, d)
          PROVE  LocksHeld' /\ GuardsKept' /\ SavesUndisturbed' /\ LockedRowsExist' /\ OnlyApprovedPosted'
      <4>1. UNCHANGED <<sheets, req, copy, rowLock, dayLock, projectLock>> BY <3>2 DEF CreateTimeEntry, locks
      <4> QED BY <4>1 DEF TimesheetsInv, LocksHeld, HoldsLocks, GuardsKept, MayFinish, SavesUndisturbed,
                          HasItsDraft, LockedRowsExist, OnlyApprovedPosted, Target
    <3>3. ASSUME NEW r \in Requests, Crash(r)
          PROVE  LocksHeld' /\ GuardsKept' /\ SavesUndisturbed' /\ LockedRowsExist' /\ OnlyApprovedPosted'
      BY <3>3, RollbackControlled DEF Crash
    <3> QED BY <1>2, <2>1, <3>1, <3>2, <3>3, BeginControlled, ProceedControlled DEF TimesheetsNext
  <2>3. CommitsClear' /\ NoDoubleBooking' BY <1>2, <2>1, BookingStep
  <2>4. PostsUnpaid' /\ PaidFromOneSheet' /\ PostedExactly' BY <1>2, <2>1, PaymentStep
  <2> QED BY <2>1, <2>2, <2>3, <2>4 DEF TimesheetsInv
<1> QED BY <1>1, <1>2

-----------------------------------------------------------------------------
(* Theorems.                                                               *)

\* The rows, the entries, the requests and the locks have their types, and a
\* request past its first lock is about a sheet, whatever the clients do.
THEOREM TimesheetsTyped == TimesheetsSpec => []TimesheetsTypeOK
<1>1. RequestsInv => TimesheetsTypeOK BY DEF RequestsInv
<1> QED BY <1>1, RequestsInit, RequestsStep, PTL DEF TimesheetsSpec

\* The inductive invariant, when no client uses a sheet whose save it has not
\* been answered (Patient).
THEOREM TimesheetsInvariant == ASSUME Patient PROVE TimesheetsSpec => []TimesheetsInv
<1>1. TimesheetsInv /\ [TimesheetsNext]_timesheetVars => TimesheetsInv' BY InvStep
<1> QED BY <1>1, InvInit, PTL DEF TimesheetsSpec

\* Two active sheets of a day that are not versions of each other claim no
\* employee's interval and no machine twice (_lock_project_day and
\* _ensure_no_cross_record_conflicts).
THEOREM NeverDoubleBooked == ASSUME Patient PROVE TimesheetsSpec => []NoDoubleBooking
<1>1. TimesheetsInv => NoDoubleBooking BY DEF TimesheetsInv
<1> QED BY <1>1, TimesheetsInvariant, PTL

\* A posted sheet has exactly one entry for each of its intervals, a sheet that
\* is not posted none, and no employee's day is paid from two sheets
\* (post_time_entries).
THEOREM AlwaysPaidOnce == ASSUME Patient PROVE TimesheetsSpec => []PaidOnceExactly
<1>1. TimesheetsInv => PaidOnceExactly BY DEF TimesheetsInv, RequestsInv, PaidOnceExactly
<1> QED BY <1>1, TimesheetsInvariant, PTL

\* A sheet that left the draft state keeps its day, its lines and its version.
THEOREM SubmittedNeverChanges == ASSUME Patient PROVE TimesheetsSpec => SubmittedImmutable
<1>1. ASSUME TimesheetsInv, [TimesheetsNext]_timesheetVars
      PROVE  [\A s \in Sheets : sheets[s].status \notin {"absent", "draft"} =>
                /\ sheets'[s].day = sheets[s].day
                /\ sheets'[s].details.uses = sheets[s].details.uses
                /\ sheets'[s].details.version = sheets[s].details.version]_timesheetVars
  BY <1>1, ActivesKept DEF SameLines
<1> QED BY <1>1, TimesheetsInvariant, PTL DEF TimesheetsSpec, SubmittedImmutable

============================================================================
