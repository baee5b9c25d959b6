------------------------------- MODULE Receipts -------------------------------
(***************************************************************************)
(* Receipts, their review and their posting to the project ledger          *)
(* (services/receipts.py).  Every command carries the version that its     *)
(* user's screen shows.  approve and export lock the row; update, submit,  *)
(* reconcile and void read it without a lock, and their flush writes the   *)
(* columns that they changed.                                              *)
(***************************************************************************)
EXTENDS Naturals, FiniteSets

CONSTANTS
  Receipts, Images, ImageOf,   \* receipts and what they are a picture of
  Readings,                    \* what the fields and lines of a receipt may say
  Complete,                    \* the readings with no approval blocker of their own
  Reviewers,                   \* users with management's role, at their screens
  MaxVersion                   \* bound on a receipt's version

ASSUME ReceiptsAssumption ==
  /\ 0 \notin Receipts /\ Complete \subseteq Readings /\ MaxVersion \in Nat \ {0}
  /\ ImageOf \in [Receipts -> Images]

VARIABLES
  receipt,     \* the rows with their lines
  screen,      \* the receipt that a reviewer has loaded
  edit,        \* a reviewer's unlocked command between its read and its flush
  creating,    \* receipts being created, each not yet visible to the others
  ledger,      \* the financial entries posted for a receipt: what each says
  agreed,      \* history: what the approver's screen said
  overtaken    \* history: rows written by a command whose read was stale

receiptVars == <<receipt, screen, edit, creating, ledger, agreed, overtaken>>

Editable == {"draft_extraction", "needs_review"}
Approved == {"approved", "exported", "reconciled"}
NoReceipt == [status |-> "absent", version |-> 0, reading |-> 0, duplicate |-> FALSE,
              cleared |-> FALSE]
NoScreen == [r |-> 0, version |-> 0, reading |-> 0]
NoEdit == [at |-> "idle"]
ReceiptRow ==
  [status: Editable \cup Approved \cup {"absent", "void"}, version: 0..MaxVersion,
   reading: Readings \cup {0}, duplicate: BOOLEAN, cleared: BOOLEAN]

ReceiptsInit ==
  /\ receipt = [r \in Receipts |-> NoReceipt]
  /\ screen = [u \in Reviewers |-> NoScreen]
  /\ edit = [u \in Reviewers |-> NoEdit]
  /\ creating = {}
  /\ ledger = [r \in Receipts |-> {}]
  /\ agreed = [r \in Receipts |-> 0]
  /\ overtaken = {}

NextVersion(r) == receipt[r].version + 1

\* _find_duplicate: another receipt of the same picture, not voided.
Twin(r) == \E s \in Receipts \ {r} :
  ImageOf[s] = ImageOf[r] /\ receipt[s].status \notin {"absent", "void"}

----------------------------------------------------------------------------
\* create_receipt looks for a duplicate before its row is visible to others.
BeginCreate(r, reading) ==
  /\ receipt[r] = NoReceipt /\ \A c \in creating : c.r # r
  /\ creating' = creating \cup
       {[r |-> r, row |-> [status |-> "draft_extraction", version |-> 1, reading |-> reading,
                           duplicate |-> Twin(r), cleared |-> FALSE],
         blind |-> \E c \in creating : ImageOf[c.r] = ImageOf[r]]}
  /\ UNCHANGED <<receipt, screen, edit, ledger, agreed, overtaken>>

CommitCreate(c) ==
  /\ c \in creating
  /\ receipt' = [receipt EXCEPT ![c.r] = c.row]
  /\ creating' = creating \ {c}
  /\ overtaken' = IF c.blind THEN overtaken \cup {c.r} ELSE overtaken
  /\ UNCHANGED <<screen, edit, ledger, agreed>>

\* get_receipt
LoadReceipt(u, r) ==
  /\ receipt[r].status # "absent" /\ edit[u] = NoEdit
  /\ screen' = [screen EXCEPT ![u] = [r |-> r, version |-> receipt[r].version,
                                      reading |-> receipt[r].reading]]
  /\ UNCHANGED <<receipt, edit, creating, ledger, agreed, overtaken>>

\* _check_version
Seen(u, r) == screen[u].r = r /\ screen[u].version = receipt[r].version

\* An unlocked command reads the receipt.
BeginEdit(u, op, r, new) ==
  /\ Seen(u, r) /\ edit[u] = NoEdit /\ receipt[r].version < MaxVersion
  /\ edit' = [edit EXCEPT ![u] =
                [at |-> op, r |-> r, read |-> receipt[r],
                 new |-> [new EXCEPT !.version = NextVersion(r)]]]
  /\ UNCHANGED <<receipt, screen, creating, ledger, agreed, overtaken>>

\* update_receipt; management may say that the twin is no duplicate.
BeginCorrection(u, r, reading, cleared) ==
  /\ receipt[r].status \in Editable
  /\ BeginEdit(u, "update", r,
       [receipt[r] EXCEPT !.reading = reading, !.duplicate = Twin(r) /\ ~cleared,
                          !.cleared = Twin(r) /\ cleared])

BeginSubmission(u, r) ==
  /\ receipt[r].status = "draft_extraction"
  /\ BeginEdit(u, "submit", r, [receipt[r] EXCEPT !.status = "needs_review"])

BeginReconcile(u, r) ==
  /\ receipt[r].status = "exported"
  /\ BeginEdit(u, "reconcile", r, [receipt[r] EXCEPT !.status = "reconciled"])

\* void_receipt
BeginVoid(u, r) ==
  /\ receipt[r].status \notin {"exported", "reconciled", "void"}
  /\ BeginEdit(u, "void", r, [receipt[r] EXCEPT !.status = "void"])

\* The flush writes what the command changed, and the version it computed.
FlushEdit(u) ==
  LET e == edit[u]
  IN /\ e # NoEdit
     /\ receipt' = [receipt EXCEPT ![e.r] =
          [f \in DOMAIN e.new |-> IF e.new[f] = e.read[f] THEN receipt[e.r][f] ELSE e.new[f]]]
     /\ overtaken' = IF receipt[e.r] # e.read THEN overtaken \cup {e.r} ELSE overtaken
     /\ edit' = [edit EXCEPT ![u] = NoEdit]
     /\ screen' = [screen EXCEPT ![u] = NoScreen]
     /\ UNCHANGED <<creating, ledger, agreed>>

\* Mutant of Approvable: the version of the screen is not compared.
ApprovableUnseen(u, r) ==
  /\ screen[u].r = r /\ receipt[r].status = "needs_review"
  /\ receipt[r].reading \in Complete /\ ~receipt[r].duplicate

\* _approval_blockers
Approvable(u, r) ==
  /\ Seen(u, r) /\ receipt[r].status = "needs_review"
  /\ receipt[r].reading \in Complete /\ ~receipt[r].duplicate

\* approve_receipt
Approve(u, r) ==
  /\ Approvable(u, r) /\ edit[u] = NoEdit /\ receipt[r].version < MaxVersion
  /\ receipt' = [receipt EXCEPT ![r].status = "approved", ![r].version = @ + 1]
  /\ agreed' = [agreed EXCEPT ![r] = screen[u].reading]
  /\ screen' = [screen EXCEPT ![u] = NoScreen]
  /\ UNCHANGED <<edit, creating, ledger, overtaken>>

Exportable(u, r) == Seen(u, r) /\ receipt[r].status = "approved" /\ ledger[r] = {}

\* export_receipt: exported_at is set with the first posting.
Export(u, r) ==
  /\ Exportable(u, r) /\ edit[u] = NoEdit /\ receipt[r].version < MaxVersion
  /\ receipt' = [receipt EXCEPT ![r].status = "exported", ![r].version = @ + 1]
  /\ ledger' = [ledger EXCEPT ![r] = @ \cup {[reading |-> receipt[r].reading,
                                              version |-> receipt[r].version]}]
  /\ screen' = [screen EXCEPT ![u] = NoScreen]
  /\ UNCHANGED <<edit, creating, agreed, overtaken>>

ReceiptsNext ==
  \/ \E r \in Receipts, d \in Readings : BeginCreate(r, d)
  \/ \E c \in creating : CommitCreate(c)
  \/ \E u \in Reviewers :
       \/ FlushEdit(u)
       \/ \E r \in Receipts :
            \/ LoadReceipt(u, r) \/ BeginSubmission(u, r) \/ BeginReconcile(u, r)
            \/ BeginVoid(u, r) \/ Approve(u, r) \/ Export(u, r)
            \/ \E d \in Readings, b \in BOOLEAN : BeginCorrection(u, r, d, b)

ReceiptsSpec == ReceiptsInit /\ [][ReceiptsNext]_receiptVars

----------------------------------------------------------------------------
\* Types of the rows and of what is posted.
ReceiptsTypeOK ==
  /\ receipt \in [Receipts -> ReceiptRow]
  /\ \A r \in Receipts :
       ledger[r] \subseteq [reading: Readings, version: 1..MaxVersion]
  /\ agreed \in [Receipts -> Readings \cup {0}] /\ overtaken \subseteq Receipts

\* A receipt is posted to the ledger once, however commands race: export locks
\* the row and exported_at is never cleared.
PostedOnce == \A r \in Receipts : Cardinality(ledger[r]) <= 1

\* What is approved, and what is posted of it, is what the approver's screen
\* showed, with nothing missing, unless a command wrote to a row that had
\* changed since its read.
PostedAsAgreed ==
  \A r \in Receipts \ overtaken :
    /\ receipt[r].status \in Approved =>
         receipt[r].reading = agreed[r] /\ agreed[r] \in Complete
    /\ \A e \in ledger[r] : e.reading = agreed[r]

\* A receipt that was posted is not voided here, which would leave its entries
\* behind, unless a command's read was stale.
VoidHasNoPosting ==
  \A r \in Receipts \ overtaken : receipt[r].status = "void" => ledger[r] = {}

\* Of two receipts of one picture that are both approved, management cleared
\* one, unless they were created at the same moment or a read was stale.
DuplicatesAreCleared ==
  \A r, s \in Receipts \ overtaken :
    r # s /\ ImageOf[r] = ImageOf[s] /\ receipt[r].status \in Approved
          /\ receipt[s].status \in Approved => receipt[r].cleared \/ receipt[s].cleared

\* The receipts, whatever commands race: they are posted once and as they were
\* agreed, and neither what is void nor an unnoticed duplicate is posted.
ReceiptsArePosted ==
  ReceiptsTypeOK /\ PostedOnce /\ PostedAsAgreed /\ VoidHasNoPosting /\ DuplicatesAreCleared

==============================================================================
