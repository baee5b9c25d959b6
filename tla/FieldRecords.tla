----------------------------- MODULE FieldRecords -----------------------------
(***************************************************************************)
(* The records of the field (services/field_operations.py): assessments of *)
(* the day's hazards (FLHA) with their signatures, incidents and permits,  *)
(* purchase orders and their invoices, time off, milestone reviews, and    *)
(* completed work that is imported by line.  details and signatures are    *)
(* JSON columns: a request reads its row without a lock and writes whole   *)
(* columns back.                                                           *)
(***************************************************************************)
EXTENDS Naturals, Sequences, FiniteSets

CONSTANTS
  Workers,
  Contents,        \* what an FLHA may say; an invoice; what a line may say
  CrewOf, GapOf,   \* of an FLHA's content: its crew, and what blocks it
  Requests,        \* requests that may run at the same time
  MaxFieldLog      \* bound on the entries of a record's log

FieldRows == {1, 2}   \* a record, and the re-assessment of an FLHA

ASSUME FieldAssumption ==
  /\ Contents \subseteq Nat \ {0} /\ MaxFieldLog \in Nat
  /\ CrewOf \in [Contents -> SUBSET Workers]
  /\ GapOf \in [Contents -> {"none", "field", "critical"}]

VARIABLES
  field,      \* the rows of field_records
  request,    \* a request between its read and its commit
  moves,      \* history: the changes of status that were answered
  imported,   \* history: what was answered to be on record for a line
  passed,     \* history: reviews that a decision approved with the practical
  fieldStale  \* history: rows written by a request whose read was stale

fieldVars == <<field, request, moves, imported, passed, fieldStale>>

Kinds == {"flha", "incident", "safety_permit", "purchase_order", "time_off",
          "milestone", "completed_work"}
Opening(kind, content) ==
  CASE kind = "flha" -> IF GapOf[content] = "critical" THEN "blocked" ELSE "draft"
    [] kind = "incident" -> "reported"
    [] kind = "safety_permit" -> "blocked"
    [] kind = "time_off" -> "pending"
    [] kind = "milestone" -> IF content = 1 THEN "practical_pending" ELSE "written_retry_required"
    [] kind = "completed_work" -> "recorded"
    [] OTHER -> "submitted"

Entry(what, of) == [what |-> what, of |-> of]
NoRow == [kind |-> "none", status |-> "none", details |-> [content |-> 0, log |-> <<>>],
          signatures |-> {}]
Row(kind, content) ==
  [kind |-> kind, status |-> Opening(kind, content),
   details |-> [content |-> content, log |-> <<>>], signatures |-> {}]
NoRequest == [at |-> "idle"]

FieldInit ==
  /\ field = [r \in FieldRows |-> NoRow]
  /\ request = [q \in Requests |-> NoRequest]
  /\ moves = [r \in FieldRows |-> 0]
  /\ imported = {}
  /\ passed = {}
  /\ fieldStale = {}

Is(r, kind) == field[r].kind = kind
Signers(row) == {s.by : s \in row.signatures}
Logged(row, what, of) == [row EXCEPT !.details.log = Append(@, Entry(what, of))]
LastEntry(row) == LET log == row.details.log
                  IN IF log = <<>> THEN "none" ELSE log[Len(log)].what

----------------------------------------------------------------------------
\* A request reads its row and decides what becomes of it.

BeginRequest(q, op, r, new) ==
  /\ request[q] = NoRequest
  /\ Len(new.details.log) <= MaxFieldLog
  /\ request' = [request EXCEPT ![q] = [at |-> op, r |-> r, read |-> field[r], new |-> new]]
  /\ UNCHANGED <<field, moves, imported, passed, fieldStale>>

\* create_field_record, but for completed work.  A milestone's content is 1
\* when the written part was passed; a purchase order has no invoice yet.
CreateFieldRecord(kind, content) ==
  /\ field[1] = NoRow /\ kind # "completed_work"
  /\ field' = [field EXCEPT ![1] = Row(kind, IF kind = "purchase_order" THEN 0 ELSE content)]
  /\ UNCHANGED <<request, moves, imported, passed, fieldStale>>

\* update_flha: what was signed or released does not change.
BeginUpdateFlha(q, r, content) ==
  /\ Is(r, "flha") /\ field[r].signatures = {} /\ field[r].status # "released"
  /\ BeginRequest(q, "edit", r,
       [field[r] EXCEPT !.details.content = content, !.status = Opening("flha", content)])

\* reassess_flha makes a new record of the same root, with no signatures.
ReassessFlha(content) ==
  /\ Is(1, "flha") /\ field[2] = NoRow
  /\ field' = [field EXCEPT ![2] = Row("flha", content)]
  /\ UNCHANGED <<request, moves, imported, passed, fieldStale>>

\* sign_field_record.  The signature's content is history: the code keeps it
\* nowhere.
BeginSign(q, r, w) ==
  /\ field[r] # NoRow /\ w \notin Signers(field[r])
  /\ Is(r, "flha") =>
       GapOf[field[r].details.content] = "none" /\ w \in CrewOf[field[r].details.content]
  /\ BeginRequest(q, "sign", r,
       [field[r] EXCEPT !.signatures = @ \cup {[by |-> w, of |-> field[r].details.content]}])

Releasable(row) ==
  /\ row.status # "released"
  /\ GapOf[row.details.content] = "none" /\ CrewOf[row.details.content] \subseteq Signers(row)

\* Mutant of BeginRelease: the crew's signatures are not asked for.
BeginReleaseUnsigned(q, r) ==
  /\ Is(r, "flha") /\ field[r].status # "released" /\ GapOf[field[r].details.content] = "none"
  /\ BeginRequest(q, "release", r, [field[r] EXCEPT !.status = "released"])

\* release_flha
BeginRelease(q, r) ==
  /\ Is(r, "flha") /\ Releasable(field[r])
  /\ BeginRequest(q, "release", r, [field[r] EXCEPT !.status = "released"])

\* update_safety_record_status: an incident moves forward only; a permit may
\* take any status.
Moves(row) ==
  CASE row.kind = "incident" /\ row.status = "reported" -> {"under_review"}
    [] row.kind = "incident" /\ row.status = "under_review" -> {"closed"}
    [] row.kind = "safety_permit" -> {"blocked", "ready"}
    [] OTHER -> {}

BeginMove(q, r, to) ==
  /\ to \in Moves(field[r])
  /\ BeginRequest(q, "move", r, [Logged(field[r], to, 0) EXCEPT !.status = to])

\* attach_purchase_order_invoice
BeginAttach(q, r, invoice) ==
  /\ Is(r, "purchase_order") /\ LastEntry(field[r]) # "attached"
  /\ BeginRequest(q, "attach", r,
       [Logged(field[r], "attached", invoice) EXCEPT !.details.content = invoice])

\* decide_purchase_order_invoice
BeginInvoiceDecision(q, r, decision) ==
  /\ Is(r, "purchase_order") /\ LastEntry(field[r]) = "attached"
  /\ BeginRequest(q, "decide_invoice", r, Logged(field[r], decision, field[r].details.content))

\* decide_time_off
BeginTimeOff(q, r, decision) ==
  /\ Is(r, "time_off") /\ field[r].status = "pending"
  /\ BeginRequest(q, "decide", r, [Logged(field[r], decision, 0) EXCEPT !.status = decision])

\* decide_milestone: any review may be decided, and decided again.
BeginMilestone(q, r, decision, practical) ==
  /\ Is(r, "milestone")
  /\ decision = "approved" => practical = "passed" /\ field[r].details.content = 1
  /\ BeginRequest(q, "decide", r,
       [Logged(field[r], practical, 0) EXCEPT !.status = decision])

\* create_field_record of completed work: no record of this line is found.
\* The id is made from the project, the import and the line.
BeginImport(q, content) ==
  /\ field[1] = NoRow
  /\ BeginRequest(q, "import", 1, Row("completed_work", content))

\* A record of this line is found: it must be the same.
ImportAgain(content) ==
  /\ field[1] = Row("completed_work", content)
  /\ imported' = imported \cup {content}
  /\ UNCHANGED <<field, request, moves, passed, fieldStale>>

----------------------------------------------------------------------------
\* Commits

\* status is written when it differs from what was read; every request but
\* the signature of another record than an FLHA sets details.
WrittenBack(h) ==
  [field[h.r] EXCEPT
     !.status = IF h.new.status = h.read.status THEN @ ELSE h.new.status,
     !.details = IF h.at = "sign" /\ h.read.kind # "flha" THEN @ ELSE h.new.details,
     !.signatures = IF h.at = "sign" THEN h.new.signatures ELSE @]

\* UPDATE ... WHERE status = the status that was read, and the primary key.
MayCommit(h) ==
  /\ h.at = "move" => field[h.r].status = h.read.status
  /\ h.at = "import" => field[h.r] = NoRow

CommitField(q) ==
  LET h == request[q]
  IN /\ h # NoRequest /\ MayCommit(h)
     /\ field' = [field EXCEPT ![h.r] =
                    IF h.at = "import" THEN h.new ELSE WrittenBack(h)]
     /\ moves' = IF h.at = "move" THEN [moves EXCEPT ![h.r] = @ + 1] ELSE moves
     /\ imported' = IF h.at = "import" THEN imported \cup {h.new.details.content} ELSE imported
     /\ passed' = IF h.at = "decide" /\ h.new.status = "approved" /\ LastEntry(h.new) = "passed"
                  THEN passed \cup {h.r} ELSE passed
     /\ fieldStale' = IF field[h.r] # h.read THEN fieldStale \cup {h.r} ELSE fieldStale
     /\ request' = [request EXCEPT ![q] = NoRequest]

\* _verify_completed_work_record
SameLine(r, new) == field[r] = new

\* The row has moved, or the line was inserted by another import: that is an
\* answer of success when it says the same, and a conflict otherwise.
Conflict(q) ==
  LET h == request[q]
  IN /\ h # NoRequest /\ ~MayCommit(h)
     /\ imported' = IF h.at = "import" /\ SameLine(h.r, h.new)
                    THEN imported \cup {h.new.details.content} ELSE imported
     /\ request' = [request EXCEPT ![q] = NoRequest]
     /\ UNCHANGED <<field, moves, passed, fieldStale>>

FieldNext ==
  \/ \E k \in Kinds, d \in Contents : CreateFieldRecord(k, d)
  \/ \E d \in Contents : ReassessFlha(d) \/ ImportAgain(d)
  \/ \E q \in Requests :
       \/ CommitField(q) \/ Conflict(q)
       \/ \E d \in Contents : BeginImport(q, d)
       \/ \E r \in FieldRows :
            \/ \E d \in Contents : BeginUpdateFlha(q, r, d) \/ BeginAttach(q, r, d)
            \/ \E w \in Workers : BeginSign(q, r, w)
            \/ BeginRelease(q, r)
            \/ \E to \in {"under_review", "closed", "blocked", "ready"} : BeginMove(q, r, to)
            \/ \E d \in {"approved", "rejected"} : BeginInvoiceDecision(q, r, d)
            \/ \E d \in {"approved", "declined"} :
                 BeginTimeOff(q, r, d) \/ \E p \in {"passed", "not_passed"} : BeginMilestone(q, r, d, p)

FieldSpec == FieldInit /\ [][FieldNext]_fieldVars

----------------------------------------------------------------------------
\* Types of the rows and of the requests' targets.
FieldTypeOK ==
  /\ \A r \in FieldRows :
       /\ field[r].kind \in Kinds \cup {"none"}
       /\ field[r].details.content \in Contents \cup {0}
       /\ Signers(field[r]) \subseteq Workers
       /\ field[r].kind = "incident" => field[r].status \in {"reported", "under_review", "closed"}
  /\ \A q \in Requests : request[q] # NoRequest => request[q].r \in FieldRows
  /\ imported \subseteq Contents /\ passed \subseteq FieldRows /\ fieldStale \subseteq FieldRows

\* A released FLHA has nothing missing, and everyone of the crew it names has
\* signed what it says, unless a request wrote to a row that had changed.
ReleasedAsSigned ==
  \A r \in FieldRows \ fieldStale : Is(r, "flha") /\ field[r].status = "released" =>
    /\ GapOf[field[r].details.content] = "none"
    /\ \A w \in CrewOf[field[r].details.content] :
         [by |-> w, of |-> field[r].details.content] \in field[r].signatures

\* Every change of an incident's status that was answered is in its history,
\* and the history ends in its status, however the requests interleave.
IncidentFullyLogged ==
  \A r \in FieldRows : Is(r, "incident") =>
    /\ Len(field[r].details.log) = moves[r]
    /\ field[r].status = IF moves[r] = 0 THEN "reported" ELSE LastEntry(field[r])

\* Each decision on a purchase order is about the invoice attached before it,
\* and no invoice is decided twice.
InvoiceDecidedAsAttached ==
  \A r \in FieldRows : Is(r, "purchase_order") =>
    LET log == field[r].details.log
    IN \A i \in DOMAIN log :
         IF i % 2 = 1 THEN log[i].what = "attached"
         ELSE log[i].what # "attached" /\ log[i].of = log[i - 1].of

\* Every import of a line that was answered with success finds its content on
\* record: concurrent and repeated imports agree or are refused.
ImportedOnce == \A d \in imported : field[1].details.content = d

\* The status of a time-off request is that of the decision kept with it; a
\* review that counts as an operator's qualification was once approved with
\* the written and the practical part passed.
DecisionsAgree ==
  \A r \in FieldRows :
    /\ Is(r, "time_off") /\ field[r].status # "pending" => field[r].status = LastEntry(field[r])
    /\ Is(r, "milestone") /\ field[r].status = "approved" /\ LastEntry(field[r]) = "passed" =>
         field[r].details.content = 1 /\ r \in passed

\* The field's records, whatever requests race or are repeated: what is released
\* was signed, what is decided is what was attached, histories and imports are
\* complete.
FieldRecordsHold ==
  /\ FieldTypeOK /\ ReleasedAsSigned /\ IncidentFullyLogged
  /\ InvoiceDecidedAsAttached /\ ImportedOnce /\ DecisionsAgree

==============================================================================
