-------------------------- MODULE ProductionImports --------------------------
(***************************************************************************)
(* The imports of an approved bundle into production                       *)
(* (ops/scripts/production_business_import.py: an opportunity, draft       *)
(* quotes and a draft invoice; production_awarded_invoice_import.py: an    *)
(* awarded project, its draft invoice and its completed work).  A script   *)
(* finds what exists by keys of its own, and sends one request for each    *)
(* record that is missing; it is run again until it ends.  An answer may   *)
(* be lost and a request may be served late, and the office and the intake *)
(* of invoices from the chat work on the same records.                     *)
(***************************************************************************)
EXTENDS Naturals, Sequences, FiniteSets

CONSTANTS
  Quotes,        \* the external references of a business bundle's quotes
  Lines,         \* the source lines of an awarded bundle's invoice
  MaxAttempts, MaxProjects, MaxQuotes, MaxEdits

ASSUME BundleAssumption == {MaxAttempts, MaxProjects, MaxQuotes, MaxEdits} \subseteq Nat

VARIABLES
  bundle,       \* "business" or "awarded"
  projects,     \* rows: [key, named, owned, stage, deleted, by]
  quotes,       \* rows: [ref, marked, project, right, status]
  invoice,      \* the row with the bundle's number, when there is one
  work,         \* completed-work rows <<project, line>>, which is their primary key
  script,       \* the importer
  late,         \* a request of an earlier run that the server has yet to serve
  chat,         \* an intake of the same invoice from the chat
  evidence,     \* what the last run has reported
  attempts, edits,
  overtaken,   \* history: a late request was served after another run had begun
  touched,      \* history: something but the script has written since the run began
  blocked       \* history: a run found something that it refuses

bundleVars ==
  <<bundle, projects, quotes, invoice, work, script, late, chat, evidence, attempts, edits, overtaken, touched, blocked>>
tables == <<projects, quotes, invoice, work>>
histories == <<attempts, edits, overtaken, touched>>

NoInvoice == [project |-> 0, by |-> "nobody"]
NoRequest == [attempt |-> 0]
NoScript == [at |-> "idle"]
NoChat == [at |-> "idle"]
NoEvidence == [project |-> 0]
Opening == IF bundle = "business" THEN "opportunity" ELSE "awarded"

BundleInit ==
  /\ bundle \in {"business", "awarded"}
  /\ projects = <<>> /\ quotes = <<>>
  /\ invoice = NoInvoice /\ work = {}
  /\ script = NoScript /\ late = NoRequest /\ chat = NoChat /\ evidence = NoEvidence
  /\ attempts = 0 /\ edits = 0
  /\ overtaken = FALSE /\ touched = FALSE /\ blocked = FALSE

----------------------------------------------------------------------------
\* The server's handlers of what the scripts send

\* An archived project receives no quote, and a number is given once.
Rejected(r) ==
  \/ r.kind = "quote" /\ projects[r.project].stage = "archived"
  \/ r.kind = "invoice" /\ invoice # NoInvoice

NewProject == [key |-> TRUE, named |-> TRUE, owned |-> TRUE, stage |-> Opening, deleted |-> FALSE, by |-> "bundle"]
NewQuote(r) == [ref |-> r.ref, marked |-> TRUE, project |-> r.project, right |-> TRUE, status |-> "draft"]

\* A completed-work record that exists is the answer to a repeated request.
Serve(r) ==
  /\ ~Rejected(r)
  /\ projects' = IF r.kind = "project" THEN Append(projects, NewProject) ELSE projects
  /\ quotes' = IF r.kind = "quote" THEN Append(quotes, NewQuote(r)) ELSE quotes
  /\ invoice' = IF r.kind = "invoice"
                THEN [project |-> r.project, right |-> TRUE, draft |-> TRUE, by |-> "bundle"] ELSE invoice
  /\ work' = IF r.kind = "work" THEN work \cup {<<r.project, r.line>>} ELSE work

----------------------------------------------------------------------------
\* The scripts: validate, log in, and ask for one thing after the other

Listed == {p \in DOMAIN projects : ~projects[p].deleted}
Keyed == {p \in Listed : projects[p].key}
Conflicting == {p \in Listed : projects[p].named}

\* _verify_project; the awarded import asks for the status and the job number.
VerifyProject(p) ==
  /\ projects[p].stage = Opening
  /\ bundle = "business" => projects[p].named /\ projects[p].owned

\* _verify_quote
VerifyQuote(q, project) == q.project = project /\ q.right /\ q.status = "draft"

\* _verify_invoice; the awarded import wants it linked to the project, too.
VerifyInvoice(project) ==
  /\ invoice.right /\ invoice.draft
  /\ bundle = "awarded" => invoice.project = project

AfterProject == IF bundle = "business" THEN "quotes" ELSE "invoice"

\* The script stops with an error, for someone to look at what it found.
Refuse ==
  /\ script' = NoScript /\ blocked' = TRUE
  /\ UNCHANGED <<bundle, tables, late, chat, evidence, histories>>

ContinueAs(next) ==
  /\ script' = next
  /\ UNCHANGED <<bundle, tables, late, chat, evidence, histories, blocked>>

\* It waits for an answer, and goes on from where it is.
Asking(request) == [at |-> "asking", request |-> request, from |-> script]

\* The project that has the bundle's key; none, if one has its name and address
\* without the key.
FindProject ==
  /\ script = NoScript /\ attempts < MaxAttempts
  /\ attempts' = attempts + 1 /\ touched' = FALSE /\ evidence' = NoEvidence
  /\ \/ /\ Keyed = {} /\ Conflicting = {} /\ Len(projects) < MaxProjects
        /\ script' = Asking([kind |-> "project"])
        /\ UNCHANGED blocked
     \/ \E p \in Keyed :
          /\ Keyed = {p} /\ VerifyProject(p)
          /\ script' = [at |-> AfterProject, project |-> p]
          /\ UNCHANGED blocked
     \/ /\ IF Keyed = {} THEN Conflicting # {} ELSE Cardinality(Keyed) > 1 \/ \E p \in Keyed : ~VerifyProject(p)
        /\ script' = NoScript /\ blocked' = TRUE
  /\ UNCHANGED <<bundle, tables, late, chat, edits, overtaken>>

\* The quotes are listed once, before the first of them is looked for.
ListQuotes ==
  /\ script.at = "quotes"
  /\ ContinueAs([at |-> "quote", project |-> script.project, listing |-> quotes, done |-> {}])

\* The quote that has the marker of the next reference in its notes.
FindQuote(ref) ==
  /\ script.at = "quote" /\ ref \in Quotes \ script.done /\ \A r \in Quotes \ script.done : ref <= r
  /\ LET found == {q \in DOMAIN script.listing : script.listing[q].ref = ref /\ script.listing[q].marked} IN
       IF found = {} THEN /\ Len(quotes) < MaxQuotes
                          /\ ContinueAs(Asking([kind |-> "quote", ref |-> ref, project |-> script.project]))
       ELSE IF \E q \in found : found = {q} /\ VerifyQuote(script.listing[q], script.project)
       THEN ContinueAs([script EXCEPT !.done = @ \cup {ref}])
       ELSE Refuse

QuotesDone ==
  /\ script.at = "quote" /\ script.done = Quotes
  /\ ContinueAs([at |-> "invoice", project |-> script.project])

\* The invoice that has the bundle's number.
FindInvoice ==
  /\ script.at = "invoice"
  /\ IF invoice = NoInvoice
     THEN ContinueAs(Asking([kind |-> "invoice", project |-> IF bundle = "business" THEN 0 ELSE script.project]))
     ELSE IF VerifyInvoice(script.project)
     THEN ContinueAs([at |-> "work", project |-> script.project])
     ELSE Refuse

\* The completed work of the project and the import key; none of a business
\* bundle.  Missing lines are sent in order.
ListWork ==
  /\ script.at = "work"
  /\ ContinueAs([at |-> "lines", project |-> script.project,
              todo |-> IF bundle = "business" THEN {} ELSE {l \in Lines : <<script.project, l>> \notin work}])

SendLine(line) ==
  /\ script.at = "lines" /\ line \in script.todo /\ \A l \in script.todo : line <= l
  /\ ContinueAs(Asking([kind |-> "work", project |-> script.project, line |-> line]))

\* The answer to the request in time: the new record, which is verified, ...
Answered ==
  /\ script.at = "asking"
  /\ Serve(script.request)
  /\ script' = CASE script.request.kind = "project" -> [at |-> AfterProject, project |-> Len(projects')]
               [] script.request.kind = "quote" -> [script.from EXCEPT !.done = @ \cup {script.request.ref}]
               [] script.request.kind = "invoice" -> [at |-> "work", project |-> script.from.project]
               [] script.request.kind = "work" -> [script.from EXCEPT !.todo = @ \ {script.request.line}]
  /\ UNCHANGED <<bundle, late, chat, evidence, histories, blocked>>

\* ... or an error.
NotServed == script.at = "asking" /\ Rejected(script.request) /\ Refuse

\* production_verified
Report ==
  /\ script.at = "lines" /\ script.todo = {}
  /\ evidence' = [project |-> script.project]
  /\ script' = NoScript
  /\ UNCHANGED <<bundle, tables, late, chat, histories, blocked>>

\* No answer within 30 seconds, or the runner dies; a request that was sent may
\* be served later all the same.
Die ==
  /\ script # NoScript
  /\ script' = NoScript
  /\ \/ UNCHANGED late
     \/ /\ script.at = "asking" /\ late = NoRequest
        /\ late' = [request |-> script.request, attempt |-> attempts]
  /\ UNCHANGED <<bundle, tables, chat, evidence, histories, blocked>>

ServeLate ==
  /\ late # NoRequest
  /\ late' = NoRequest
  /\ \/ Serve(late.request)
     \/ Rejected(late.request) /\ UNCHANGED tables
  /\ overtaken' = (overtaken \/ attempts > late.attempt)
  /\ touched' = TRUE
  /\ UNCHANGED <<bundle, script, chat, evidence, attempts, edits, blocked>>

----------------------------------------------------------------------------
\* The intake of the invoice from the chat (services/chat_invoice_intake.py)

\* No invoice has the number yet: its project is found by name and address, or
\* is to be made with it.
ReadChat(create, right) ==
  /\ chat = NoChat /\ invoice = NoInvoice /\ Cardinality(Conflicting) <= 1
  /\ chat' = [at |-> "commit", right |-> right,
              project |-> IF Conflicting # {} THEN CHOOSE p \in Conflicting : TRUE ELSE 0,
              create |-> create /\ Conflicting = {}]
  /\ UNCHANGED <<bundle, tables, script, late, evidence, histories, blocked>>

\* Mutant of CommitChat: the project is committed before the invoice.
CommitChatByHalves ==
  /\ chat.at = "commit"
  /\ chat' = NoChat
  /\ projects' = IF chat.create
                 THEN Append(projects, [NewProject EXCEPT !.key = FALSE, !.stage = "construction", !.by = "chat"])
                 ELSE projects
  /\ invoice' = IF invoice # NoInvoice THEN invoice
                ELSE [project |-> IF chat.create THEN Len(projects') ELSE chat.project,
                      right |-> chat.right, draft |-> TRUE, by |-> "chat"]
  /\ touched' = TRUE
  /\ UNCHANGED <<bundle, quotes, work, script, late, evidence, attempts, edits, overtaken, blocked>>

\* Both are committed, or the number was used meanwhile and both are rolled back.
CommitChat ==
  /\ chat.at = "commit"
  /\ chat' = NoChat
  /\ \/ invoice # NoInvoice /\ UNCHANGED <<projects, invoice, touched>>
     \/ /\ invoice = NoInvoice
        /\ projects' = IF chat.create
                       THEN Append(projects, [NewProject EXCEPT !.key = FALSE, !.stage = "construction", !.by = "chat"])
                       ELSE projects
        /\ invoice' = [project |-> IF chat.create THEN Len(projects') ELSE chat.project,
                       right |-> chat.right, draft |-> TRUE, by |-> "chat"]
        /\ touched' = TRUE
  /\ UNCHANGED <<bundle, quotes, work, script, late, evidence, attempts, edits, overtaken, blocked>>

----------------------------------------------------------------------------
\* The office

Edits ==
  /\ edits < MaxEdits /\ edits' = edits + 1 /\ touched' = TRUE
  /\ UNCHANGED <<bundle, work, script, late, chat, evidence, attempts, overtaken, blocked>>

\* update_project, archive_project, delete_project and restore_project; metadata
\* are replaced as a whole, and the key with them.
EditProject(p) ==
  /\ Edits
  /\ projects' \in {[projects EXCEPT ![p].key = FALSE], [projects EXCEPT ![p].named = FALSE],
                    [projects EXCEPT ![p].stage = "archived"], [projects EXCEPT ![p].stage = "awarded"],
                    [projects EXCEPT ![p].deleted = ~@]}
  /\ UNCHANGED <<quotes, invoice>>

\* update_customer_quote: the notes, and the marker with them, or the amounts;
\* the project gets the customer's name, which is not the client's.
EditQuote(q) ==
  /\ quotes[q].status \in {"draft", "closed"} /\ Edits
  /\ quotes' \in {[quotes EXCEPT ![q].status = "draft", ![q].marked = FALSE],
                  [quotes EXCEPT ![q].status = "draft", ![q].right = FALSE]}
  /\ projects' = [projects EXCEPT ![quotes[q].project].owned = FALSE]
  /\ UNCHANGED invoice

\* update_customer_quote_status, whose note replaces the notes, and the approval.
MoveQuote(q) ==
  /\ quotes[q].status = "draft" /\ Edits
  /\ quotes' \in {[quotes EXCEPT ![q].status = "closed"], [quotes EXCEPT ![q].status = "closed", ![q].marked = FALSE],
                  [quotes EXCEPT ![q].status = "issued"]}
  /\ UNCHANGED <<projects, invoice>>

\* update_status
MoveInvoice ==
  /\ invoice # NoInvoice /\ Edits
  /\ invoice' = [invoice EXCEPT !.draft = ~@]
  /\ UNCHANGED <<projects, quotes>>

BundleNext ==
  \/ FindProject \/ ListQuotes \/ QuotesDone \/ FindInvoice \/ ListWork \/ Report
  \/ \E ref \in Quotes : FindQuote(ref)
  \/ \E line \in Lines : SendLine(line)
  \/ Answered \/ NotServed \/ Die \/ ServeLate
  \/ \E create, right \in BOOLEAN : ReadChat(create, right)
  \/ CommitChat
  \/ \E p \in DOMAIN projects : EditProject(p)
  \/ \E q \in DOMAIN quotes : EditQuote(q) \/ MoveQuote(q)
  \/ MoveInvoice

BundleSpec == BundleInit /\ [][BundleNext]_bundleVars

----------------------------------------------------------------------------
\* Rows refer to rows that exist.
BundleTypeOK ==
  /\ \A q \in DOMAIN quotes : quotes[q].project \in DOMAIN projects /\ quotes[q].ref \in Quotes
  /\ invoice.project \in {0} \cup DOMAIN projects
  /\ work \subseteq (DOMAIN projects) \X Lines
  /\ evidence.project \in {0} \cup DOMAIN projects

Marked(ref) == {q \in DOMAIN quotes : quotes[q].ref = ref /\ quotes[q].marked}

\* Every record of the bundle is there, once, and is what was approved.
Complete(p) ==
  /\ Keyed = {p} /\ VerifyProject(p)
  /\ bundle = "business" => \A ref \in Quotes : \E q \in Marked(ref) : Marked(ref) = {q} /\ VerifyQuote(quotes[q], p)
  /\ invoice # NoInvoice /\ VerifyInvoice(p)
  /\ bundle = "awarded" => {p} \X Lines \subseteq work

\* A project that the chat has made is the one of the invoice it came with.
ChatIsWhole == \A p \in DOMAIN projects : projects[p].by = "chat" => invoice.by = "chat" /\ invoice.project = p

\* "Stable import keys, external references and invoice numbers make repeat runs
\* idempotent" (docs/production-business-record-import.md): as long as no request
\* is served after the next run has begun, nothing is imported twice that still
\* has its mark, however often runs end in the middle; only an edit or the chat
\* makes a run refuse; and what a run reports is true until something changes.
BundlesHold ==
  /\ BundleTypeOK
  /\ ChatIsWhole
  /\ ~overtaken => \A ref \in Quotes : Cardinality(Marked(ref)) <= 1
  /\ blocked => overtaken \/ edits > 0 \/ invoice.by = "chat"
  /\ evidence # NoEvidence /\ ~touched => Complete(evidence.project)
=============================================================================
