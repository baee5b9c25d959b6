--------------------------- MODULE CustomerInvoices ---------------------------
(***************************************************************************)
(* Customer invoices: written by hand (services/customer_invoices.py),     *)
(* taken in from management's chat with the project they are for           *)
(* (services/chat_invoice_intake.py), or generated from a group of         *)
(* completed work when its project is closed out                           *)
(* (services/project_invoice_packages.py).  Requests read without locks;   *)
(* the unique keys on the invoice number and the package key decide.       *)
(***************************************************************************)
EXTENDS Naturals, FiniteSets

CONSTANTS
  Numbers,      \* invoice numbers
  Bills,        \* what an invoice may say
  Clients,      \* requests that may run at the same time
  MaxLines,     \* bound on the completed-work lines of the source group
  MaxProjects   \* bound on the projects that intake creates

ASSUME InvoicesAssumption == MaxLines \in Nat /\ MaxProjects \in Nat

VARIABLES
  invoice,     \* the rows, by their number
  worked,      \* how many completed-work lines the source group has
  closedOut,   \* the group's project is completed, with its closeout evidence
  projects,    \* the projects of the name that the chat gives
  client,      \* a request between its reads and its commit
  replies,     \* history: the invoices answered as created or already there
  ended,       \* history: the final statuses that an invoice has had
  hasty        \* history: invoices moved by a request whose read was stale

invoiceVars == <<invoice, worked, closedOut, projects, client, replies, ended, hasty>>

InvoiceStatuses == {"draft", "approved", "issued", "paid", "void"}
NoInvoice == [status |-> "none", origin |-> "none", bill |-> 0, lines |-> 0, project |-> 0,
              issued |-> FALSE]
NoClient == [at |-> "idle"]
Draft(origin, bill, lines, project) ==
  [status |-> "draft", origin |-> origin, bill |-> bill, lines |-> lines,
   project |-> project, issued |-> FALSE]

InvoicesInit ==
  /\ invoice = [n \in Numbers |-> NoInvoice]
  /\ worked = 0
  /\ closedOut = FALSE
  /\ projects = {}
  /\ client = [c \in Clients |-> NoClient]
  /\ replies = {}
  /\ ended = [n \in Numbers |-> {}]
  /\ hasty = {}

Taken(n) == invoice[n] # NoInvoice
Packages == {n \in Numbers : invoice[n].origin = "package"}

\* STATUS_TRANSITIONS
Transitions ==
  [s \in InvoiceStatuses |->
     CASE s = "draft" -> {"approved", "void"}
       [] s = "approved" -> {"draft", "issued", "void"}
       [] s = "issued" -> {"paid", "void"}
       [] OTHER -> {}]

\* _invoice_matches
SameChat(n, new) == invoice[n].bill = new.bill /\ invoice[n].project = new.project

\* _idempotent_result: the group's invoice has this number, content and lines.
SamePackage(n, new) ==
  invoice[n].origin = "package" /\ invoice[n].bill = new.bill /\ invoice[n].lines = new.lines

Replied(n, new) == replies' = replies \cup {[number |-> n, bill |-> new.bill]}

----------------------------------------------------------------------------
\* What the invoices are made from.

\* create_field_record adds a completed-work line to the group.
AddWork ==
  /\ worked < MaxLines
  /\ worked' = worked + 1
  /\ UNCHANGED <<invoice, closedOut, projects, client, replies, ended, hasty>>

\* The project is completed with its closeout controls, or reopened.
ChangeCloseout ==
  /\ closedOut' = ~closedOut
  /\ UNCHANGED <<invoice, worked, projects, client, replies, ended, hasty>>

----------------------------------------------------------------------------
\* Requests, up to their commit.

Ask(c, op, n, read, new) ==
  /\ client[c] = NoClient
  /\ client' = [client EXCEPT ![c] = [at |-> op, n |-> n, read |-> read, new |-> new]]
  /\ UNCHANGED <<invoice, worked, closedOut, projects, replies, ended, hasty>>

\* create_invoice
BeginManual(c, n, bill) ==
  /\ ~Taken(n)
  /\ Ask(c, "manual", n, NoInvoice, Draft("manual", bill, 0, 0))

\* _resolve_project: the one project of the name, or a new one; several are a
\* conflict.
BeginChat(c, n, bill, makeProject) ==
  /\ ~Taken(n) /\ Cardinality(projects) <= 1
  /\ \E p \in IF projects # {} THEN projects
              ELSE IF makeProject
              THEN (1..MaxProjects) \ {client[d].new.project : d \in {d \in Clients : client[d].at = "chat"}}
              ELSE {0} :
       Ask(c, "chat", n, NoInvoice, Draft("chat", bill, 0, p))

\* A retry finds the invoice before it looks for a project.
ChatAgain(n, bill) ==
  /\ Taken(n) /\ SameChat(n, [bill |-> bill, project |-> invoice[n].project])
  /\ Replied(n, [bill |-> bill])
  /\ UNCHANGED <<invoice, worked, closedOut, projects, client, ended, hasty>>

\* _source_group: the project's completed work of one import.
GroupReady == worked > 0

\* _closeout_status: every closeout item has its evidence.
CloseoutComplete == closedOut

\* generate_package
BeginPackage(c, n, bill) ==
  /\ Packages = {} /\ ~Taken(n) /\ GroupReady /\ CloseoutComplete
  /\ Ask(c, "package", n, NoInvoice, Draft("package", bill, worked, 0))

PackageAgain(n, bill) ==
  /\ n \in Packages /\ SamePackage(n, [bill |-> bill, lines |-> worked])
  /\ Replied(n, [bill |-> bill])
  /\ UNCHANGED <<invoice, worked, closedOut, projects, client, ended, hasty>>

\* update_status
BeginStatus(c, n, to) ==
  /\ Taken(n) /\ to \in Transitions[invoice[n].status]
  /\ Ask(c, "status", n, invoice[n],
         [invoice[n] EXCEPT !.status = to, !.issued = @ \/ to = "issued"])

----------------------------------------------------------------------------
\* Commits

\* The unique keys on the number and on the package.
KeysFree(h) == ~Taken(h.n) /\ (h.at = "package" => Packages = {})

CommitInsert(c) ==
  LET h == client[c]
  IN /\ h.at \in {"manual", "chat", "package"} /\ KeysFree(h)
     /\ invoice' = [invoice EXCEPT ![h.n] = h.new]
     /\ projects' = projects \cup ({h.new.project} \ {0})
     /\ Replied(h.n, h.new)
     /\ client' = [client EXCEPT ![c] = NoClient]
     /\ UNCHANGED <<worked, closedOut, ended, hasty>>

\* Mutant of KeptProjects: the project was committed before the invoice.
KeptProjectsEarly(h) == projects \cup ({h.new.project} \ {0})

\* The rollback takes the project with it.
KeptProjects(h) == projects

\* A key was taken: a chat's or a package's invoice is compared with the one
\* that is there.
InsertConflict(c) ==
  LET h == client[c]
      rival == IF h.at = "package" THEN Packages ELSE {n \in {h.n} : Taken(n)}
      same(n) == IF h.at = "package" THEN n = h.n /\ SamePackage(n, h.new)
                 ELSE h.at = "chat" /\ SameChat(n, [h.new EXCEPT !.project = invoice[n].project])
  IN /\ h.at \in {"manual", "chat", "package"} /\ ~KeysFree(h)
     /\ projects' = KeptProjects(h)
     /\ IF \E n \in rival : same(n) THEN Replied(h.n, h.new) ELSE UNCHANGED replies
     /\ client' = [client EXCEPT ![c] = NoClient]
     /\ UNCHANGED <<invoice, worked, closedOut, ended, hasty>>

CommitStatus(c) ==
  LET h == client[c]
  IN /\ h.at = "status"
     /\ invoice' = [invoice EXCEPT ![h.n].status = h.new.status,
                                   ![h.n].issued = @ \/ h.new.issued]
     /\ ended' = [ended EXCEPT ![h.n] = @ \cup ({h.new.status} \cap {"paid", "void"})]
     /\ hasty' = IF invoice[h.n] # h.read THEN hasty \cup {h.n} ELSE hasty
     /\ client' = [client EXCEPT ![c] = NoClient]
     /\ UNCHANGED <<worked, closedOut, projects, replies>>

InvoicesNext ==
  \/ AddWork \/ ChangeCloseout
  \/ \E c \in Clients : CommitInsert(c) \/ InsertConflict(c) \/ CommitStatus(c)
  \/ \E n \in Numbers, b \in Bills :
       \/ ChatAgain(n, b) \/ PackageAgain(n, b)
       \/ \E c \in Clients : BeginManual(c, n, b) \/ BeginPackage(c, n, b)
                             \/ \E m \in BOOLEAN : BeginChat(c, n, b, m)
  \/ \E c \in Clients, n \in Numbers, to \in InvoiceStatuses : BeginStatus(c, n, to)

InvoicesSpec == InvoicesInit /\ [][InvoicesNext]_invoiceVars

----------------------------------------------------------------------------
\* Types of the rows and of what intake created.
InvoicesTypeOK ==
  /\ \A n \in Numbers : Taken(n) =>
       /\ invoice[n].status \in InvoiceStatuses /\ invoice[n].bill \in Bills
       /\ invoice[n].lines \in 0..MaxLines /\ invoice[n].project \in 0..MaxProjects
       /\ invoice[n].origin = "package" => invoice[n].lines > 0
  /\ projects \subseteq 1..MaxProjects /\ hasty \subseteq Numbers

\* Whoever was told that an invoice is on file finds it as it was asked for,
\* whether the request made it, repeated it or lost a race for its number.
RepliesAgree == \A a \in replies : Taken(a.number) /\ invoice[a.number].bill = a.bill

\* One source group is billed once, however generations race, and a voided
\* package keeps its key.
PackagedOnce == Cardinality(Packages) <= 1

\* Intake leaves no project without the invoice that it was created for
\* (chat_invoice_intake.py:67).
NoOrphanProject == \A p \in projects : \E n \in Numbers : invoice[n].project = p

\* An invoice is paid only after it was issued, and keeps its final status
\* unless a request moved it from a status that it no longer had.
PaidWasIssued ==
  \A n \in Numbers :
    /\ invoice[n].status \in {"issued", "paid"} => invoice[n].issued
    /\ n \notin hasty /\ ended[n] # {} => ended[n] = {invoice[n].status}

\* Invoices made by hand, from chats and from packages, whatever is repeated or
\* races: one reply per key, no work billed twice, no project without its
\* invoice, and nothing paid that was not issued.
InvoicesHold == InvoicesTypeOK /\ RepliesAgree /\ PackagedOnce /\ NoOrphanProject /\ PaidWasIssued

==============================================================================
