----------------------------- MODULE RFQPackages -----------------------------
(***************************************************************************)
(* One RFQ package (services/rfq_packages.py, rfq_workflows.py): its       *)
(* recipients and documents are rows, everything else - supplier scopes,   *)
(* contacts, the communication plan and the index of responses - is one    *)
(* JSON column that every handler reads, changes and writes as a whole.    *)
(* A request reads at its start and commits at its end; nothing is locked. *)
(***************************************************************************)
EXTENDS Naturals, FiniteSets

CONSTANTS
  Suppliers,       \* suppliers that can be selected
  Documents,       \* titles on the attachment checklist
  Sends,           \* requests that may be under way together
  MaxSelections,   \* bound on the selections of suppliers
  MaxResponses,    \* bound on the responses that are recorded
  MaxWrites        \* bound on the requests that end

ASSUME RFQAssumption ==
  /\ {MaxSelections, MaxResponses, MaxWrites} \subseteq Nat
  /\ IsFiniteSet(Suppliers)

VARIABLES
  rows,          \* rfq_package_supplier_recipients
  checklist,     \* rfq_package_documents: what is known of each title
  metadata,      \* RFQPackage.metadata_json
  working,       \* what a request has read; its input shows when it ends
  written,       \* counts what MaxWrites bounds
  acknowledged,  \* history: the responses whose request was acknowledged
  followed,      \* history: the status each supplier was last given
  raced          \* history: a request wrote over something it had not read

rfqVars == <<rows, checklist, metadata, working, written, acknowledged, followed, raced>>

RecipientStatuses == {"pending", "sent", "replied"}
\* Not listed; listed and not required; required; required and attached.
DocumentStates == {"absent", "optional", "required", "attached"}
\* A supplier's scope items with its contact.
Scopes == {"none", "default", "edited"}
Unplanned == [made |-> FALSE]
NoWork == [loaded |-> FALSE]

RFQInit ==
  /\ rows = {}
  /\ checklist = [d \in Documents |-> "absent"]
  /\ metadata = [scopes |-> [s \in Suppliers |-> "none"], responses |-> {}, plan |-> Unplanned]
  /\ working = [r \in Sends |-> NoWork]
  /\ written = 0
  /\ acknowledged = {}
  /\ followed = [s \in Suppliers |-> "pending"]
  /\ raced = FALSE

Selected(rs) == {row.supplier : row \in rs}

----------------------------------------------------------------------------
\* What the plan is made from

\* Mutant of Fingerprint: the scopes are left out of the manifest.
FingerprintUnscoped(rs, docs, meta) ==
  [recipients |-> Selected(rs),
   documents |-> {[title |-> d, attached |-> docs[d] = "attached"] : d \in {x \in Documents : docs[x] # "absent"}}]

\* _source_fingerprint: recipients with their scopes and contacts, and the
\* documents with their status; which of them are required is not part of it.
Fingerprint(rs, docs, meta) ==
  [recipients |-> {[supplier |-> s, scope |-> meta.scopes[s]] : s \in Selected(rs)},
   documents |-> {[title |-> d, attached |-> docs[d] = "attached"] : d \in {x \in Documents : docs[x] # "absent"}}]

\* get_rfq_package_readiness
PackageReady(rs, docs, meta) ==
  /\ rs # {} /\ \A s \in Selected(rs) : meta.scopes[s] # "none"
  /\ \E d \in Documents : docs[d] = "attached"
  /\ \A d \in Documents : docs[d] # "required"

\* The drafts of a plan: to whom, with which scope and attachments.
DraftsFor(rs, docs, meta) ==
  {[supplier |-> s, scope |-> meta.scopes[s],
    attachments |-> {d \in Documents : docs[d] = "attached"}] : s \in Selected(rs)}

Plan(rs, docs, meta) ==
  [made |-> TRUE, source |-> Fingerprint(rs, docs, meta), drafts |-> DraftsFor(rs, docs, meta),
   ready |-> PackageReady(rs, docs, meta)]

Stale == metadata.plan.made /\ metadata.plan.source # Fingerprint(rows, checklist, metadata)

----------------------------------------------------------------------------
\* Sends

\* The package, its recipients and its documents are loaded.
Begin(r) ==
  /\ working[r] = NoWork
  /\ working' = [working EXCEPT ![r] =
       [loaded |-> TRUE, rows |-> rows, checklist |-> checklist, metadata |-> metadata]]
  /\ UNCHANGED <<rows, checklist, metadata, written, acknowledged, followed, raced>>

\* The request ends; the metadata is written if it was changed.
Ended(r, newMetadata, missed) ==
  LET read == working[r].metadata IN
  /\ metadata' = IF newMetadata = read THEN metadata ELSE newMetadata
  /\ raced' = (raced \/ (newMetadata # read /\ metadata # read) \/ missed)
  /\ working' = [working EXCEPT ![r] = NoWork]

OneWrite == written < MaxWrites /\ written' = written + 1

KeptMetadata(meta, scopes) == [meta EXCEPT !.scopes = scopes]

\* The status that a recipient of the same supplier had, if there was one.
KeptStatus(rs, s) ==
  IF s \in Selected(rs) THEN {row.status : row \in {x \in rs : x.supplier = s}} ELSE {"pending"}

\* select_rfq_package_suppliers: the recipients that the DELETE sees go, which
\* are those that were read or, if it waited for nobody, those of now; the
\* selected ones are inserted with the statuses that were read.
CommitSelect(r, given) ==
  /\ working[r].loaded /\ OneWrite
  /\ \A row \in rows \cup working[r].rows : row.selection < MaxSelections
  /\ LET read == working[r]
         chosen == {s \in Suppliers : given[s] # "none"}
         next == CHOOSE n \in 1..MaxSelections : \A row \in rows \cup read.rows : row.selection < n
     IN \E gone \in {read.rows, rows} :
        \E status \in [chosen -> RecipientStatuses] :
          /\ \A s \in chosen : status[s] \in KeptStatus(read.rows, s)
          /\ rows' = (rows \ gone) \cup
               {[supplier |-> s, selection |-> next, status |-> status[s]] : s \in chosen}
          /\ Ended(r, KeptMetadata(read.metadata,
               [s \in Suppliers |-> IF s \in chosen THEN given[s] ELSE "none"]),
                        rows # read.rows)
          /\ followed' = [s \in Suppliers |-> IF s \in chosen /\ s \in Selected(rows) THEN followed[s] ELSE "pending"]
  /\ UNCHANGED <<checklist, acknowledged>>

\* generate_rfq_supplier_scopes: missing scopes, or all of them, by default
CommitScopes(r) ==
  /\ working[r].loaded /\ OneWrite
  /\ LET read == working[r] IN
     /\ \E force \in BOOLEAN :
          Ended(r, [read.metadata EXCEPT !.scopes =
            [s \in Suppliers |-> IF s \in Selected(read.rows) /\ (force \/ @[s] = "none") THEN "default" ELSE @[s]]], FALSE)
  /\ UNCHANGED <<rows, checklist, acknowledged, followed>>

\* A row is updated by its identity; if it is gone, the request fails.
SetStatus(r, row, status, newMetadata) ==
  LET Same(x) == x.supplier = row.supplier /\ x.selection = row.selection IN
  IF \E x \in rows : Same(x)
  THEN /\ rows' = {IF Same(x) THEN [x EXCEPT !.status = status] ELSE x : x \in rows}
       /\ followed' = [followed EXCEPT ![row.supplier] = status]
       /\ Ended(r, newMetadata, FALSE)
  ELSE /\ working' = [working EXCEPT ![r] = NoWork]
       /\ UNCHANGED <<rows, metadata, followed, raced>>

\* update_rfq_recipient_status
CommitRecipient(r) ==
  /\ working[r].loaded /\ OneWrite
  /\ \E row \in working[r].rows, status \in RecipientStatuses :
       SetStatus(r, row, status, working[r].metadata)
  /\ UNCHANGED <<checklist, acknowledged>>

\* register_rfq_package_documents and update_rfq_document_status
CommitDocument(r) ==
  /\ working[r].loaded /\ OneWrite
  /\ \E d \in Documents, state \in DocumentStates :
       checklist' = [checklist EXCEPT ![d] = state]
  /\ Ended(r, working[r].metadata, FALSE)
  /\ UNCHANGED <<rows, acknowledged, followed>>

\* prepare_rfq_communication_workflow: the plan of what was read
CommitPlan(r) ==
  /\ working[r].loaded /\ OneWrite
  /\ LET read == working[r] IN
     Ended(r, [read.metadata EXCEPT !.plan = Plan(read.rows, read.checklist, read.metadata)], FALSE)
  /\ UNCHANGED <<rows, checklist, acknowledged, followed>>

\* record_supplier_response: the index and the recipient's status
CommitResponse(r) ==
  /\ working[r].loaded /\ OneWrite /\ Cardinality(acknowledged) < MaxResponses
  /\ LET read == working[r].metadata
         response == Cardinality(acknowledged) + 1
     IN \E row \in working[r].rows :
          /\ SetStatus(r, row, "replied", [read EXCEPT !.responses = @ \cup {response}])
          /\ acknowledged' = IF rows' = rows /\ metadata' = metadata THEN acknowledged ELSE acknowledged \cup {response}
  /\ UNCHANGED checklist

Given == [Suppliers -> Scopes]

RFQNext ==
  \E r \in Sends :
    \/ Begin(r) \/ \E given \in Given : CommitSelect(r, given)
    \/ CommitScopes(r) \/ CommitRecipient(r) \/ CommitDocument(r) \/ CommitPlan(r) \/ CommitResponse(r)

RFQSpec == RFQInit /\ [][RFQNext]_rfqVars

----------------------------------------------------------------------------
\* Types; unless requests have raced, a supplier is a recipient once and every
\* recipient has a scope.
RFQTypeOK ==
  /\ \A row \in rows : row.supplier \in Suppliers /\ row.status \in RecipientStatuses
  /\ checklist \in [Documents -> DocumentStates]
  /\ metadata.scopes \in [Suppliers -> Scopes] /\ metadata.responses \subseteq 1..MaxResponses
  /\ ~raced =>
       /\ Cardinality(rows) = Cardinality(Selected(rows))
       /\ \A s \in Selected(rows) : metadata.scopes[s] # "none"

\* A plan that is not reported as stale has the recipients, scopes, contacts
\* and attachments of now, whatever requests have raced
\* (docs/gmail-drive-workflow.md:20).
PlanIsCurrent ==
  metadata.plan.made /\ ~Stale => metadata.plan.drafts = DraftsFor(rows, checklist, metadata)

\* A response that was acknowledged stays in the index, and its supplier's status
\* follows it from selection to selection, unless requests have raced
\* (docs/gmail-drive-workflow.md:18 and :37).
ResponsesAreKept ==
  ~raced =>
    /\ acknowledged \subseteq metadata.responses
    /\ \A row \in rows : row.status = followed[row.supplier]

\* A package whose handlers overwrite one column: a plan not called stale is
\* today's, and without a race nothing that was acknowledged is dropped.
PackageHolds == RFQTypeOK /\ PlanIsCurrent /\ ResponsesAreKept

==============================================================================
