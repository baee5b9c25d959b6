------------------------------- MODULE MCTrade -------------------------------
(* Small instances of the components around a project's money: requests for *)
(* quotes, the hand-off of quotes to an estimate, the ledger and the        *)
(* invoices.  They share no lock, and a behaviour is one of a single        *)
(* subject: the state space is the sum of theirs, not their product.        *)
EXTENDS RFQPackages, QuoteHandoff, CustomerInvoices, ProjectLedger, TLC

VARIABLE subject

MCSupplierOf == ("q1" :> "s1") @@ ("q2" :> "s2") @@ ("q3" :> "s1")
MCRevisionOf == ("q1" :> 1) @@ ("q2" :> 1) @@ ("q3" :> 2)

MCInit ==
  /\ subject \in {"rfq", "handoff", "invoices", "ledger"}
  /\ RFQInit /\ HandoffInit /\ InvoicesInit /\ LedgerInit
  /\ subject # "handoff" => quotes = [q \in Quotes |-> NotSaved]
  /\ subject # "ledger" => estimate = [p \in Positions |-> 1]

MCNext ==
  \/ /\ subject = "rfq" /\ RFQNext /\ UNCHANGED subject
     /\ UNCHANGED <<handoffVars, invoiceVars, ledgerVars>>
  \/ /\ subject = "handoff" /\ HandoffNext /\ UNCHANGED subject
     /\ UNCHANGED <<rfqVars, invoiceVars, ledgerVars>>
  \/ /\ subject = "invoices" /\ InvoicesNext /\ UNCHANGED subject
     /\ UNCHANGED <<rfqVars, handoffVars, ledgerVars>>
  \/ /\ subject = "ledger" /\ LedgerNext /\ UNCHANGED subject
     /\ UNCHANGED <<rfqVars, handoffVars, invoiceVars>>

MCSpec ==
  MCInit /\ [][MCNext]_<<subject, rfqVars, handoffVars, invoiceVars, ledgerVars>>

-----------------------------------------------------------------------------
\* The bounds of each subject.

\* Every table of quotes for one draft, a few tables for longer behaviours.
FewQuotes(qs) == qs["q3"] = NotSaved /\ \A q \in Quotes : qs[q] \in {NotSaved, [amount |-> 1, mark |-> "none"]}
HandoffSmall ==
  /\ \A b \in DOMAIN bids : \A i \in DOMAIN bids[b].lines :
       bids[b].lines[i].code = "site" => ~bids[b].lines[i].activity
  /\ Len(bids) > 1 \/ changes > 0 \/ overlapped \/ (bids # <<>> /\ bids[1].source = "workspace") =>
       FewQuotes(quotes) /\ \A b \in DOMAIN bids : bids[b].source = "handoff" => FewQuotes(bids[b].from)

\* What is issued, packaged, closed out or chatted about is looked at with the
\* other invoices in their simple states.
InvoicesSmall ==
   /\ (\E n \in Numbers : Taken(n) /\ invoice[n].status # "draft") =>
        /\ \A m \in Numbers : ~Taken(m) \/ (m = 1 /\ invoice[m].origin = "manual" /\ invoice[m].bill = 1)
        /\ \A c \in Clients : client[c].at \in {"idle", "status"}
        /\ worked = 0 /\ ~closedOut
   /\ \A c \in Clients : client[c].at = "status" => client[c].n = 1 /\ worked = 0 /\ ~closedOut /\ ~Taken(2)
   /\ closedOut \/ worked > 0 =>
        /\ projects = {} /\ \A c \in Clients : client[c].at # "chat" /\ (client[c].at = "manual" => client[c].new.bill = 1)
        /\ Cardinality({n \in Numbers : invoice[n].origin = "manual"}) <= 1
   /\ closedOut => worked > 0 \/ (\A n \in Numbers : ~Taken(n))

\* Costs are posted beside an estimate that does not change.
LedgerSmall ==
   LET costing == answered # {} \/ \E i \in Importers : importer[i].at = "cost" IN
   /\ costing => meta.baseline = Nothing /\ revised = 0 /\ (\A p \in Positions : estimate[p] = 1) /\ ~manual /\ \A i \in Importers : importer[i].at # "budget"
   /\ ~rushed /\ estimate[2] # 2 /\ estimate[1] # 0
   /\ manual => revised = 0
   /\ meta.plan.decided => Cardinality({i \in Importers : importer[i] # NoImporter}) <= 1

MCSmall == HandoffSmall /\ InvoicesSmall /\ (subject = "ledger" => LedgerSmall)
==============================================================================
