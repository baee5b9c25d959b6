---------------------------- MODULE TradeProofs -----------------------------
(***************************************************************************)
(* Theorems about what is bought and billed for a job: the packages that ask *)
(* suppliers for prices, the hand-off of a quote to the estimate, the      *)
(* invoices to customers and the ledger of a project, for any number of    *)
(* suppliers, quotes, requests and invoices, and for any of the bounds.  One *)
(* part per component: its inductive invariant, a lemma per action, the    *)
(* theorem.                                                                *)
(***************************************************************************)
EXTENDS RFQPackages, QuoteHandoff, CustomerInvoices, ProjectLedger,
        FiniteSetTheorems, FunctionTheorems, SequenceTheorems, TLAPS

-----------------------------------------------------------------------------
(* The packages.                                                           *)

\* What a recipient's row holds
RowOK(row) ==
  /\ row = [supplier |-> row.supplier, selection |-> row.selection, status |-> row.status]
  /\ row.supplier \in Suppliers /\ row.status \in RecipientStatuses

\* The drafts that the manifest of a plan stands for.
DraftsOfSource(source) ==
  {[supplier |-> x.supplier, scope |-> x.scope,
    attachments |-> {d \in Documents : [title |-> d, attached |-> TRUE] \in source.documents}] : x \in source.recipients}

\* The drafts of a plan are those of its own manifest.
MetadataOK(md) ==
  /\ md = [scopes |-> md.scopes, responses |-> md.responses, plan |-> md.plan]
  /\ md.scopes \in [Suppliers -> Scopes]
  /\ md.plan.made => md.plan.drafts = DraftsOfSource(md.plan.source)

\* The suppliers that are selected are those that have a scope.
ScopesMatch(rs, md) == Selected(rs) = {s \in Suppliers : md.scopes[s] # "none"}

\* What a request has read
ReadOK(read, docs, md) ==
  /\ \A row \in read : RowOK(row)
  /\ docs \in [Documents -> DocumentStates]
  /\ MetadataOK(md) /\ md.responses \subseteq acknowledged
  /\ ~raced => ScopesMatch(read, md)

\* What the requests under way have read
WorkOK ==
  /\ working = [r \in Sends |-> working[r]]
  /\ \A r \in Sends : working[r].loaded => ReadOK(working[r].rows, working[r].checklist, working[r].metadata)

\* A supplier has one row, in the status that was last recorded for it.
RowsFollow ==
  /\ \A x, y \in rows : x.supplier = y.supplier => x = y
  /\ \A row \in rows : row.status = followed[row.supplier]

\* The invariant: as long as no request has written over another one's, what was
\* acknowledged is stored, and every row is where its supplier has got to.
RFQInv ==
  /\ ReadOK(rows, checklist, metadata) /\ WorkOK
  /\ \E k \in 0..MaxResponses : acknowledged = 1..k
  /\ followed \in [Suppliers -> RecipientStatuses] /\ raced \in BOOLEAN
  /\ ~raced => RowsFollow /\ acknowledged \subseteq metadata.responses

\* The drafts of a plan depend on what its manifest names, and on nothing else.
LEMMA SourceDrafts ==
  ASSUME NEW rs, NEW docs \in [Documents -> DocumentStates], NEW md
  PROVE  DraftsFor(rs, docs, md) = DraftsOfSource(Fingerprint(rs, docs, md))
<1> DEFINE F == Fingerprint(rs, docs, md)
<1>1. \A d \in Documents : docs[d] = "attached" <=> [title |-> d, attached |-> TRUE] \in F.documents
  BY DEF Fingerprint
<1>2. {d \in Documents : docs[d] = "attached"} = {d \in Documents : [title |-> d, attached |-> TRUE] \in F.documents}
  BY <1>1
<1>3. F.recipients = {[supplier |-> s, scope |-> md.scopes[s]] : s \in Selected(rs)}
  BY DEF Fingerprint
<1> DEFINE attached == {d \in Documents : docs[d] = "attached"}
           DraftOf(x) == [supplier |-> x.supplier, scope |-> x.scope, attachments |-> attached]
           Entry(s) == [supplier |-> s, scope |-> md.scopes[s]]
<1>4. DraftsOfSource(F) = {DraftOf(x) : x \in F.recipients}
  BY <1>2 DEF DraftsOfSource
<1>5. DraftsFor(rs, docs, md) = {DraftOf(Entry(s)) : s \in Selected(rs)}
  BY DEF DraftsFor
<1>6. F.recipients = {Entry(s) : s \in Selected(rs)}
  BY <1>3
<1> HIDE DEF DraftOf, Entry, F
<1>7. {DraftOf(x) : x \in {Entry(s) : s \in Selected(rs)}} = {DraftOf(Entry(s)) : s \in Selected(rs)}
  OBVIOUS
<1>8. QED
  BY <1>4, <1>5, <1>6, <1>7 DEF F

\* It is true of a package without recipients.
LEMMA RFQInitInv == RFQInit => RFQInv
<1> SUFFICES ASSUME RFQInit PROVE RFQInv
  OBVIOUS
<1>1. Selected(rows) = {}
  BY DEF RFQInit, Selected
<1>2. /\ metadata.scopes = [s \in Suppliers |-> "none"] /\ metadata.responses = {}
      /\ metadata.plan.made = FALSE
      /\ metadata = [scopes |-> metadata.scopes, responses |-> metadata.responses, plan |-> metadata.plan]
  BY DEF RFQInit, Unplanned
<1>3. ReadOK(rows, checklist, metadata)
  BY <1>1, <1>2 DEF RFQInit, ReadOK, MetadataOK, ScopesMatch, Scopes, DocumentStates
<1>4. WorkOK
  BY DEF RFQInit, WorkOK, NoWork
<1>5. acknowledged = 1..0
  BY DEF RFQInit
<1>6. 0 \in 0..MaxResponses
  BY RFQAssumption
<1>7. QED
  BY <1>1, <1>3, <1>4, <1>5, <1>6 DEF RFQInit, RFQInv, RowsFollow, RecipientStatuses

\* It implies what the run checks.
LEMMA RFQInvHolds == RFQInv => PackageHolds
<1> SUFFICES ASSUME RFQInv PROVE PackageHolds
  OBVIOUS
<1>1. PICK k \in 0..MaxResponses : acknowledged = 1..k
  BY DEF RFQInv
<1>2. metadata.responses \subseteq 1..MaxResponses
  <2>1. metadata.responses \subseteq acknowledged
    BY DEF RFQInv, ReadOK
  <2>2. 1..k \subseteq 1..MaxResponses
    BY RFQAssumption
  <2>3. QED
    BY <1>1, <2>1, <2>2
<1>3. ASSUME ~raced PROVE Cardinality(rows) = Cardinality(Selected(rows))
  <2> DEFINE first == [s \in Selected(rows) |-> CHOOSE row \in rows : row.supplier = s]
  <2>1. \A s \in Selected(rows) : first[s] \in rows /\ first[s].supplier = s
    BY DEF Selected
  <2>2. \A row \in rows : row.supplier \in Selected(rows) /\ first[row.supplier] = row
    BY <1>3, <2>1 DEF Selected, RFQInv, RowsFollow
  <2>3. first \in Bijection(Selected(rows), rows)
    BY <2>1, <2>2, Fun_IsBij, ZenonT(60)
  <2>4. IsFiniteSet(Selected(rows))
    <3>1. Selected(rows) \subseteq Suppliers
      BY DEF Selected, RFQInv, ReadOK, RowOK
    <3>2. QED
      BY <3>1, RFQAssumption, FS_Subset
  <2>5. ExistsBijection(Selected(rows), rows)
    BY <2>3 DEF ExistsBijection
  <2>6. QED
    BY <2>4, <2>5, FS_Bijection
<1>4. ASSUME ~raced PROVE \A s \in Selected(rows) : metadata.scopes[s] # "none"
  BY <1>4 DEF RFQInv, ReadOK, ScopesMatch
<1>5. RFQTypeOK
  BY <1>2, <1>3, <1>4 DEF RFQTypeOK, RFQInv, ReadOK, RowOK, MetadataOK
<1>6. PlanIsCurrent
  BY SourceDrafts DEF PlanIsCurrent, Stale, RFQInv, ReadOK, MetadataOK
<1>7. ResponsesAreKept
  BY DEF ResponsesAreKept, RFQInv, RowsFollow
<1>8. QED
  BY <1>5, <1>6, <1>7 DEF PackageHolds

\* A request has ended and everybody else has what they had.
LEMMA WorkStays ==
  ASSUME RFQInv, NEW r \in Sends, working' = [working EXCEPT ![r] = NoWork],
         raced => raced', acknowledged \subseteq acknowledged'
  PROVE  WorkOK'
<1>1. working' = [q \in Sends |-> working'[q]]
  BY DEF RFQInv, WorkOK
<1>2. ASSUME NEW q \in Sends, working'[q].loaded
      PROVE  ReadOK(working[q].rows, working[q].checklist, working[q].metadata)'
  <2>1. working'[q] = working[q]
    BY <1>2 DEF RFQInv, WorkOK, NoWork
  <2> PICK rd, dc, mt : rd = working[q].rows /\ dc = working[q].checklist /\ mt = working[q].metadata
    OBVIOUS
  <2>2. ReadOK(rd, dc, mt)
    BY <1>2, <2>1 DEF RFQInv, WorkOK
  <2>3. ReadOK(rd, dc, mt)'
    BY <2>2 DEF ReadOK
  <2>4. rd = working'[q].rows /\ dc = working'[q].checklist /\ mt = working'[q].metadata
    BY <2>1
  <2>5. QED
    BY <2>3, <2>4
<1>3. QED
  BY <1>1, <1>2 DEF WorkOK

\* A request writes the metadata that it has read, or its own over them.
LEMMA EndedWork ==
  ASSUME RFQInv, NEW r \in Sends, working[r].loaded, NEW m, MetadataOK(m), NEW missed \in BOOLEAN,
         Ended(r, m, missed), m.responses \subseteq acknowledged', acknowledged \subseteq acknowledged'
  PROVE  /\ WorkOK' /\ raced' \in BOOLEAN /\ (~raced' => ~raced /\ ~missed)
         /\ MetadataOK(metadata') /\ metadata'.responses \subseteq acknowledged'
         /\ \/ m = working[r].metadata /\ metadata' = metadata
            \/ metadata' = m /\ m # working[r].metadata /\ (~raced' => metadata = working[r].metadata)
<1>1. raced' \in BOOLEAN /\ (raced => raced') /\ (~raced' => ~raced /\ ~missed)
  BY DEF Ended, RFQInv
<1>2. WorkOK'
  BY <1>1, WorkStays DEF Ended
<1>3. /\ \/ m = working[r].metadata /\ metadata' = metadata
         \/ metadata' = m /\ m # working[r].metadata /\ (~raced' => metadata = working[r].metadata)
  BY DEF Ended, RFQInv
<1>4. MetadataOK(metadata) /\ metadata.responses \subseteq acknowledged
  BY DEF RFQInv, ReadOK
<1>5. QED
  BY <1>1, <1>2, <1>3, <1>4

\* What was acknowledged does not change.
LEMMA SameAcknowledged ==
  ASSUME RFQInv, acknowledged' = acknowledged
  PROVE  (\E k \in 0..MaxResponses : acknowledged = 1..k)'
<1>1. PICK k \in 0..MaxResponses : acknowledged = 1..k
  BY DEF RFQInv
<1>2. acknowledged' = 1..k
  BY <1>1
<1>3. QED
  BY <1>2

\* A request reads the package.
LEMMA RFQBeginStep ==
  ASSUME RFQInv, NEW r \in Sends, Begin(r)
  PROVE  RFQInv'
<1>1. /\ rows' = rows /\ checklist' = checklist /\ metadata' = metadata
      /\ acknowledged' = acknowledged /\ followed' = followed /\ raced' = raced
  BY DEF Begin
<1>2. ASSUME NEW rd, NEW dc, NEW mt, ReadOK(rd, dc, mt)
      PROVE  ReadOK(rd, dc, mt)'
  BY <1>1, <1>2 DEF ReadOK
<1>3. WorkOK'
  <2>1. working' = [q \in Sends |-> working'[q]]
    BY DEF RFQInv, WorkOK, Begin
  <2>2. ASSUME NEW q \in Sends, working'[q].loaded
        PROVE  ReadOK(working[q].rows, working[q].checklist, working[q].metadata)'
    <3> PICK rd, dc, mt : rd = working'[q].rows /\ dc = working'[q].checklist /\ mt = working'[q].metadata
      OBVIOUS
    <3>1. ReadOK(rd, dc, mt)
      <4>1. CASE q = r
        <5>1. rd = rows /\ dc = checklist /\ mt = metadata
          BY <4>1 DEF RFQInv, WorkOK, Begin
        <5>2. QED
          BY <5>1 DEF RFQInv
      <4>2. CASE q # r
        <5>1. working'[q] = working[q]
          BY <4>2 DEF RFQInv, WorkOK, Begin
        <5>2. QED
          BY <5>1, <2>2 DEF RFQInv, WorkOK
      <4>3. QED
        BY <4>1, <4>2
    <3>2. ReadOK(rd, dc, mt)'
      BY <3>1, <1>2
    <3>3. QED
      BY <3>2
  <2>3. QED
    BY <2>1, <2>2 DEF WorkOK
<1>4. ReadOK(rows, checklist, metadata)'
  <2>1. ReadOK(rows, checklist, metadata)
    BY DEF RFQInv
  <2>2. QED
    BY <2>1, <1>1 DEF ReadOK
<1>5. RowsFollow' = RowsFollow
  BY <1>1 DEF RowsFollow
<1>6. QED
  BY <1>1, <1>3, <1>4, <1>5, SameAcknowledged DEF RFQInv

\* What a handler that writes the column may make of it.
LEMMA MetadataChanges ==
  ASSUME NEW md, MetadataOK(md)
  PROVE  /\ \A f \in [Suppliers -> Scopes] :
              /\ MetadataOK(KeptMetadata(md, f))
              /\ KeptMetadata(md, f).scopes = f /\ KeptMetadata(md, f).responses = md.responses
         /\ \A n : LET new == [md EXCEPT !.responses = @ \cup {n}] IN
              MetadataOK(new) /\ new.scopes = md.scopes /\ new.responses = md.responses \cup {n}
         /\ \A rs : \A docs \in [Documents -> DocumentStates] :
              LET new == [md EXCEPT !.plan = Plan(rs, docs, md)] IN
              MetadataOK(new) /\ new.scopes = md.scopes /\ new.responses = md.responses
<1>1. ASSUME NEW f \in [Suppliers -> Scopes]
      PROVE  /\ MetadataOK(KeptMetadata(md, f))
             /\ KeptMetadata(md, f).scopes = f /\ KeptMetadata(md, f).responses = md.responses
  BY DEF MetadataOK, KeptMetadata
<1>2. ASSUME NEW n
      PROVE  LET new == [md EXCEPT !.responses = @ \cup {n}] IN
             MetadataOK(new) /\ new.scopes = md.scopes /\ new.responses = md.responses \cup {n}
  BY DEF MetadataOK
<1>3. ASSUME NEW rs, NEW docs \in [Documents -> DocumentStates]
      PROVE  LET new == [md EXCEPT !.plan = Plan(rs, docs, md)] IN
             MetadataOK(new) /\ new.scopes = md.scopes /\ new.responses = md.responses
  <2> PICK plan : plan = Plan(rs, docs, md)
    OBVIOUS
  <2>1. plan.drafts = DraftsOfSource(plan.source)
    BY SourceDrafts DEF Plan
  <2>2. LET new == [md EXCEPT !.plan = plan] IN
        MetadataOK(new) /\ new.scopes = md.scopes /\ new.responses = md.responses
    BY <2>1 DEF MetadataOK
  <2>3. QED
    BY <2>2
<1>4. QED
  BY <1>1, <1>2, <1>3

\* A handler that changes nothing but the column.
LEMMA ColumnStep ==
  ASSUME RFQInv, NEW r \in Sends, working[r].loaded, NEW m, MetadataOK(m), Ended(r, m, FALSE),
         m.responses = working[r].metadata.responses,
         ~raced => ScopesMatch(working[r].rows, m),
         checklist' \in [Documents -> DocumentStates], UNCHANGED <<rows, acknowledged, followed>>
  PROVE  RFQInv'
<1>1. ReadOK(working[r].rows, working[r].checklist, working[r].metadata)
  BY DEF RFQInv, WorkOK
<1>2. /\ WorkOK' /\ raced' \in BOOLEAN /\ (~raced' => ~raced)
      /\ MetadataOK(metadata') /\ metadata'.responses \subseteq acknowledged'
      /\ \/ m = working[r].metadata /\ metadata' = metadata
         \/ metadata' = m /\ (~raced' => metadata = working[r].metadata)
  <2>1. m.responses \subseteq acknowledged'
    BY <1>1 DEF ReadOK
  <2>2. QED
    BY <2>1, EndedWork
<1>3. ASSUME ~raced' PROVE ScopesMatch(rows', metadata')
  <2>1. ScopesMatch(rows, metadata)
    BY <1>2, <1>3 DEF RFQInv, ReadOK
  <2>2. CASE metadata' = metadata
    BY <2>1, <2>2 DEF ScopesMatch
  <2>3. CASE metadata' = m /\ metadata = working[r].metadata
    <3>1. ScopesMatch(working[r].rows, metadata)
      BY <1>1, <1>2, <1>3, <2>3 DEF ReadOK
    <3>2. Selected(working[r].rows) = Selected(rows)
      BY <2>1, <3>1 DEF ScopesMatch
    <3>3. ScopesMatch(working[r].rows, m)
      BY <1>2, <1>3
    <3>4. QED
      BY <2>3, <3>2, <3>3 DEF ScopesMatch
  <2>4. QED
    BY <1>2, <1>3, <2>2, <2>3
<1>4. ASSUME ~raced' PROVE RowsFollow' /\ acknowledged' \subseteq metadata'.responses
  BY <1>2, <1>4 DEF RFQInv, RowsFollow
<1>5. ReadOK(rows, checklist, metadata)'
  BY <1>2, <1>3 DEF RFQInv, ReadOK
<1>6. (\E k \in 0..MaxResponses : acknowledged = 1..k)'
  BY SameAcknowledged
<1>7. QED
  BY <1>2, <1>4, <1>5, <1>6 DEF RFQInv

\* The scopes are assigned.
LEMMA ScopesStep ==
  ASSUME RFQInv, NEW r \in Sends, CommitScopes(r)
  PROVE  RFQInv'
<1>1. ReadOK(working[r].rows, working[r].checklist, working[r].metadata)
  BY DEF RFQInv, WorkOK, CommitScopes
<1> PICK rd, mt : rd = working[r].rows /\ mt = working[r].metadata
  OBVIOUS
<1>2. PICK force \in BOOLEAN : Ended(r, [mt EXCEPT !.scopes =
            [s \in Suppliers |-> IF s \in Selected(rd) /\ (force \/ @[s] = "none") THEN "default" ELSE @[s]]], FALSE)
  BY DEF CommitScopes
<1> DEFINE f == [s \in Suppliers |-> IF s \in Selected(rd) /\ (force \/ mt.scopes[s] = "none") THEN "default" ELSE mt.scopes[s]]
<1>3. MetadataOK(mt) /\ mt.responses \subseteq acknowledged /\ (~raced => ScopesMatch(rd, mt))
  BY <1>1 DEF ReadOK
<1>4. f \in [Suppliers -> Scopes]
  BY <1>3 DEF MetadataOK, Scopes
<1>5. Ended(r, KeptMetadata(mt, f), FALSE)
  BY <1>2, <1>3 DEF KeptMetadata, MetadataOK
<1>6. ~raced => ScopesMatch(rd, KeptMetadata(mt, f))
  BY <1>3, <1>4, MetadataChanges DEF ScopesMatch
<1>7. checklist' \in [Documents -> DocumentStates] /\ UNCHANGED <<rows, acknowledged, followed>>
  BY DEF CommitScopes, RFQInv, ReadOK
<1> HIDE DEF f
<1>8. QED
  BY <1>3, <1>4, <1>5, <1>6, <1>7, MetadataChanges, ColumnStep DEF CommitScopes

\* A plan is made, and its drafts with it.
LEMMA PlanStep ==
  ASSUME RFQInv, NEW r \in Sends, CommitPlan(r)
  PROVE  RFQInv'
<1>1. ReadOK(working[r].rows, working[r].checklist, working[r].metadata)
  BY DEF RFQInv, WorkOK, CommitPlan
<1> PICK rd, dc, mt : rd = working[r].rows /\ dc = working[r].checklist /\ mt = working[r].metadata
  OBVIOUS
<1> PICK new : new = [mt EXCEPT !.plan = Plan(rd, dc, mt)]
  OBVIOUS
<1>2. Ended(r, new, FALSE)
  BY DEF CommitPlan
<1>3. MetadataOK(mt) /\ dc \in [Documents -> DocumentStates] /\ (~raced => ScopesMatch(rd, mt))
  BY <1>1 DEF ReadOK
<1>4. MetadataOK(new) /\ new.scopes = mt.scopes /\ new.responses = mt.responses
  BY <1>3, MetadataChanges
<1>5. checklist' \in [Documents -> DocumentStates] /\ UNCHANGED <<rows, acknowledged, followed>>
  BY DEF CommitPlan, RFQInv, ReadOK
<1>6. ~raced => ScopesMatch(rd, new)
  BY <1>3, <1>4 DEF ScopesMatch
<1>7. QED
  BY <1>2, <1>4, <1>5, <1>6, ColumnStep DEF CommitPlan

\* A document is attached, or taken away.
LEMMA DocumentStep ==
  ASSUME RFQInv, NEW r \in Sends, CommitDocument(r)
  PROVE  RFQInv'
<1>1. ReadOK(working[r].rows, working[r].checklist, working[r].metadata)
  BY DEF RFQInv, WorkOK, CommitDocument
<1>2. checklist' \in [Documents -> DocumentStates] /\ UNCHANGED <<rows, acknowledged, followed>>
  BY DEF CommitDocument, RFQInv, ReadOK
<1>3. MetadataOK(working[r].metadata) /\ (~raced => ScopesMatch(working[r].rows, working[r].metadata))
  BY <1>1 DEF ReadOK
<1>4. QED
  BY <1>2, <1>3, ColumnStep DEF CommitDocument

\* The recipients of a selection are inserted after the DELETE.
LEMMA SelectStep ==
  ASSUME RFQInv, NEW r \in Sends, NEW given \in Given, CommitSelect(r, given)
  PROVE  RFQInv'
<1>1. ReadOK(working[r].rows, working[r].checklist, working[r].metadata)
  BY DEF RFQInv, WorkOK, CommitSelect
<1> PICK rd, mt : rd = working[r].rows /\ mt = working[r].metadata
  OBVIOUS
<1> DEFINE chosen == {s \in Suppliers : given[s] # "none"}
           f == [s \in Suppliers |-> IF s \in chosen THEN given[s] ELSE "none"]
           m == KeptMetadata(mt, f)
<1> DEFINE next == CHOOSE n \in 1..MaxSelections : \A row \in rows \cup working[r].rows : row.selection < n
<1> DEFINE Selects(gone, status) ==
          /\ \A s \in chosen : status[s] \in KeptStatus(working[r].rows, s)
          /\ rows' = (rows \ gone) \cup
               {[supplier |-> s, selection |-> next, status |-> status[s]] : s \in chosen}
          /\ Ended(r, KeptMetadata(working[r].metadata, f), rows # working[r].rows)
          /\ followed' = [s \in Suppliers |-> IF s \in chosen /\ s \in Selected(rows) THEN followed[s] ELSE "pending"]
<1>0. \E gone \in {working[r].rows, rows} : \E status \in [chosen -> RecipientStatuses] : Selects(gone, status)
  BY Zenon DEF CommitSelect
<1>2. PICK gone \in {rd, rows}, status \in [chosen -> RecipientStatuses] :
          /\ \A s \in chosen : status[s] \in KeptStatus(rd, s)
          /\ rows' = (rows \ gone) \cup
               {[supplier |-> s, selection |-> next, status |-> status[s]] : s \in chosen}
          /\ Ended(r, m, rows # rd)
          /\ followed' = [s \in Suppliers |-> IF s \in chosen /\ s \in Selected(rows) THEN followed[s] ELSE "pending"]
  BY <1>0
<1> HIDE DEF next
<1>3. UNCHANGED <<checklist, acknowledged>>
  BY DEF CommitSelect
<1>4. MetadataOK(mt) /\ mt.responses \subseteq acknowledged /\ (~raced => ScopesMatch(rd, mt)) /\ (\A row \in rd : RowOK(row))
  BY <1>1 DEF ReadOK
<1>5. f \in [Suppliers -> Scopes] /\ {s \in Suppliers : f[s] # "none"} = chosen
  BY DEF Given, Scopes
<1>6. MetadataOK(m) /\ m.scopes = f /\ m.responses = mt.responses
  BY <1>4, <1>5, MetadataChanges
<1> HIDE DEF f, m
<1>7. /\ WorkOK' /\ raced' \in BOOLEAN /\ (~raced' => ~raced /\ rows = rd)
      /\ MetadataOK(metadata') /\ metadata'.responses \subseteq acknowledged'
      /\ \/ m = mt /\ metadata' = metadata
         \/ metadata' = m /\ (~raced' => metadata = mt)
  <2>1. m.responses \subseteq acknowledged'
    BY <1>3, <1>4, <1>6
  <2>2. working[r].loaded /\ (rows # rd) \in BOOLEAN
    BY DEF CommitSelect
  <2> PICK missed \in BOOLEAN : missed = (rows # rd)
    OBVIOUS
  <2>3. Ended(r, m, missed)
    BY <1>2
  <2>4. acknowledged \subseteq acknowledged'
    BY <1>3
  <2>5. /\ WorkOK' /\ raced' \in BOOLEAN /\ (~raced' => ~raced /\ ~missed)
        /\ MetadataOK(metadata') /\ metadata'.responses \subseteq acknowledged'
        /\ \/ m = mt /\ metadata' = metadata
           \/ metadata' = m /\ m # mt /\ (~raced' => metadata = mt)
    BY <1>6, <2>1, <2>2, <2>3, <2>4, EndedWork
  <2>6. QED
    BY <2>5
<1> DEFINE new == {[supplier |-> s, selection |-> next, status |-> status[s]] : s \in chosen}
<1>8. /\ \A row \in new : RowOK(row)
      /\ \A x, y \in new : x.supplier = y.supplier => x = y
      /\ Selected(new) = chosen
      /\ \A row \in new : row.supplier \in chosen /\ row.status = status[row.supplier]
  <2>1. \A row \in new : \E s \in chosen : row = [supplier |-> s, selection |-> next, status |-> status[s]]
    OBVIOUS
  <2>2. \A s \in chosen : [supplier |-> s, selection |-> next, status |-> status[s]] \in new
    OBVIOUS
  <2>3. \A s \in chosen : s \in Suppliers /\ status[s] \in RecipientStatuses
    OBVIOUS
  <2> HIDE DEF new, chosen
  <2>4. \A row \in new : row.supplier \in chosen /\ row.status = status[row.supplier] /\ RowOK(row)
    BY <2>1, <2>3 DEF RowOK
  <2>5. ASSUME NEW x \in new, NEW y \in new, x.supplier = y.supplier PROVE x = y
    <3>1. PICK s \in chosen : x = [supplier |-> s, selection |-> next, status |-> status[s]]
      BY <2>1
    <3>2. PICK u \in chosen : y = [supplier |-> u, selection |-> next, status |-> status[u]]
      BY <2>1
    <3>3. s = u
      BY <2>5, <3>1, <3>2
    <3>4. QED
      BY <3>1, <3>2, <3>3
  <2>6. Selected(new) = chosen
    <3>1. \A s \in chosen : \E row \in new : row.supplier = s
      BY <2>2
    <3>2. QED
      BY <2>4, <3>1 DEF Selected
  <2>7. QED
    BY <2>4, <2>5, <2>6
<1>9. \A row \in rows' : RowOK(row)
  BY <1>2, <1>8 DEF RFQInv, ReadOK
<1>10. ASSUME ~raced' PROVE rows' = new
  BY <1>2, <1>7, <1>10
<1>11. ASSUME ~raced' PROVE ScopesMatch(rows', metadata')
  <2>1. Selected(rows') = chosen
    BY <1>8, <1>10, <1>11
  <2>2. CASE m = mt /\ metadata' = metadata
    <3>1. ScopesMatch(rd, m) /\ rd = rows /\ ScopesMatch(rows, metadata)
      BY <1>4, <1>7, <1>11, <2>2 DEF RFQInv, ReadOK
    <3>2. Selected(rows) = chosen
      BY <3>1, <1>5, <1>6 DEF ScopesMatch
    <3>3. QED
      BY <2>1, <2>2, <3>1, <3>2 DEF ScopesMatch
  <2>3. CASE metadata' = m
    BY <1>5, <1>6, <2>1, <2>3 DEF ScopesMatch
  <2>4. QED
    BY <1>7, <2>2, <2>3
<1>12. followed' \in [Suppliers -> RecipientStatuses]
  BY <1>2 DEF RFQInv, RecipientStatuses
<1>13. ASSUME ~raced' PROVE \A s \in chosen : status[s] = followed'[s]
  <2>1. rd = rows /\ RowsFollow
    BY <1>7, <1>13 DEF RFQInv
  <2>2. SUFFICES ASSUME NEW s \in chosen PROVE status[s] = followed'[s]
    OBVIOUS
  <2>3. CASE s \in Selected(rows)
    <3>1. status[s] \in {row.status : row \in {x \in rows : x.supplier = s}}
      BY <1>2, <2>1, <2>3 DEF KeptStatus
    <3>2. status[s] = followed[s]
      BY <2>1, <3>1 DEF RowsFollow
    <3>3. QED
      BY <1>2, <2>3, <3>2
  <2>4. CASE s \notin Selected(rows)
    BY <1>2, <2>1, <2>4 DEF KeptStatus
  <2>5. QED
    BY <2>3, <2>4
<1>14. ASSUME ~raced' PROVE RowsFollow'
  <2>1. rows' = new
    BY <1>10, <1>14
  <2>2. \A x, y \in rows' : x.supplier = y.supplier => x = y
    BY <2>1, <1>8
  <2>3. \A row \in rows' : row.status = followed'[row.supplier]
    BY <2>1, <1>8, <1>13, <1>14
  <2>4. QED
    BY <2>2, <2>3 DEF RowsFollow
<1>15. ASSUME ~raced' PROVE acknowledged' \subseteq metadata'.responses
  BY <1>3, <1>6, <1>7, <1>15 DEF RFQInv
<1>16. ReadOK(rows, checklist, metadata)'
  BY <1>3, <1>7, <1>9, <1>11 DEF RFQInv, ReadOK
<1>17. (\E k \in 0..MaxResponses : acknowledged = 1..k)'
  BY <1>3, SameAcknowledged
<1>18. QED
  BY <1>7, <1>12, <1>14, <1>15, <1>16, <1>17 DEF RFQInv

\* The row of a recipient is updated by its identity.
LEMMA StatusOfRow ==
  ASSUME RFQInv, NEW row, RowOK(row), NEW status \in RecipientStatuses,
         \E x \in rows : x.supplier = row.supplier /\ x.selection = row.selection,
         rows' = {IF x.supplier = row.supplier /\ x.selection = row.selection
                  THEN [x EXCEPT !.status = status] ELSE x : x \in rows},
         followed' = [followed EXCEPT ![row.supplier] = status]
  PROVE  /\ \A x \in rows' : RowOK(x)
         /\ Selected(rows') = Selected(rows)
         /\ followed' \in [Suppliers -> RecipientStatuses]
         /\ ~raced => RowsFollow'
<1> DEFINE Same(x) == x.supplier = row.supplier /\ x.selection = row.selection
           After(x) == IF Same(x) THEN [x EXCEPT !.status = status] ELSE x
<1>1. \A x \in rows : RowOK(x)
  BY DEF RFQInv, ReadOK
<1>2. ASSUME NEW x \in rows
      PROVE  /\ RowOK(After(x)) /\ After(x).supplier = x.supplier
             /\ After(x).status = (IF Same(x) THEN status ELSE x.status)
  BY <1>1 DEF RowOK
<1>3. rows' = {After(x) : x \in rows}
  OBVIOUS
<1>4. followed' \in [Suppliers -> RecipientStatuses]
  BY DEF RFQInv
<1> HIDE DEF After
<1>5. Selected(rows') = Selected(rows)
  <2>1. \A s : s \in Selected(rows') <=> \E x \in rows : s = After(x).supplier
    BY <1>3 DEF Selected
  <2>2. \A s : s \in Selected(rows) <=> \E x \in rows : s = x.supplier
    BY DEF Selected
  <2>3. \A x \in rows : After(x).supplier = x.supplier
    BY <1>2
  <2>4. \A s : s \in Selected(rows') <=> s \in Selected(rows)
    BY <2>1, <2>2, <2>3
  <2>5. QED
    BY <2>4
<1>6. ASSUME ~raced PROVE RowsFollow'
  <2>1. RowsFollow
    BY <1>6 DEF RFQInv
  <2>2. \A x \in rows : After(x).status = followed'[x.supplier]
    <3>1. \A x \in rows : Same(x) <=> x.supplier = row.supplier
      BY <2>1 DEF RowsFollow
    <3>2. row.supplier \in Suppliers /\ \A x \in rows : x.supplier \in Suppliers
      BY <1>1 DEF RowOK
    <3>3. followed'[row.supplier] = status /\ \A s \in Suppliers : s # row.supplier => followed'[s] = followed[s]
      BY <3>2 DEF RFQInv
    <3>4. \A x \in rows : x.status = followed[x.supplier]
      BY <2>1 DEF RowsFollow
    <3> HIDE DEF Same
    <3>5. QED
      BY <1>2, <3>1, <3>2, <3>3, <3>4
  <2>3. \A x, y \in rows' : x.supplier = y.supplier => x = y
    BY <1>2, <1>3, <2>1 DEF RowsFollow
  <2>4. \A x \in rows' : x.status = followed'[x.supplier]
    BY <1>2, <1>3, <2>2
  <2>5. QED
    BY <2>3, <2>4 DEF RowsFollow
<1>7. \A x \in rows' : RowOK(x)
  BY <1>2, <1>3
<1>8. QED
  BY <1>4, <1>5, <1>6, <1>7

\* A recipient is sent its draft, answers or is cancelled.
LEMMA RecipientStep ==
  ASSUME RFQInv, NEW r \in Sends, CommitRecipient(r)
  PROVE  RFQInv'
<1>1. ReadOK(working[r].rows, working[r].checklist, working[r].metadata) /\ working[r].loaded
  BY DEF RFQInv, WorkOK, CommitRecipient
<1>2. PICK row \in working[r].rows, status \in RecipientStatuses :
        SetStatus(r, row, status, working[r].metadata)
  BY DEF CommitRecipient
<1>3. UNCHANGED <<checklist, acknowledged>>
  BY DEF CommitRecipient
<1>4. RowOK(row) /\ MetadataOK(working[r].metadata) /\ working[r].metadata.responses \subseteq acknowledged
  BY <1>1 DEF ReadOK
<1>5. CASE \E x \in rows : x.supplier = row.supplier /\ x.selection = row.selection
  <2>1. /\ rows' = {IF x.supplier = row.supplier /\ x.selection = row.selection
                    THEN [x EXCEPT !.status = status] ELSE x : x \in rows}
        /\ followed' = [followed EXCEPT ![row.supplier] = status]
        /\ Ended(r, working[r].metadata, FALSE)
    BY <1>2, <1>5 DEF SetStatus
  <2>2. /\ \A x \in rows' : RowOK(x)
        /\ Selected(rows') = Selected(rows)
        /\ followed' \in [Suppliers -> RecipientStatuses]
        /\ ~raced => RowsFollow'
    BY <1>4, <1>5, <2>1, StatusOfRow
  <2>3. /\ WorkOK' /\ raced' \in BOOLEAN /\ (~raced' => ~raced)
    BY <1>1, <1>3, <1>4, <2>1, EndedWork
  <2>4. metadata' = metadata
    BY <2>1 DEF Ended
  <2>5. ReadOK(rows, checklist, metadata)'
    BY <1>3, <2>2, <2>3, <2>4 DEF RFQInv, ReadOK, ScopesMatch
  <2>6. (\E k \in 0..MaxResponses : acknowledged = 1..k)'
    BY <1>3, SameAcknowledged
  <2>7. QED
    BY <1>3, <2>2, <2>3, <2>4, <2>5, <2>6 DEF RFQInv
<1>6. CASE ~(\E x \in rows : x.supplier = row.supplier /\ x.selection = row.selection)
  <2>1. /\ working' = [working EXCEPT ![r] = NoWork]
        /\ UNCHANGED <<rows, metadata, followed, raced>>
    BY <1>2, <1>6 DEF SetStatus
  <2>2. WorkOK'
    BY <1>3, <2>1, WorkStays
  <2>3. ReadOK(rows, checklist, metadata)'
    BY <1>3, <2>1 DEF RFQInv, ReadOK
  <2>4. (\E k \in 0..MaxResponses : acknowledged = 1..k)'
    BY <1>3, SameAcknowledged
  <2>5. QED
    BY <1>3, <2>1, <2>2, <2>3, <2>4 DEF RFQInv, RowsFollow
<1>7. QED
  BY <1>5, <1>6

\* A response is recorded.
LEMMA ResponseStep ==
  ASSUME RFQInv, NEW r \in Sends, CommitResponse(r)
  PROVE  RFQInv'
<1>1. ReadOK(working[r].rows, working[r].checklist, working[r].metadata) /\ working[r].loaded
  BY DEF RFQInv, WorkOK, CommitResponse
<1> PICK mt : mt = working[r].metadata
  OBVIOUS
<1> PICK response : response = Cardinality(acknowledged) + 1
  OBVIOUS
<1> DEFINE m == [mt EXCEPT !.responses = @ \cup {response}]
<1>2. PICK row \in working[r].rows :
        /\ SetStatus(r, row, "replied", m)
        /\ acknowledged' = IF rows' = rows /\ metadata' = metadata THEN acknowledged ELSE acknowledged \cup {response}
  BY DEF CommitResponse
<1>3. UNCHANGED checklist /\ Cardinality(acknowledged) < MaxResponses
  BY DEF CommitResponse
<1>4. RowOK(row) /\ MetadataOK(mt) /\ mt.responses \subseteq acknowledged
  BY <1>1 DEF ReadOK
<1>5. MetadataOK(m) /\ m.scopes = mt.scopes /\ m.responses = mt.responses \cup {response}
  BY <1>4, MetadataChanges
<1> HIDE DEF m
<1>6. response \notin acknowledged /\ \E k \in 0..MaxResponses : acknowledged \cup {response} = 1..k
  <2>1. PICK k \in 0..MaxResponses : acknowledged = 1..k
    BY DEF RFQInv
  <2>2. k \in Nat /\ k \in Int
    BY RFQAssumption
  <2>3. Cardinality(acknowledged) = k
    <3>1. Cardinality(1..k) = IF 1 > k THEN 0 ELSE k - 1 + 1
      <4>1. 1 \in Int
        OBVIOUS
      <4>2. QED
        BY <2>2, <4>1, FS_Interval, Zenon
    <3>2. QED
      BY <2>1, <2>2, <3>1
  <2>4. response = k + 1 /\ k < MaxResponses /\ MaxResponses \in Nat
    BY <1>3, <2>3, RFQAssumption
  <2>5. k + 1 \in 0..MaxResponses
    BY <2>2, <2>4
  <2>6. (1..k) \cup {k + 1} = 1..(k + 1) /\ k + 1 \notin 1..k
    BY <2>2
  <2>7. QED
    BY <2>1, <2>4, <2>5, <2>6
<1>7. CASE \E x \in rows : x.supplier = row.supplier /\ x.selection = row.selection
  <2>1. /\ rows' = {IF x.supplier = row.supplier /\ x.selection = row.selection
                    THEN [x EXCEPT !.status = "replied"] ELSE x : x \in rows}
        /\ followed' = [followed EXCEPT ![row.supplier] = "replied"]
        /\ Ended(r, m, FALSE)
    BY <1>2, <1>7 DEF SetStatus
  <2>2. /\ \A x \in rows' : RowOK(x)
        /\ Selected(rows') = Selected(rows)
        /\ followed' \in [Suppliers -> RecipientStatuses]
        /\ ~raced => RowsFollow'
    BY <1>4, <1>7, <2>1, StatusOfRow DEF RecipientStatuses
  <2>3. m # mt /\ metadata' = m
    <3>1. m # mt
      BY <1>4, <1>5, <1>6
    <3>2. QED
      BY <2>1, <3>1 DEF Ended
  <2>4. metadata' # metadata
    BY <1>5, <1>6, <2>3 DEF RFQInv, ReadOK
  <2>5. acknowledged' = acknowledged \cup {response}
    BY <1>2, <2>4
  <2>6. m.responses \subseteq acknowledged' /\ acknowledged \subseteq acknowledged'
    BY <1>4, <1>5, <2>5
  <2>7. /\ WorkOK' /\ raced' \in BOOLEAN /\ (~raced' => ~raced)
        /\ ~raced' => metadata = mt
    BY <1>1, <1>5, <2>1, <2>3, <2>6, EndedWork
  <2>8. ~raced' => ScopesMatch(rows', metadata')
    BY <1>5, <2>2, <2>3, <2>7 DEF RFQInv, ReadOK, ScopesMatch
  <2>9. ~raced' => acknowledged' \subseteq metadata'.responses
    BY <1>5, <2>3, <2>5, <2>7 DEF RFQInv
  <2>10. ReadOK(rows, checklist, metadata)'
    BY <1>3, <1>5, <2>2, <2>3, <2>6, <2>8 DEF RFQInv, ReadOK
  <2>11. (\E k \in 0..MaxResponses : acknowledged = 1..k)'
    BY <1>6, <2>5
  <2>12. QED
    BY <2>2, <2>7, <2>9, <2>10, <2>11 DEF RFQInv
<1>8. CASE ~(\E x \in rows : x.supplier = row.supplier /\ x.selection = row.selection)
  <2>1. /\ working' = [working EXCEPT ![r] = NoWork]
        /\ UNCHANGED <<rows, metadata, followed, raced>>
    BY <1>2, <1>8 DEF SetStatus
  <2>2. acknowledged' = acknowledged
    BY <1>2, <2>1
  <2>3. WorkOK'
    BY <2>1, <2>2, WorkStays
  <2>4. ReadOK(rows, checklist, metadata)'
    BY <1>3, <2>1, <2>2 DEF RFQInv, ReadOK
  <2>5. (\E k \in 0..MaxResponses : acknowledged = 1..k)'
    BY <2>2, SameAcknowledged
  <2>6. QED
    BY <1>3, <2>1, <2>2, <2>3, <2>4, <2>5 DEF RFQInv, RowsFollow
<1>9. QED
  BY <1>7, <1>8

\* Every step keeps the invariant.
LEMMA RFQStep == RFQInv /\ [RFQNext]_rfqVars => RFQInv'
<1> SUFFICES ASSUME RFQInv, [RFQNext]_rfqVars PROVE RFQInv'
  OBVIOUS
<1>1. ASSUME NEW r \in Sends, Begin(r) PROVE RFQInv'
  BY <1>1, RFQBeginStep
<1>2. ASSUME NEW r \in Sends, NEW given \in Given, CommitSelect(r, given) PROVE RFQInv'
  BY <1>2, SelectStep
<1>3. ASSUME NEW r \in Sends, CommitScopes(r) PROVE RFQInv'
  BY <1>3, ScopesStep
<1>4. ASSUME NEW r \in Sends, CommitRecipient(r) PROVE RFQInv'
  BY <1>4, RecipientStep
<1>5. ASSUME NEW r \in Sends, CommitDocument(r) PROVE RFQInv'
  BY <1>5, DocumentStep
<1>6. ASSUME NEW r \in Sends, CommitPlan(r) PROVE RFQInv'
  BY <1>6, PlanStep
<1>7. ASSUME NEW r \in Sends, CommitResponse(r) PROVE RFQInv'
  BY <1>7, ResponseStep
<1>8. CASE UNCHANGED rfqVars
  BY <1>8 DEF RFQInv, ReadOK, WorkOK, RowsFollow, rfqVars
<1>9. QED
  BY <1>1, <1>2, <1>3, <1>4, <1>5, <1>6, <1>7, <1>8 DEF RFQNext

\* The promise of a package (services/rfq_packages.py, rfq_workflows.py): a plan that
\* is not called stale is of the rows as they are now; and unless requests have
\* raced, a response that was acknowledged stays in the index, and the status of
\* its supplier follows it.
THEOREM PackagesAreKept == RFQSpec => []PackageHolds
<1>1. RFQInit => RFQInv
  BY RFQInitInv
<1>2. RFQInv /\ [RFQNext]_rfqVars => RFQInv'
  BY RFQStep
<1>3. RFQInv => PackageHolds
  BY RFQInvHolds
<1>4. QED
  BY <1>1, <1>2, <1>3, PTL DEF RFQSpec


-----------------------------------------------------------------------------
(* The hand-off.                                                           *)

\* What the office sees of the quotes
QuoteTables == [Quotes -> QuoteRows \cup {NotSaved}]

\* A stored draft carries the costs of its lines.
Drafts ==
  {[lines |-> l, costs |-> Summary(l), source |-> s, base |-> n, from |-> f] :
     l \in Seq(Lines), s \in {"workspace", "handoff"}, n \in Nat, f \in QuoteTables \cup {<<>>}}

\* What a hand-off has read
HandoffStates ==
  {NoHandoff} \cup [at: {"quotes"}, quotes: QuoteTables] \cup [at: {"draft"}, quotes: QuoteTables, base: Nat]

\* The draft at b was merged from lines that came before it.
MergedFrom(b) ==
  /\ bids[b].from \in QuoteTables
  /\ ~Doubled(BaseLines(bids[b].base))
  /\ \E q \in Selection(bids[b].from) : bids[b].lines = Merged(BaseLines(bids[b].base), bids[b].from, q)

\* While hand-offs come one at a time: the one under way has read the last
\* draft that a hand-off made, and it is not its own.
OneAtATime ==
  /\ \A h, k \in Handoffs : handoff[h] # NoHandoff /\ handoff[k] # NoHandoff => h = k
  /\ \A h \in Handoffs : handoff[h].at = "draft" =>
       /\ handoff[h].base > 0 => ~Matches(bids[handoff[h].base], handoff[h].quotes)
       /\ \A c \in (handoff[h].base + 1)..Len(bids) : bids[c].source = "workspace"

\* The invariant: a draft of a hand-off was merged from the draft it names.
HandoffInv ==
  /\ quotes \in QuoteTables /\ bids \in Seq(Drafts) /\ handoff \in [Handoffs -> HandoffStates]
  /\ opened \in 0..Len(bids)
  /\ \A h \in Handoffs : handoff[h].at = "draft" => handoff[h].base \in 0..Len(bids)
  /\ \A b \in 1..Len(bids) : bids[b].base \in 0..(b - 1)
  /\ \A b \in 1..Len(bids) : bids[b].source = "handoff" => MergedFrom(b)
  /\ ~overlapped => OneAtATime /\ StoredOnce

\* A stored draft is its fields.
LEMMA DraftFields ==
  ASSUME NEW d \in Drafts
  PROVE  /\ d = [lines |-> d.lines, costs |-> d.costs, source |-> d.source, base |-> d.base, from |-> d.from]
         /\ d.lines \in Seq(Lines) /\ d.costs = Summary(d.lines) /\ d.source \in {"workspace", "handoff"}
         /\ d.base \in Nat /\ d.from \in QuoteTables \cup {<<>>}
<1>1. PICK l \in Seq(Lines), s \in {"workspace", "handoff"}, n \in Nat, f \in QuoteTables \cup {<<>>} :
        d = [lines |-> l, costs |-> Summary(l), source |-> s, base |-> n, from |-> f]
  BY DEF Drafts
<1>2. QED
  BY <1>1

----------------------------------------------------------------------------
\* The selection

\* There are finitely many current quotes.
LEMMA CurrentFinite ==
  ASSUME NEW qs
  PROVE  CurrentQuotes(qs) \subseteq Quotes /\ IsFiniteSet(CurrentQuotes(qs))
<1>1. CurrentQuotes(qs) \subseteq Quotes
  BY DEF CurrentQuotes, Saved
<1>2. QED
  BY <1>1, HandoffAssumption, FS_Subset

\* The rivals are the eligible ones of the current quotes.
LEMMA RivalsAreCurrent ==
  ASSUME NEW qs
  PROVE  Rivals(qs) = {q \in CurrentQuotes(qs) : Eligible(qs[q])}
<1>1. \A q, x \in Quotes : RevisionOf[x] <= RevisionOf[q] <=> ~(RevisionOf[x] > RevisionOf[q])
  BY HandoffAssumption
<1>2. Saved(qs) \subseteq Quotes
  BY DEF Saved
<1>3. \A q \in Saved(qs) : q \in CurrentQuotes(qs) <=>
        ~\E x \in Saved(qs) : SupplierOf[x] = SupplierOf[q] /\ RevisionOf[x] > RevisionOf[q]
  BY <1>1, <1>2 DEF CurrentQuotes
<1>4. CurrentQuotes(qs) \subseteq Saved(qs)
  BY DEF CurrentQuotes
<1>5. QED
  BY <1>3, <1>4 DEF Rivals, Eligible

\* The quote of a selection is a rival, it is marked when one of them is, and
\* only a reason excuses a cheaper rival.
LEMMA SelectionFacts ==
  ASSUME NEW qs \in QuoteTables, NEW q \in Selection(qs)
  PROVE  /\ q \in Rivals(qs)
         /\ (\E x \in Rivals(qs) : qs[x].mark # "none") => qs[q].mark # "none"
         /\ (\A x \in Rivals(qs) : qs[q].amount <= qs[x].amount) \/ qs[q].mark = "explained"
<1> DEFINE current == CurrentQuotes(qs)
           eligible == {x \in current : Eligible(qs[x])}
           lowest == {x \in eligible : \A y \in eligible : qs[x].amount <= qs[y].amount}
           marked == {x \in current : qs[x].mark \in {"chosen", "explained"}}
<1>1. Rivals(qs) = eligible
  BY RivalsAreCurrent
<1>2. \A x \in current : qs[x] \in QuoteRows
  BY DEF CurrentQuotes, Saved, QuoteTables
<1>3. IsFiniteSet(marked) /\ Cardinality(marked) \in Nat
  BY CurrentFinite, FS_Subset, FS_CardinalityType
<1> PICK card \in Nat : card = Cardinality(marked)
  BY <1>3
<1> PICK chosen : chosen = {x \in marked \cap eligible : x \in lowest \/ qs[x].mark = "explained"}
  OBVIOUS
<1>4. q \in CASE eligible = {} -> {} [] card > 1 -> {} [] card = 1 -> chosen [] OTHER -> lowest
  BY DEF Selection
<1>5. \/ card = 1 /\ q \in chosen
      \/ card = 0 /\ q \in lowest
  BY <1>4
<1>6. CASE q \in chosen
  BY <1>1, <1>6
<1>7. CASE card = 0 /\ q \in lowest
  <2>1. marked = {}
    BY <1>3, <1>7, FS_EmptySet
  <2>2. \A x \in Rivals(qs) : qs[x].mark = "none"
    BY <1>1, <1>2, <2>1 DEF QuoteRows
  <2>3. QED
    BY <1>1, <1>7, <2>2
<1>8. QED
  BY <1>5, <1>6, <1>7

\* The estimate's own choice among the vendors is the selected quote.
LEMMA VendorOfSelection ==
  ASSUME NEW qs \in QuoteTables, NEW q \in Selection(qs)
  PROVE  LET priced == SelectedVendorQuote(VendorsOf(qs, q)) IN
         priced.quote = q /\ priced.amount = qs[q].amount
<1> DEFINE Entry(x) == [quote |-> x, amount |-> qs[x].amount, selected |-> x = q, explained |-> qs[x].mark = "explained"]
           vendors == VendorsOf(qs, q)
           selected == {v \in vendors : v.selected}
<1>1. vendors = {Entry(x) : x \in Rivals(qs)}
  BY RivalsAreCurrent DEF VendorsOf
<1>2. q \in Rivals(qs)
  BY SelectionFacts
<1>3. \A x \in Rivals(qs) : Entry(x).selected <=> x = q
  OBVIOUS
<1>4. \A x \in Rivals(qs) : Entry(x).quote = x /\ Entry(x).amount = qs[x].amount /\ (Entry(x).explained <=> qs[x].mark = "explained")
  OBVIOUS
<1>5. \A x \in Rivals(qs) : qs[x].amount \in 0..2
  BY RivalsAreCurrent DEF CurrentQuotes, Saved, QuoteTables, QuoteRows
<1> HIDE DEF Entry, vendors
<1>6. selected = {Entry(q)}
  BY <1>1, <1>2, <1>3
<1>7. Cardinality(selected) = 1 /\ (CHOOSE v \in selected : TRUE) = Entry(q)
  BY <1>6, FS_Singleton
<1> PICK lowest : lowest = CHOOSE v \in vendors : \A x \in vendors : v.amount <= x.amount
  OBVIOUS
<1>8. Entry(q).amount <= lowest.amount \/ Entry(q).explained
  <2>1. CASE \A x \in Rivals(qs) : qs[q].amount <= qs[x].amount
    <3>1. Entry(q) \in vendors /\ \A v \in vendors : Entry(q).amount <= v.amount
      BY <1>1, <1>2, <1>4, <2>1
    <3>2. lowest \in vendors
      BY <3>1
    <3>3. QED
      BY <3>1, <3>2
  <2>2. CASE qs[q].mark = "explained"
    BY <1>2, <1>4, <2>2
  <2>3. QED
    BY <2>1, <2>2, SelectionFacts
<1>9. SelectedVendorQuote(vendors) = Entry(q)
  <2> PICK only : only = CHOOSE v \in selected : TRUE
    OBVIOUS
  <2>1. SelectedVendorQuote(vendors) = IF Cardinality(selected) = 1 /\ (only.amount <= lowest.amount \/ only.explained) THEN only ELSE lowest
    BY DEF SelectedVendorQuote
  <2>2. only = Entry(q)
    BY <1>7
  <2>3. QED
    BY <1>7, <1>8, <2>1, <2>2
<1>10. QED
  BY <1>2, <1>4, <1>9 DEF vendors

\* The vendors of a line are of the selection that it was priced with.
LEMMA VendorsType ==
  ASSUME NEW qs \in QuoteTables, NEW q \in Selection(qs)
  PROVE  VendorsOf(qs, q) \subseteq VendorQuotes /\ VendorsOf(qs, q) # {}
<1>1. VendorsOf(qs, q) # {}
  BY SelectionFacts, RivalsAreCurrent DEF VendorsOf
<1>2. \A x \in CurrentQuotes(qs) : x \in Quotes /\ qs[x] \in QuoteRows
  BY DEF CurrentQuotes, Saved, QuoteTables
<1>3. \A x \in CurrentQuotes(qs) : Eligible(qs[x]) => qs[x].amount \in 1..2
  BY <1>2 DEF Eligible, QuoteRows
<1>4. ASSUME NEW x \in CurrentQuotes(qs), Eligible(qs[x])
      PROVE  [quote |-> x, amount |-> qs[x].amount, selected |-> x = q, explained |-> qs[x].mark = "explained"] \in VendorQuotes
  <2>1. (x = q) \in BOOLEAN /\ (qs[x].mark = "explained") \in BOOLEAN
    OBVIOUS
  <2>2. QED
    BY <1>2, <1>3, <1>4, <2>1 DEF VendorQuotes
<1>5. VendorsOf(qs, q) \subseteq VendorQuotes
  BY <1>4 DEF VendorsOf
<1>6. QED
  BY <1>1, <1>5

----------------------------------------------------------------------------
\* The merge

\* A merged line keeps its code, its crew and its machine.
LEMMA LineTypes ==
  ASSUME NEW qs \in QuoteTables, NEW q \in Selection(qs), NEW line \in Lines
  PROVE  /\ MergedLine(line, qs, q) \in Lines /\ NewLine(qs, q) \in Lines
         /\ MergedLine(line, qs, q).code = line.code /\ NewLine(qs, q).code = "pipe"
         /\ MergedLine(line, qs, q).crew = line.crew /\ MergedLine(line, qs, q).machine = line.machine
         /\ MergedLine(line, qs, q).vendors = VendorsOf(qs, q) /\ NewLine(qs, q).vendors = VendorsOf(qs, q)
         /\ MergedLine(line, qs, q).direct = 0 /\ NewLine(qs, q).direct = 0
<1> PICK vendors \in SUBSET VendorQuotes : vendors = VendorsOf(qs, q)
  BY VendorsType
<1>1. NewLine(qs, q) = [code |-> "pipe", activity |-> FALSE, crew |-> NoCrew, machine |-> "none", direct |-> 0,
                        vendors |-> vendors]
  BY DEF NewLine
<1>2. MergedLine(line, qs, q) = [line EXCEPT !.direct = 0, !.vendors = vendors]
  BY DEF MergedLine
<1>3. /\ NewLine(qs, q) \in Lines /\ NewLine(qs, q).code = "pipe" /\ NewLine(qs, q).vendors = VendorsOf(qs, q)
      /\ NewLine(qs, q).direct = 0
  BY <1>1 DEF Lines, Codes, NoCrew, Machines
<1>4. PICK merged : merged = MergedLine(line, qs, q)
  OBVIOUS
<1>5. PICK code \in Codes, activity \in BOOLEAN, crew \in [operator: 0..1, labourer: 0..1], machine \in Machines, direct \in 0..1, old \in SUBSET VendorQuotes :
        line = [code |-> code, activity |-> activity, crew |-> crew, machine |-> machine, direct |-> direct, vendors |-> old]
  BY DEF Lines
<1>6. merged = [code |-> code, activity |-> activity, crew |-> crew, machine |-> machine, direct |-> 0, vendors |-> vendors]
  BY <1>2, <1>4, <1>5
<1>7. merged \in Lines
  BY <1>6 DEF Lines
<1>8. QED
  BY <1>3, <1>4, <1>5, <1>6, <1>7

\* Exactly one line of the merge is priced by suppliers; the others stay where
\* they were.
LEMMA MergedFacts ==
  ASSUME NEW lines \in Seq(Lines), ~Doubled(lines), NEW qs \in QuoteTables, NEW q \in Selection(qs)
  PROVE  LET new == Merged(lines, qs, q) IN
         /\ new \in Seq(Lines)
         /\ \E i \in DOMAIN new : \A j \in DOMAIN new : new[j].code = "pipe" <=> j = i
         /\ \A i \in DOMAIN new : new[i].code = "pipe" => new[i].vendors = VendorsOf(qs, q) /\ new[i].direct = 0
         /\ \A j \in DOMAIN lines : /\ j \in DOMAIN new
                                    /\ IF lines[j].code # "pipe" THEN new[j] = lines[j]
                                       ELSE new[j].crew = lines[j].crew /\ new[j].machine = lines[j].machine
         /\ \A j \in DOMAIN new : new[j].code # "pipe" => j \in DOMAIN lines
         /\ Len(new) = Len(lines) + IF \E j \in DOMAIN lines : lines[j].code = "pipe" THEN 0 ELSE 1
<1> PICK new : new = Merged(lines, qs, q)
  OBVIOUS
<1>1. Len(lines) \in Nat /\ DOMAIN lines = 1..Len(lines) /\ \A i \in 1..Len(lines) : lines[i] \in Lines
  BY LenProperties, ElementOfSeq
<1>2. CASE \E i \in DOMAIN lines : lines[i].code = "pipe"
  <2>1. new = [i \in 1..Len(lines) |-> IF lines[i].code = "pipe" THEN MergedLine(lines[i], qs, q) ELSE lines[i]]
    BY <1>1, <1>2 DEF Merged
  <2>2. \A i \in 1..Len(lines) : /\ new[i] \in Lines /\ new[i].code = lines[i].code
                                 /\ IF lines[i].code # "pipe" THEN new[i] = lines[i]
                                    ELSE /\ new[i].crew = lines[i].crew /\ new[i].machine = lines[i].machine
                                         /\ new[i].vendors = VendorsOf(qs, q) /\ new[i].direct = 0
    BY <1>1, <2>1, LineTypes
  <2>3. new \in Seq(Lines) /\ Len(new) = Len(lines) /\ DOMAIN new = 1..Len(lines)
    <3>1. new \in [1..Len(lines) -> Lines]
      BY <2>1, <2>2
    <3>2. QED
      BY <1>1, <3>1, SeqDef, LenProperties
  <2>4. \E i \in DOMAIN new : \A j \in DOMAIN new : new[j].code = "pipe" <=> j = i
    <3>1. PICK i \in 1..Len(lines) : lines[i].code = "pipe"
      BY <1>1, <1>2
    <3>2. \A j \in 1..Len(lines) : lines[j].code = "pipe" => j = i
      BY <1>1, <3>1 DEF Doubled
    <3>3. \A j \in 1..Len(lines) : new[j].code = "pipe" <=> j = i
      BY <2>2, <3>1, <3>2
    <3>4. QED
      BY <2>3, <3>1, <3>3
  <2>5. Len(new) = Len(lines) + IF \E j \in DOMAIN lines : lines[j].code = "pipe" THEN 0 ELSE 1
    <3>1. (IF \E j \in DOMAIN lines : lines[j].code = "pipe" THEN 0 ELSE 1) = 0
      BY <1>2
    <3>2. Len(lines) + 0 = Len(lines)
      BY <1>1
    <3>3. QED
      BY <2>3, <3>1, <3>2
  <2>6. QED
    BY <1>1, <2>2, <2>3, <2>4, <2>5
<1>3. CASE ~(\E i \in DOMAIN lines : lines[i].code = "pipe")
  <2> PICK added \in Lines : added = NewLine(qs, q) /\ added.code = "pipe" /\ added.vendors = VendorsOf(qs, q) /\ added.direct = 0
    <3>1. NewLine(qs, q) \in Lines
      <4> PICK vendors \in SUBSET VendorQuotes : vendors = VendorsOf(qs, q)
        BY VendorsType
      <4>1. NewLine(qs, q) = [code |-> "pipe", activity |-> FALSE, crew |-> NoCrew, machine |-> "none", direct |-> 0,
                              vendors |-> vendors]
        BY DEF NewLine
      <4>2. QED
        BY <4>1 DEF Lines, Codes, NoCrew, Machines
    <3>2. QED
      BY <3>1 DEF NewLine
  <2>1. new = Append(lines, added)
    BY <1>3 DEF Merged
  <2>2. /\ new \in Seq(Lines) /\ Len(new) = Len(lines) + 1
        /\ \A i \in 1..Len(lines) : new[i] = lines[i]
        /\ new[Len(lines) + 1] = added
    BY <2>1, AppendProperties
  <2>3. DOMAIN new = 1..(Len(lines) + 1)
    BY <2>2, LenProperties
  <2>4. \A j \in 1..(Len(lines) + 1) : new[j].code = "pipe" <=> j = Len(lines) + 1
    <3>1. \A j \in 1..Len(lines) : new[j].code # "pipe"
      BY <1>1, <1>3, <2>2
    <3>2. \A j \in 1..(Len(lines) + 1) : j \in 1..Len(lines) \/ j = Len(lines) + 1
      BY <1>1
    <3>3. Len(lines) + 1 \notin 1..Len(lines)
      BY <1>1
    <3>4. QED
      BY <2>2, <3>1, <3>2, <3>3
  <2>5. \A j \in 1..Len(lines) : j \in 1..(Len(lines) + 1)
    BY <1>1
  <2>6. \A j \in 1..(Len(lines) + 1) : new[j].code # "pipe" => j \in 1..Len(lines)
    BY <1>1, <2>4
  <2>7. Len(lines) + 1 \in DOMAIN new
    BY <1>1, <2>3
  <2>8. Len(new) = Len(lines) + IF \E j \in DOMAIN lines : lines[j].code = "pipe" THEN 0 ELSE 1
    BY <1>3, <2>2
  <2>9. \E i \in DOMAIN new : \A j \in DOMAIN new : new[j].code = "pipe" <=> j = i
    BY <2>3, <2>4, <2>7
  <2>10. \A i \in DOMAIN new : new[i].code = "pipe" => new[i].vendors = VendorsOf(qs, q) /\ new[i].direct = 0
    BY <2>2, <2>3, <2>4
  <2>11. \A j \in DOMAIN lines : /\ j \in DOMAIN new
                                 /\ lines[j].code # "pipe" /\ new[j] = lines[j]
    BY <1>1, <1>3, <2>2, <2>3, <2>5
  <2>12. QED
    BY <1>1, <2>2, <2>3, <2>6, <2>8, <2>9, <2>10, <2>11
<1>4. QED
  BY <1>2, <1>3

----------------------------------------------------------------------------
\* The drafts

\* The draft at a version has the fields of a draft, and is based on one before it.
LEMMA DraftAt ==
  ASSUME HandoffInv, NEW b \in 1..Len(bids)
  PROVE  /\ bids[b] \in Drafts /\ Len(bids) \in Nat /\ b \in Nat /\ b > 0 /\ DOMAIN bids = 1..Len(bids)
         /\ bids[b].base \in 0..(b - 1) /\ bids[b].base <= Len(bids)
         /\ bids[b].base > 0 => bids[b].base \in 1..Len(bids)
<1>1. bids \in Seq(Drafts)
  BY DEF HandoffInv
<1>2. Len(bids) \in Nat /\ DOMAIN bids = 1..Len(bids) /\ bids[b] \in Drafts
  BY <1>1, LenProperties, ElementOfSeq
<1>3. b \in Nat /\ b > 0 /\ b <= Len(bids)
  BY <1>2
<1> PICK base : base = bids[b].base
  OBVIOUS
<1>4. base \in 0..(b - 1)
  BY DEF HandoffInv
<1>5. base <= Len(bids) /\ (base > 0 => base \in 1..Len(bids))
  BY <1>2, <1>3, <1>4
<1>6. QED
  BY <1>2, <1>3, <1>4, <1>5

\* The lines of a base are lines.
LEMMA BaseLinesType ==
  ASSUME HandoffInv, NEW n \in 0..Len(bids)
  PROVE  BaseLines(n) \in Seq(Lines)
<1>1. CASE n = 0
  BY <1>1, EmptySeq DEF BaseLines
<1>2. CASE n # 0
  <2>1. bids \in Seq(Drafts)
    BY DEF HandoffInv
  <2>2. Len(bids) \in Nat
    BY <2>1, LenProperties
  <2>3. n \in 1..Len(bids)
    BY <1>2, <2>2
  <2>4. bids[n] \in Drafts
    BY <2>1, <2>3, ElementOfSeq
  <2>5. QED
    BY <1>2, <2>4, DraftFields DEF BaseLines
<1>3. QED
  BY <1>1, <1>2

\* A hand-off's draft, with its base and its quote.
LEMMA MergedDraft ==
  ASSUME HandoffInv, NEW b \in HandoffDrafts
  PROVE  /\ b \in 1..Len(bids) /\ bids[b] \in Drafts /\ bids[b].from \in QuoteTables
         /\ BaseLines(bids[b].base) \in Seq(Lines) /\ ~Doubled(BaseLines(bids[b].base))
         /\ \E q \in Selection(bids[b].from) : bids[b].lines = Merged(BaseLines(bids[b].base), bids[b].from, q)
<1>1. b \in 1..Len(bids) /\ bids[b].source = "handoff"
  <2>1. bids \in Seq(Drafts)
    BY DEF HandoffInv
  <2>2. DOMAIN bids = 1..Len(bids)
    BY <2>1, LenProperties
  <2>3. QED
    BY <2>2 DEF HandoffDrafts
<1>2. MergedFrom(b)
  BY <1>1 DEF HandoffInv
<1>3. bids[b] \in Drafts /\ bids[b].base \in 0..Len(bids)
  BY <1>1, DraftAt
<1>4. QED
  BY <1>1, <1>2, <1>3, BaseLinesType DEF MergedFrom

\* It is true before the first draft.
LEMMA HandoffInitInv == HandoffInit => HandoffInv
<1> SUFFICES ASSUME HandoffInit PROVE HandoffInv
  OBVIOUS
<1>1. bids = <<>> /\ bids \in Seq(Drafts) /\ Len(bids) = 0
  BY EmptySeq DEF HandoffInit
<1>2. \A b : b \notin 1..Len(bids)
  BY <1>1
<1>3. \A h \in Handoffs : handoff[h] = NoHandoff /\ handoff[h].at = "idle"
  BY DEF HandoffInit, NoHandoff
<1>4. OneAtATime
  BY <1>3 DEF OneAtATime
<1>5. StoredOnce
  <2>1. 1..(Len(bids) - 1) = {}
    BY <1>1
  <2>2. QED
    BY <2>1 DEF StoredOnce
<1>6. handoff \in [Handoffs -> HandoffStates] /\ quotes \in QuoteTables /\ opened \in 0..Len(bids)
  BY <1>1 DEF HandoffInit, HandoffStates, QuoteTables
<1>7. QED
  BY <1>1, <1>2, <1>3, <1>4, <1>5, <1>6 DEF HandoffInv

\* It implies the types of the tables,
LEMMA TypesOfHandoff == HandoffInv => HandoffTypeOK
<1> SUFFICES ASSUME HandoffInv PROVE HandoffTypeOK
  OBVIOUS
<1>1. DOMAIN bids = 1..Len(bids)
  BY LenProperties DEF HandoffInv
<1>2. ASSUME NEW b \in DOMAIN bids
      PROVE  /\ bids[b].lines \in Seq(Lines) /\ DOMAIN bids[b].costs = DOMAIN bids[b].lines
             /\ bids[b].base \in 0..(b - 1) /\ bids[b].source \in {"workspace", "handoff"}
             /\ bids[b].source = "handoff" => bids[b].from \in QuoteTables
  <2>1. b \in 1..Len(bids) /\ bids[b] \in Drafts /\ bids[b].base \in 0..(b - 1)
    BY <1>1, <1>2, DraftAt
  <2>2. bids[b].source = "handoff" => bids[b].from \in QuoteTables
    BY <2>1 DEF HandoffInv, MergedFrom
  <2>3. DOMAIN bids[b].costs = DOMAIN bids[b].lines
    BY <2>1, DraftFields DEF Summary
  <2>4. QED
    BY <2>1, <2>2, <2>3, DraftFields
<1>3. QED
  BY <1>2 DEF HandoffTypeOK, HandoffInv, QuoteTables

\* that the lines which are not of the pipe are those of the base,
LEMMA OthersAreKept == HandoffInv => OtherLinesKept
<1> SUFFICES ASSUME HandoffInv, NEW b \in HandoffDrafts
    PROVE LET lines == bids[b].lines
              base == BaseLines(bids[b].base)
          IN /\ \E i \in DOMAIN lines : /\ lines[i].vendors # {} /\ lines[i].direct = 0
                                        /\ \A j \in DOMAIN lines : lines[j].code = "pipe" <=> j = i
             /\ \A j \in DOMAIN base : IF base[j].code # "pipe" THEN lines[j] = base[j]
                                       ELSE lines[j].crew = base[j].crew /\ lines[j].machine = base[j].machine
             /\ Len(lines) = Len(base) + IF \E j \in DOMAIN base : base[j].code = "pipe" THEN 0 ELSE 1
  BY DEF OtherLinesKept
<1> PICK base, from, lines : base = BaseLines(bids[b].base) /\ from = bids[b].from /\ lines = bids[b].lines
  OBVIOUS
<1>1. base \in Seq(Lines) /\ ~Doubled(base) /\ from \in QuoteTables
  BY MergedDraft
<1>2. PICK q \in Selection(from) : lines = Merged(base, from, q)
  BY MergedDraft
<1>3. VendorsOf(from, q) # {}
  BY <1>1, VendorsType
<1>4. /\ \E i \in DOMAIN lines : \A j \in DOMAIN lines : lines[j].code = "pipe" <=> j = i
      /\ \A i \in DOMAIN lines : lines[i].code = "pipe" => lines[i].vendors = VendorsOf(from, q) /\ lines[i].direct = 0
      /\ \A j \in DOMAIN base : /\ j \in DOMAIN lines
                                /\ IF base[j].code # "pipe" THEN lines[j] = base[j]
                                   ELSE lines[j].crew = base[j].crew /\ lines[j].machine = base[j].machine
      /\ Len(lines) = Len(base) + IF \E j \in DOMAIN base : base[j].code = "pipe" THEN 0 ELSE 1
  <2>1. \E i \in DOMAIN lines : \A j \in DOMAIN lines : lines[j].code = "pipe" <=> j = i
    BY <1>1, <1>2, MergedFacts
  <2>2. \A i \in DOMAIN lines : lines[i].code = "pipe" => lines[i].vendors = VendorsOf(from, q) /\ lines[i].direct = 0
    BY <1>1, <1>2, MergedFacts
  <2>3. ASSUME NEW j \in DOMAIN base
        PROVE  IF base[j].code # "pipe" THEN lines[j] = base[j]
               ELSE lines[j].crew = base[j].crew /\ lines[j].machine = base[j].machine
    BY <1>1, <1>2, MergedFacts
  <2>4. Len(lines) = Len(base) + IF \E j \in DOMAIN base : base[j].code = "pipe" THEN 0 ELSE 1
    BY <1>1, <1>2, MergedFacts
  <2>5. \A j \in DOMAIN base : j \in DOMAIN lines
    BY <1>1, <1>2, MergedFacts
  <2>6. QED
    BY <2>1, <2>2, <2>3, <2>4, <2>5
<1>5. QED
  BY <1>3, <1>4

\* that the pipe has the price of the selected quote,
LEMMA PricesAreSelected == HandoffInv => PricedAsSelected
<1> SUFFICES ASSUME HandoffInv, NEW b \in HandoffDrafts, NEW i \in DOMAIN bids[b].lines, bids[b].lines[i].code = "pipe"
    PROVE  LET qs == bids[b].from
               priced == SelectedVendorQuote(bids[b].lines[i].vendors)
               q == priced.quote
           IN /\ q \in Rivals(qs) /\ priced.amount = qs[q].amount
              /\ (\E x \in Rivals(qs) : qs[x].mark # "none") => qs[q].mark # "none"
              /\ \A x \in Rivals(qs) : qs[x].amount < qs[q].amount => qs[q].mark = "explained"
  BY DEF PricedAsSelected
<1> PICK base, from, lines : base = BaseLines(bids[b].base) /\ from = bids[b].from /\ lines = bids[b].lines
  OBVIOUS
<1>1. base \in Seq(Lines) /\ ~Doubled(base) /\ from \in QuoteTables
  BY MergedDraft
<1>2. PICK q \in Selection(from) : lines = Merged(base, from, q)
  BY MergedDraft
<1>3. lines[i].vendors = VendorsOf(from, q)
  BY <1>1, <1>2, MergedFacts
<1> PICK priced : priced = SelectedVendorQuote(VendorsOf(from, q))
  OBVIOUS
<1>4. priced.quote = q /\ priced.amount = from[q].amount
  BY <1>1, VendorOfSelection
<1>5. /\ q \in Rivals(from)
      /\ (\E x \in Rivals(from) : from[x].mark # "none") => from[q].mark # "none"
      /\ (\A x \in Rivals(from) : from[q].amount <= from[x].amount) \/ from[q].mark = "explained"
  BY <1>1, SelectionFacts
<1>6. \A x \in Rivals(from) : from[x].amount \in 0..2
  BY <1>1, RivalsAreCurrent DEF CurrentQuotes, Saved, QuoteTables, QuoteRows
<1>7. \A x \in Rivals(from) : from[x].amount < from[q].amount => from[q].mark = "explained"
  BY <1>5, <1>6
<1>8. QED
  BY <1>3, <1>4, <1>5, <1>7

\* and that the costs of a draft are those of its lines.
LEMMA CostsAreFresh == HandoffInv => PricedAfresh
<1> SUFFICES ASSUME HandoffInv, NEW b \in HandoffDrafts, NEW i \in DOMAIN bids[b].lines
    PROVE  LET draft == bids[b]
               line == Crewed(draft.lines[i])
           IN IF line.code # "pipe" THEN draft.costs[i] = bids[draft.base].costs[i]
              ELSE draft.costs[i] = draft.from[SelectedVendorQuote(line.vendors).quote].amount
                     + (IF line.machine = "none" THEN 0 ELSE 1) + line.crew.labourer
                     + (IF line.crew.operator = 1 \/ line.machine = "operated" THEN 1 ELSE 0)
  BY DEF PricedAfresh
<1> PICK base, from, lines, costs : base = BaseLines(bids[b].base) /\ from = bids[b].from /\ lines = bids[b].lines /\ costs = bids[b].costs
  OBVIOUS
<1>1. base \in Seq(Lines) /\ ~Doubled(base) /\ from \in QuoteTables /\ b \in 1..Len(bids) /\ bids[b] \in Drafts
  BY MergedDraft
<1>2. PICK q \in Selection(from) : lines = Merged(base, from, q)
  BY MergedDraft
<1>3. lines \in Seq(Lines) /\ costs = Summary(lines)
  BY <1>1, DraftFields
<1>4. lines[i] \in Lines /\ costs[i] = LineCost(lines[i])
  BY <1>3, LenProperties, ElementOfSeq DEF Summary
<1>5. /\ lines[i].code = "pipe" => lines[i].vendors = VendorsOf(from, q) /\ lines[i].direct = 0
      /\ lines[i].code # "pipe" => i \in DOMAIN base /\ lines[i] = base[i]
  <2>1. lines[i].code # "pipe" => i \in DOMAIN base
    BY <1>1, <1>2, MergedFacts
  <2>2. i \in DOMAIN base => IF base[i].code # "pipe" THEN lines[i] = base[i] ELSE lines[i].code = "pipe"
    <3>1. CASE i \in DOMAIN base /\ base[i].code # "pipe"
      BY <1>1, <1>2, <3>1, MergedFacts
    <3>2. CASE i \in DOMAIN base /\ base[i].code = "pipe"
      <4>1. base[i] \in Lines
        BY <1>1, <3>2, LenProperties, ElementOfSeq
      <4>2. lines[i].code = "pipe"
        BY <1>1, <1>2, <3>2, <4>1, LineTypes DEF Merged
      <4>3. QED
        BY <3>2, <4>2
    <3>3. QED
      BY <3>1, <3>2
  <2>3. QED
    BY <1>1, <1>2, <2>1, <2>2, MergedFacts
<1> PICK line : line = Crewed(lines[i])
  OBVIOUS
<1>6. /\ line \in Lines /\ line.code = lines[i].code /\ line.vendors = lines[i].vendors /\ line.direct = lines[i].direct
  <2>1. PICK code \in Codes, activity \in BOOLEAN, crew \in [operator: 0..1, labourer: 0..1], machine \in Machines, direct \in 0..1, old \in SUBSET VendorQuotes :
        lines[i] = [code |-> code, activity |-> activity, crew |-> crew, machine |-> machine, direct |-> direct, vendors |-> old]
    BY <1>4 DEF Lines
  <2>2. PICK team \in [operator: 0..1, labourer: 0..1] : team = IF crew = NoCrew THEN DefaultCrew ELSE crew
    <3>1. DefaultCrew \in [operator: 0..1, labourer: 0..1]
      BY DEF DefaultCrew
    <3>2. (IF crew = NoCrew THEN DefaultCrew ELSE crew) \in [operator: 0..1, labourer: 0..1]
      BY <3>1
    <3>3. QED
      BY <3>2
  <2>3. PICK gear \in Machines : gear = IF machine = "none" THEN DefaultMachine ELSE machine
    BY DEF DefaultMachine, Machines
  <2>4. line = IF activity THEN [code |-> code, activity |-> activity, crew |-> team, machine |-> gear, direct |-> direct, vendors |-> old]
               ELSE lines[i]
    <3>1. CASE activity
      <4>1. line = [lines[i] EXCEPT !.crew = team, !.machine = gear]
        BY <2>1, <2>2, <2>3, <3>1 DEF Crewed
      <4>2. line = [[code |-> code, activity |-> activity, crew |-> crew, machine |-> machine, direct |-> direct, vendors |-> old]
                      EXCEPT !.crew = team, !.machine = gear]
        BY <2>1, <4>1
      <4>3. line = [code |-> code, activity |-> activity, crew |-> team, machine |-> gear, direct |-> direct, vendors |-> old]
        BY ONLY <4>2
      <4>4. QED
        BY <3>1, <4>3
    <3>2. CASE ~activity
      BY <2>1, <3>2 DEF Crewed
    <3>3. QED
      BY <3>1, <3>2
  <2>5. QED
    BY <2>1, <2>4 DEF Lines
<1>7. costs[i] = LabourCost(line) + EquipmentRate(line.machine) + line.direct
                   + IF line.vendors = {} THEN 0 ELSE SelectedVendorQuote(line.vendors).amount
  BY <1>4 DEF LineCost
<1>8. CASE line.code # "pipe"
  <2>1. i \in DOMAIN base /\ lines[i] = base[i]
    BY <1>5, <1>6, <1>8
  <2> PICK n : n = bids[b].base
    OBVIOUS
  <2>2. n # 0
    BY <2>1 DEF BaseLines
  <2>3. n \in 1..Len(bids) /\ bids[n] \in Drafts
    BY <1>1, <2>2, DraftAt
  <2>4. bids[n].lines = base /\ bids[n].costs = Summary(base)
    BY <2>2, <2>3, DraftFields DEF BaseLines
  <2>5. bids[n].costs[i] = costs[i]
    BY <1>4, <2>1, <2>4 DEF Summary
  <2>6. QED
    BY <1>8, <2>5
<1>9. CASE line.code = "pipe"
  <2> PICK priced : priced = SelectedVendorQuote(VendorsOf(from, q))
    OBVIOUS
  <2>1. line.vendors = VendorsOf(from, q) /\ line.vendors # {} /\ line.direct = 0
    BY <1>1, <1>5, <1>6, <1>9, VendorsType
  <2>2. priced.quote = q /\ priced.amount = from[q].amount
    BY <1>1, VendorOfSelection
  <2>3. from[q].amount \in 0..2
    BY <1>1, SelectionFacts, RivalsAreCurrent DEF CurrentQuotes, Saved, QuoteTables, QuoteRows
  <2> PICK labour, rate, amount : labour = LabourCost(line) /\ rate = EquipmentRate(line.machine) /\ amount = from[q].amount
    OBVIOUS
  <2>4. costs[i] = labour + rate + 0 + amount
    BY <1>7, <2>1, <2>2
  <2> PICK crew \in [operator: 0..1, labourer: 0..1], machine \in Machines : crew = line.crew /\ machine = line.machine
    BY <1>6 DEF Lines
  <2>5. labour = crew.labourer + IF machine = "operated" THEN 0 ELSE crew.operator
    BY DEF LabourCost
  <2>6. rate = IF machine = "none" THEN 0 ELSE IF machine = "bare" THEN 1 ELSE 2
    BY DEF EquipmentRate, Machines
  <2>7. PICK o \in 0..1, w \in 0..1 : crew.operator = o /\ crew.labourer = w
    OBVIOUS
  <2>8. labour + rate = (IF machine = "none" THEN 0 ELSE 1) + w + (IF o = 1 \/ machine = "operated" THEN 1 ELSE 0)
    BY <2>5, <2>6, <2>7 DEF Machines
  <2>9. labour \in Nat /\ rate \in Nat
    BY <2>5, <2>6, <2>7
  <2>10. costs[i] = amount + (IF machine = "none" THEN 0 ELSE 1) + w + (IF o = 1 \/ machine = "operated" THEN 1 ELSE 0)
    BY <2>3, <2>4, <2>8, <2>9
  <2>11. QED
    BY <1>9, <2>1, <2>2, <2>7, <2>10
<1>10. QED
  BY <1>8, <1>9

\* So it implies what the run checks.
LEMMA HandoffInvHolds == HandoffInv => HandoffHolds
<1> SUFFICES ASSUME HandoffInv PROVE HandoffHolds
  OBVIOUS
<1>1. StoredOnce
  <2>1. CASE overlapped
    BY <2>1 DEF StoredOnce
  <2>2. CASE ~overlapped
    BY <2>2 DEF HandoffInv
  <2>3. QED
    BY <2>1, <2>2
<1>2. QED
  BY <1>1, TypesOfHandoff, OthersAreKept, PricesAreSelected, CostsAreFresh DEF HandoffHolds

----------------------------------------------------------------------------
\* The steps

\* The drafts stay, and so does what was merged from them.
LEMMA DraftStored ==
  ASSUME HandoffInv, NEW d \in Drafts, d.base \in 0..Len(bids), bids' = Append(bids, d),
         d.source = "handoff" => /\ d.from \in QuoteTables /\ ~Doubled(BaseLines(d.base))
                                 /\ \E q \in Selection(d.from) : d.lines = Merged(BaseLines(d.base), d.from, q)
  PROVE  /\ bids' \in Seq(Drafts) /\ Len(bids) \in Nat /\ Len(bids') = Len(bids) + 1
         /\ \A b \in 1..Len(bids) : bids'[b] = bids[b]
         /\ bids'[Len(bids) + 1] = d
         /\ \A b \in 1..Len(bids') : bids'[b].base \in 0..(b - 1)
         /\ \A b \in 1..Len(bids') : bids'[b].source = "handoff" => MergedFrom(b)'
<1>1. bids \in Seq(Drafts)
  BY DEF HandoffInv
<1>2. /\ bids' \in Seq(Drafts) /\ Len(bids) \in Nat /\ Len(bids') = Len(bids) + 1
      /\ \A b \in 1..Len(bids) : bids'[b] = bids[b]
      /\ bids'[Len(bids) + 1] = d
  BY <1>1, AppendProperties, LenProperties
<1>3. \A b \in 1..Len(bids') : b \in 1..Len(bids) \/ b = Len(bids) + 1
  BY <1>2
<1>4. ASSUME NEW n \in 0..Len(bids) PROVE BaseLines(n)' = BaseLines(n)
  <2>1. n = 0 \/ n \in 1..Len(bids)
    BY <1>2
  <2>2. QED
    BY <1>2, <2>1 DEF BaseLines
<1>5. ASSUME NEW b \in 1..Len(bids')
      PROVE  /\ bids'[b].base \in 0..(b - 1)
             /\ bids'[b].source = "handoff" => MergedFrom(b)'
  <2>1. CASE b \in 1..Len(bids)
    <3> PICK e : e = bids[b]
      OBVIOUS
    <3>1. bids'[b] = e /\ e.base \in 0..(b - 1)
      BY <1>2, <2>1, DraftAt
    <3>2. e.base \in 0..Len(bids)
      <4>1. e.base <= Len(bids) /\ b \in Nat
        BY <2>1, DraftAt
      <4>2. QED
        BY <1>2, <3>1, <4>1
    <3>3. BaseLines(e.base)' = BaseLines(e.base)
      BY <1>4, <3>2
    <3>4. ASSUME e.source = "handoff"
          PROVE  /\ e.from \in QuoteTables /\ ~Doubled(BaseLines(e.base))
                 /\ \E q \in Selection(e.from) : e.lines = Merged(BaseLines(e.base), e.from, q)
      BY <2>1, <3>4 DEF HandoffInv, MergedFrom
    <3>5. e.source = "handoff" => MergedFrom(b)'
      BY <3>1, <3>3, <3>4 DEF MergedFrom
    <3>6. QED
      BY <3>1, <3>5
  <2>2. CASE b = Len(bids) + 1
    <3>1. bids'[b] = d /\ d.base \in 0..(b - 1)
      BY <1>2, <2>2
    <3>2. BaseLines(d.base)' = BaseLines(d.base)
      BY <1>4
    <3>3. d.source = "handoff" => MergedFrom(b)'
      BY <3>1, <3>2 DEF MergedFrom
    <3>4. QED
      BY <3>1, <3>3
  <2>3. QED
    BY <1>3, <2>1, <2>2
<1>6. QED
  BY <1>2, <1>5

\* Nothing was stored and nobody's place in the hand-off has changed.
LEMMA SaveQuoteStep ==
  ASSUME HandoffInv, NEW q \in Quotes, NEW row \in QuoteRows, SaveQuote(q, row)
  PROVE  HandoffInv'
<1>1. quotes' \in QuoteTables
  BY DEF HandoffInv, QuoteTables, SaveQuote
<1>2. bids' = bids /\ handoff' = handoff /\ opened' = opened /\ overlapped' = overlapped
  BY DEF SaveQuote
<1>3. QED
  BY <1>1, <1>2 DEF HandoffInv, MergedFrom, BaseLines, OneAtATime, StoredOnce

\* The office opens the workspace.
LEMMA OpenStep ==
  ASSUME HandoffInv, OpenEstimate
  PROVE  HandoffInv'
<1>1. bids' = bids /\ handoff' = handoff /\ quotes' = quotes /\ overlapped' = overlapped /\ opened' = Len(bids)
  BY DEF OpenEstimate
<1>2. Len(bids) \in Nat
  BY LenProperties DEF HandoffInv
<1>3. opened' \in 0..Len(bids')
  BY <1>1, <1>2
<1>4. QED
  BY <1>1, <1>3 DEF HandoffInv, MergedFrom, BaseLines, OneAtATime, StoredOnce

\* The office saves it, with the lines that it shows and its own.
LEMMA SaveStep ==
  ASSUME HandoffInv, NEW lines \in Seq(Lines), SaveEstimate(lines)
  PROVE  HandoffInv'
<1> PICK d : d = [lines |-> lines, costs |-> Summary(lines), source |-> "workspace", base |-> 0, from |-> <<>>]
  OBVIOUS
<1>1. bids' = Append(bids, d) /\ opened' = Len(bids) + 1 /\ UNCHANGED <<quotes, handoff, overlapped>>
  BY DEF SaveEstimate
<1>2. d \in Drafts
  <2> PICK none \in QuoteTables \cup {<<>>} : none = <<>>
    OBVIOUS
  <2> PICK zero \in Nat : zero = 0
    OBVIOUS
  <2>1. d = [lines |-> lines, costs |-> Summary(lines), source |-> "workspace", base |-> zero, from |-> none]
    OBVIOUS
  <2>2. QED
    BY ONLY <2>1, lines \in Seq(Lines), zero \in Nat, none \in QuoteTables \cup {<<>>} DEF Drafts
<1>3. Len(bids) \in Nat
  BY LenProperties DEF HandoffInv
<1>4. d.base \in 0..Len(bids) /\ d.source = "workspace"
  BY <1>3
<1>5. /\ bids' \in Seq(Drafts) /\ Len(bids') = Len(bids) + 1
      /\ \A b \in 1..Len(bids) : bids'[b] = bids[b]
      /\ bids'[Len(bids) + 1] = d
      /\ \A b \in 1..Len(bids') : bids'[b].base \in 0..(b - 1)
      /\ \A b \in 1..Len(bids') : bids'[b].source = "handoff" => MergedFrom(b)'
  BY <1>1, <1>2, <1>4, DraftStored
<1>6. \A h \in Handoffs : handoff[h].at = "draft" =>
        handoff[h].base \in 0..Len(bids') /\ (handoff[h].base > 0 => handoff[h].base \in 1..Len(bids))
  <2> SUFFICES ASSUME NEW h \in Handoffs, handoff[h].at = "draft"
      PROVE handoff[h].base \in 0..Len(bids') /\ (handoff[h].base > 0 => handoff[h].base \in 1..Len(bids))
    OBVIOUS
  <2>1. handoff[h].base \in 0..Len(bids)
    BY DEF HandoffInv
  <2>2. QED
    BY <1>3, <1>5, <2>1
<1>7. ASSUME ~overlapped PROVE OneAtATime' /\ StoredOnce'
  <2>1. OneAtATime /\ StoredOnce
    BY <1>7 DEF HandoffInv
  <2>2. ASSUME NEW h \in Handoffs, handoff[h].at = "draft"
        PROVE  /\ handoff[h].base > 0 => ~Matches(bids'[handoff[h].base], handoff[h].quotes)
               /\ \A c \in (handoff[h].base + 1)..Len(bids') : bids'[c].source = "workspace"
    <3> PICK n \in 0..Len(bids) : n = handoff[h].base
      BY <2>2 DEF HandoffInv
    <3>1. n > 0 => ~Matches(bids'[n], handoff[h].quotes)
      BY <1>3, <1>5, <2>1, <2>2 DEF OneAtATime
    <3>2. ASSUME NEW c \in (n + 1)..Len(bids') PROVE bids'[c].source = "workspace"
      <4>1. (c \in 1..Len(bids) /\ c \in (n + 1)..Len(bids)) \/ c = Len(bids) + 1
        BY <1>3, <1>5
      <4>2. \A k \in (n + 1)..Len(bids) : bids[k].source = "workspace"
        BY <2>1, <2>2 DEF OneAtATime
      <4>3. QED
        BY <1>4, <1>5, <4>1, <4>2
    <3>3. QED
      BY <3>1, <3>2
  <2>3. OneAtATime'
    BY <1>1, <2>1, <2>2 DEF OneAtATime
  <2>4. ASSUME NEW b \in 1..(Len(bids') - 1), bids'[b].source = "handoff", bids'[b + 1].source = "handoff"
        PROVE  bids'[b].from # bids'[b + 1].from
    <3>1. b \in 1..Len(bids) /\ ((b \in 1..(Len(bids) - 1) /\ b + 1 \in 1..Len(bids)) \/ b + 1 = Len(bids) + 1)
      BY <1>3, <1>5
    <3>2. b + 1 # Len(bids) + 1
      BY <1>4, <1>5, <2>4
    <3>3. bids'[b] = bids[b] /\ bids'[b + 1] = bids[b + 1]
      BY <1>5, <3>1, <3>2
    <3>4. QED
      BY <1>7, <2>1, <2>4, <3>1, <3>2, <3>3 DEF StoredOnce
  <2>5. StoredOnce'
    BY <2>4 DEF StoredOnce
  <2>6. QED
    BY <2>3, <2>5
<1>8. opened' \in 0..Len(bids')
  BY <1>1, <1>3, <1>5
<1>9. QED
  BY <1>1, <1>5, <1>6, <1>7, <1>8 DEF HandoffInv

\* What the workspace shows and saves are lines.
LEMMA SavedLines ==
  ASSUME HandoffInv
  PROVE  /\ Shown \in Seq(Lines)
         /\ \A code \in Codes, machine \in Machines : Append(Shown, OwnLine(code, machine)) \in Seq(Lines)
<1>1. Shown \in Seq(Lines)
  <2>1. Shown = BaseLines(opened)
    BY DEF Shown, BaseLines
  <2>2. opened \in 0..Len(bids)
    BY DEF HandoffInv
  <2>3. QED
    BY <2>1, <2>2, BaseLinesType
<1>2. ASSUME NEW code \in Codes, NEW machine \in Machines PROVE OwnLine(code, machine) \in Lines
  <2>1. (machine # "none") \in BOOLEAN
    OBVIOUS
  <2>2. PICK gear \in Machines : gear = IF machine = "bare" THEN "none" ELSE machine
    BY DEF Machines
  <2>3. PICK direct \in 0..1 : direct = IF machine = "none" THEN 1 ELSE 0
    OBVIOUS
  <2>4. OwnLine(code, machine) = [code |-> code, activity |-> machine # "none", crew |-> NoCrew,
                                  machine |-> gear, direct |-> direct, vendors |-> {}]
    BY <2>2, <2>3 DEF OwnLine
  <2>5. QED
    BY <2>1, <2>4 DEF Lines, NoCrew
<1>3. QED
  BY <1>1, <1>2, AppendProperties

\* A hand-off reads the quotes.
LEMMA BeginHandoffStep ==
  ASSUME HandoffInv, NEW h \in Handoffs, BeginHandoff(h)
  PROVE  HandoffInv'
<1>1. /\ bids' = bids /\ opened' = opened /\ quotes' = quotes
      /\ overlapped' = (overlapped \/ \E x \in Handoffs : handoff[x] # NoHandoff)
  BY DEF BeginHandoff
<1>2. /\ handoff' \in [Handoffs -> HandoffStates] /\ handoff'[h].at = "quotes"
      /\ \A k \in Handoffs : k # h => handoff'[k] = handoff[k]
  <2> PICK new : new = [at |-> "quotes", quotes |-> quotes]
    OBVIOUS
  <2>1. new \in HandoffStates /\ new.at = "quotes"
    BY DEF HandoffStates, HandoffInv
  <2>2. handoff' = [handoff EXCEPT ![h] = new]
    BY DEF BeginHandoff
  <2>3. QED
    BY <2>1, <2>2 DEF HandoffInv
<1>3. \A k \in Handoffs : handoff'[k].at = "draft" => handoff'[k] = handoff[k]
  BY <1>2
<1>4. ASSUME ~overlapped' PROVE OneAtATime' /\ StoredOnce'
  <2>1. ~overlapped /\ \A x \in Handoffs : handoff[x] = NoHandoff
    BY <1>1, <1>4
  <2>2. \A k \in Handoffs : k # h => handoff'[k] = NoHandoff
    BY <1>2, <2>1
  <2>3. OneAtATime'
    BY <1>2, <2>2 DEF OneAtATime, NoHandoff
  <2>4. StoredOnce'
    BY <1>1, <2>1 DEF HandoffInv, StoredOnce
  <2>5. QED
    BY <2>3, <2>4
<1>5. QED
  BY <1>1, <1>2, <1>3, <1>4 DEF HandoffInv, MergedFrom, BaseLines

\* It reads the last draft; there is none of its own yet.
LEMMA ReadDraftStep ==
  ASSUME HandoffInv, NEW h \in Handoffs, ReadDraft(h)
  PROVE  HandoffInv'
<1>1. bids' = bids /\ opened' = opened /\ quotes' = quotes /\ overlapped' = overlapped
  BY DEF ReadDraft
<1>2. Len(bids) \in Nat /\ handoff \in [Handoffs -> HandoffStates]
  BY LenProperties DEF HandoffInv
<1>3. handoff[h].at = "quotes" /\ handoff[h] # NoHandoff
  BY DEF ReadDraft, NoHandoff
<1>4. handoff[h].quotes \in QuoteTables
  BY <1>2, <1>3 DEF HandoffStates, NoHandoff
<1> PICK qs \in QuoteTables : qs = handoff[h].quotes
  BY <1>4
<1> PICK new : new = IF bids # <<>> /\ Matches(bids[Len(bids)], qs) THEN NoHandoff
                     ELSE [at |-> "draft", quotes |-> qs, base |-> Len(bids)]
  OBVIOUS
<1>5. handoff' = [handoff EXCEPT ![h] = new]
  BY DEF ReadDraft
<1>6. /\ new \in HandoffStates
      /\ new.at = "draft" => /\ new.base = Len(bids) /\ new.quotes = qs
                             /\ ~(bids # <<>> /\ Matches(bids[Len(bids)], qs))
  BY <1>2 DEF HandoffStates, NoHandoff
<1>7. /\ handoff' \in [Handoffs -> HandoffStates] /\ handoff'[h] = new
      /\ \A k \in Handoffs : k # h => handoff'[k] = handoff[k]
  BY <1>2, <1>5, <1>6
<1>8. ASSUME NEW k \in Handoffs, handoff'[k].at = "draft" PROVE handoff'[k].base \in 0..Len(bids)
  <2>1. CASE k = h
    BY <1>2, <1>6, <1>7, <1>8, <2>1
  <2>2. CASE k # h
    BY <1>7, <1>8, <2>2 DEF HandoffInv
  <2>3. QED
    BY <2>1, <2>2
<1>9. ASSUME ~overlapped PROVE OneAtATime' /\ StoredOnce'
  <2>1. OneAtATime /\ StoredOnce
    BY <1>9 DEF HandoffInv
  <2>2. \A k \in Handoffs : k # h => handoff'[k] = NoHandoff
    BY <1>3, <1>7, <2>1 DEF OneAtATime
  <2>3. ASSUME new.at = "draft"
        PROVE  /\ new.base > 0 => ~Matches(bids[new.base], new.quotes)
               /\ \A c \in (new.base + 1)..Len(bids) : bids[c].source = "workspace"
    <3>1. new.base = Len(bids) /\ new.quotes = qs /\ ~(bids # <<>> /\ Matches(bids[Len(bids)], qs))
      BY <1>6, <2>3
    <3>2. Len(bids) > 0 => bids # <<>>
      BY EmptySeq
    <3>3. (Len(bids) + 1)..Len(bids) = {}
      BY <1>2
    <3>4. QED
      BY <3>1, <3>2, <3>3
  <2>4. OneAtATime'
    BY <1>1, <1>7, <2>2, <2>3 DEF OneAtATime, NoHandoff
  <2>5. StoredOnce'
    BY <1>1, <1>9, <2>1 DEF StoredOnce
  <2>6. QED
    BY <2>4, <2>5
<1>10. QED
  BY <1>1, <1>7, <1>8, <1>9 DEF HandoffInv, MergedFrom, BaseLines

\* It commits a draft of its own.
LEMMA CommitHandoffStep ==
  ASSUME HandoffInv, NEW h \in Handoffs, CommitHandoff(h)
  PROVE  HandoffInv'
<1>1. opened' = opened /\ quotes' = quotes /\ overlapped' = overlapped /\ handoff[h].at = "draft"
      /\ handoff' = [handoff EXCEPT ![h] = NoHandoff]
  BY DEF CommitHandoff
<1>2. bids \in Seq(Drafts) /\ Len(bids) \in Nat /\ handoff \in [Handoffs -> HandoffStates] /\ opened \in 0..Len(bids)
  BY LenProperties DEF HandoffInv
<1>3. handoff[h] # NoHandoff /\ handoff[h].quotes \in QuoteTables
  BY <1>1, <1>2 DEF HandoffStates, NoHandoff
<1> PICK qs \in QuoteTables : qs = handoff[h].quotes
  BY <1>3
<1> PICK n \in 0..Len(bids) : n = handoff[h].base
  BY <1>1 DEF HandoffInv
<1>4. /\ handoff' \in [Handoffs -> HandoffStates] /\ handoff'[h] = NoHandoff
      /\ \A k \in Handoffs : k # h => handoff'[k] = handoff[k]
  BY <1>1, <1>2 DEF HandoffStates
<1>5. \A k \in Handoffs : handoff'[k].at = "draft" => handoff'[k] = handoff[k]
  BY <1>4 DEF NoHandoff
<1>6. ASSUME ~overlapped PROVE \A k \in Handoffs : handoff'[k] = NoHandoff
  BY <1>3, <1>4, <1>6 DEF HandoffInv, OneAtATime
<1>7. ASSUME ~overlapped PROVE OneAtATime'
  BY <1>6, <1>7 DEF OneAtATime, NoHandoff
<1>8. CASE Doubled(BaseLines(n))
  <2>1. bids' = bids
    BY <1>8 DEF CommitHandoff
  <2>2. ~overlapped => StoredOnce'
    BY <2>1 DEF HandoffInv, StoredOnce
  <2>3. QED
    BY <1>1, <1>4, <1>5, <1>7, <2>1, <2>2 DEF HandoffInv, MergedFrom, BaseLines
<1>9. CASE ~Doubled(BaseLines(n))
  <2>1. PICK q \in Selection(qs) :
          bids' = Append(bids, [lines |-> Merged(BaseLines(n), qs, q), costs |-> Summary(Merged(BaseLines(n), qs, q)),
                                source |-> "handoff", base |-> n, from |-> qs])
    BY <1>9 DEF CommitHandoff
  <2> PICK lines : lines = Merged(BaseLines(n), qs, q)
    OBVIOUS
  <2> PICK d : d = [lines |-> lines, costs |-> Summary(lines), source |-> "handoff", base |-> n, from |-> qs]
    OBVIOUS
  <2>2. bids' = Append(bids, d)
    BY <2>1
  <2>3. lines \in Seq(Lines)
    BY <1>9, BaseLinesType, MergedFacts
  <2>4. n \in Nat
    BY <1>2
  <2>5. d \in Drafts
    BY <2>3, <2>4 DEF Drafts
  <2>6. /\ d.base \in 0..Len(bids) /\ d.from \in QuoteTables /\ ~Doubled(BaseLines(d.base)) /\ d.source = "handoff" /\ d.from = qs
        /\ \E x \in Selection(d.from) : d.lines = Merged(BaseLines(d.base), d.from, x)
    BY <1>9
  <2>7. /\ bids' \in Seq(Drafts) /\ Len(bids') = Len(bids) + 1
        /\ \A b \in 1..Len(bids) : bids'[b] = bids[b]
        /\ bids'[Len(bids) + 1] = d
        /\ \A b \in 1..Len(bids') : bids'[b].base \in 0..(b - 1)
        /\ \A b \in 1..Len(bids') : bids'[b].source = "handoff" => MergedFrom(b)'
    BY <2>2, <2>5, <2>6, DraftStored
  <2>8. \A k \in Handoffs : handoff'[k].at = "draft" => handoff'[k].base \in 0..Len(bids')
    <3>1. \A k \in Handoffs : handoff'[k].at = "draft" => handoff'[k].base \in 0..Len(bids)
      BY <1>5 DEF HandoffInv
    <3>2. \A m \in 0..Len(bids) : m \in 0..Len(bids')
      BY <1>2, <2>7
    <3>3. QED
      BY <3>1, <3>2
  <2>9. opened' \in 0..Len(bids')
    BY <1>1, <1>2, <2>7
  <2>10. ASSUME ~overlapped, NEW b \in 1..(Len(bids') - 1), bids'[b].source = "handoff", bids'[b + 1].source = "handoff"
         PROVE  bids'[b].from # bids'[b + 1].from
    <3>1. OneAtATime /\ StoredOnce
      BY <2>10 DEF HandoffInv
    <3>2. b \in 1..Len(bids) /\ ((b \in 1..(Len(bids) - 1) /\ b + 1 \in 1..Len(bids)) \/ b = Len(bids))
      BY <1>2, <2>7
    <3>3. CASE b \in 1..(Len(bids) - 1) /\ b + 1 \in 1..Len(bids)
      <4>1. bids'[b] = bids[b] /\ bids'[b + 1] = bids[b + 1]
        BY <2>7, <3>2, <3>3
      <4>2. QED
        BY <2>10, <3>1, <3>3, <4>1 DEF StoredOnce
    <3>4. CASE b = Len(bids)
      <4>1. bids'[b] = bids[b] /\ bids'[b + 1] = d
        BY <2>7, <3>2, <3>4
      <4>2. n = b
        <5>1. b \notin (n + 1)..Len(bids)
          BY <1>1, <2>10, <3>1, <4>1 DEF OneAtATime
        <5>2. QED
          BY <1>2, <3>4, <5>1
      <4>3. n > 0
        BY <3>2, <4>2
      <4>4. ~Matches(bids[n], qs)
        BY <1>1, <3>1, <4>3 DEF OneAtATime
      <4>5. QED
        BY <2>6, <2>10, <4>1, <4>2, <4>4 DEF Matches
    <3>5. QED
      BY <3>2, <3>3, <3>4
  <2>11. ~overlapped => StoredOnce'
    BY <2>10 DEF StoredOnce
  <2>12. QED
    BY <1>1, <1>4, <1>7, <2>7, <2>8, <2>9, <2>11 DEF HandoffInv
<1>10. QED
  BY <1>8, <1>9

\* Every step keeps the invariant.
LEMMA HandoffStep == HandoffInv /\ [HandoffNext]_handoffVars => HandoffInv'
<1> SUFFICES ASSUME HandoffInv, [HandoffNext]_handoffVars PROVE HandoffInv'
  OBVIOUS
<1>1. ASSUME NEW q \in Quotes, NEW row \in QuoteRows, SaveQuote(q, row) PROVE HandoffInv'
  BY <1>1, SaveQuoteStep
<1>2. CASE OpenEstimate
  BY <1>2, OpenStep
<1>3. CASE SaveEstimate(Shown)
  BY <1>3, SavedLines, SaveStep
<1>4. ASSUME NEW code \in Codes, NEW machine \in Machines, SaveEstimate(Append(Shown, OwnLine(code, machine)))
      PROVE HandoffInv'
  BY <1>4, SavedLines, SaveStep
<1>5. ASSUME NEW h \in Handoffs, BeginHandoff(h) PROVE HandoffInv'
  BY <1>5, BeginHandoffStep
<1>6. ASSUME NEW h \in Handoffs, ReadDraft(h) PROVE HandoffInv'
  BY <1>6, ReadDraftStep
<1>7. ASSUME NEW h \in Handoffs, CommitHandoff(h) PROVE HandoffInv'
  BY <1>7, CommitHandoffStep
<1>8. CASE UNCHANGED handoffVars
  BY <1>8 DEF handoffVars, HandoffInv, MergedFrom, BaseLines, OneAtATime, StoredOnce
<1>9. QED
  BY <1>1, <1>2, <1>3, <1>4, <1>5, <1>6, <1>7, <1>8 DEF HandoffNext

\* The promise of the hand-off (services/quotes.py, quote_estimate_handoff.py): it
\* prices the line of its material and no other line, once, by the quote that the
\* rules select and at what it costs; and unless two were under way together, one
\* that changes nothing is not stored again.
THEOREM HandoffsAreKept == HandoffSpec => []HandoffHolds
<1>1. HandoffInit => HandoffInv
  BY HandoffInitInv
<1>2. HandoffInv /\ [HandoffNext]_handoffVars => HandoffInv'
  BY HandoffStep
<1>3. HandoffInv => HandoffHolds
  BY HandoffInvHolds
<1>4. QED
  BY <1>1, <1>2, <1>3, PTL DEF HandoffSpec


-----------------------------------------------------------------------------
(* The invoices.                                                           *)

\* What a row of the table holds
InvoiceRows ==
  [status: InvoiceStatuses \cup {"none"}, origin: {"none", "manual", "chat", "package"},
   bill: Bills \cup {0}, lines: 0..MaxLines, project: 0..MaxProjects, issued: BOOLEAN]

\* A row that is taken says what it is for, and a paid one was issued.
Sound(r) ==
  /\ r.status = "none" <=> r = NoInvoice
  /\ r.status # "none" => r.bill \in Bills /\ (r.origin = "package" => r.lines > 0)
  /\ r.status \in {"issued", "paid"} => r.issued

\* What a request holds that is about to insert its invoice
InsertRead(h) ==
  /\ h.n \in Numbers /\ h.new \in InvoiceRows /\ Sound(h.new)
  /\ h.new.status = "draft" /\ h.new.origin = h.at

\* What a request holds that is about to write a status
StatusRead(h) ==
  /\ h.n \in Numbers /\ Taken(h.n)
  /\ h.read.status \notin {"paid", "void"}
  /\ h.new.status \in InvoiceStatuses /\ h.new.issued \in BOOLEAN
  /\ h.new.status \in {"issued", "paid"} => h.new.issued

\* What the requests hold
ClientsRead ==
  /\ DOMAIN client = Clients
  /\ \A c \in Clients :
       /\ client[c].at \in {"idle", "manual", "chat", "package", "status"}
       /\ client[c].at \in {"manual", "chat", "package"} => InsertRead(client[c])
       /\ client[c].at = "status" => StatusRead(client[c])

\* The work that was done is billed once.
OnePackage == \A m, n \in Packages : m = n

\* The invariant
InvoicesInv ==
  /\ invoice \in [Numbers -> InvoiceRows] /\ \A n \in Numbers : Sound(invoice[n])
  /\ worked \in 0..MaxLines /\ projects \subseteq 1..MaxProjects /\ hasty \subseteq Numbers
  /\ \A a \in replies : a.number \in Numbers
  /\ ended \in [Numbers -> SUBSET {"paid", "void"}]
  /\ RepliesAgree /\ NoOrphanProject /\ PaidWasIssued /\ OnePackage
  /\ ClientsRead

\* No invoice is a row like the others.
LEMMA NoInvoiceSound == NoInvoice \in InvoiceRows /\ Sound(NoInvoice) /\ NoInvoice.status = "none"
                        /\ NoInvoice.origin = "none"
BY InvoicesAssumption DEF NoInvoice, InvoiceRows, Sound

\* A number is taken when its row has a status.
LEMMA TakenRow ==
  ASSUME InvoicesInv, NEW n \in Numbers
  PROVE  Taken(n) <=> invoice[n].status # "none"
BY DEF InvoicesInv, Sound, Taken

\* A draft is a row that is taken.
LEMMA DraftSound ==
  ASSUME NEW origin \in {"manual", "chat", "package"}, NEW bill \in Bills, NEW lines \in 0..MaxLines,
         NEW project \in 0..MaxProjects, origin = "package" => lines > 0
  PROVE  LET d == Draft(origin, bill, lines, project)
         IN d \in InvoiceRows /\ Sound(d) /\ d.status = "draft" /\ d.origin = origin
                 /\ d.bill = bill /\ d.project = project
BY DEF Draft, InvoiceRows, Sound, InvoiceStatuses, NoInvoice

\* It is true of an empty table.
LEMMA InvoicesInitInv == InvoicesInit => InvoicesInv
<1> SUFFICES ASSUME InvoicesInit PROVE InvoicesInv OBVIOUS
<1> USE InvoicesAssumption, NoInvoiceSound
<1>1. \A n \in Numbers : invoice[n] = NoInvoice /\ ended[n] = {} BY DEF InvoicesInit
<1>2. invoice \in [Numbers -> InvoiceRows] /\ ended \in [Numbers -> SUBSET {"paid", "void"}] BY DEF InvoicesInit
<1>3. ClientsRead BY DEF InvoicesInit, ClientsRead, NoClient
<1>4. OnePackage BY <1>1 DEF OnePackage, Packages
<1>5. PaidWasIssued BY <1>1 DEF PaidWasIssued
<1>6. RepliesAgree /\ NoOrphanProject BY DEF InvoicesInit, RepliesAgree, NoOrphanProject
<1> QED BY <1>1, <1>2, <1>3, <1>4, <1>5, <1>6 DEF InvoicesInit, InvoicesInv

\* It implies what the run checks.
LEMMA InvoicesInvHolds == InvoicesInv => InvoicesHold
<1> SUFFICES ASSUME InvoicesInv PROVE InvoicesHold OBVIOUS
<1>1. InvoicesTypeOK
  BY TakenRow DEF InvoicesInv, InvoicesTypeOK, InvoiceRows, Sound
<1>2. PackagedOnce
  <2>1. CASE Packages = {} BY <2>1, FS_EmptySet DEF PackagedOnce
  <2>2. CASE Packages # {}
    <3>1. PICK p \in Packages : TRUE BY <2>2
    <3>2. Packages = {p} BY <3>1 DEF InvoicesInv, OnePackage
    <3>3. Cardinality({p}) = 1 BY FS_Singleton
    <3> QED BY <3>2, <3>3 DEF PackagedOnce
  <2> QED BY <2>1, <2>2
<1> QED BY <1>1, <1>2 DEF InvoicesInv, InvoicesHold

\* A request that begins or ends leaves the other requests as they were.
LEMMA ClientsStay ==
  ASSUME InvoicesInv, NEW c \in Clients, NEW new, client' = [client EXCEPT ![c] = new],
         new.at \in {"idle", "manual", "chat", "package", "status"},
         new.at \in {"manual", "chat", "package"} => InsertRead(new),
         new.at = "status" => StatusRead(new),
         \A n \in Numbers : Taken(n) => Taken(n)'
  PROVE  ClientsRead'
<1>1. DOMAIN client' = Clients BY DEF InvoicesInv, ClientsRead
<1>2. ASSUME NEW d \in Clients
      PROVE  /\ client'[d].at \in {"idle", "manual", "chat", "package", "status"}
             /\ client'[d].at \in {"manual", "chat", "package"} => InsertRead(client[d])'
             /\ client'[d].at = "status" => StatusRead(client[d])'
  <2>1. PICK g : g = client'[d] OBVIOUS
  <2>2. /\ g.at \in {"idle", "manual", "chat", "package", "status"}
        /\ g.at \in {"manual", "chat", "package"} => InsertRead(g)
        /\ g.at = "status" => StatusRead(g)
    <3>1. CASE d = c BY <2>1, <3>1 DEF InvoicesInv, ClientsRead
    <3>2. CASE d # c BY <2>1, <3>2 DEF InvoicesInv, ClientsRead
    <3> QED BY <3>1, <3>2
  <2> QED BY <2>1, <2>2 DEF InsertRead, StatusRead
<1> QED BY <1>1, <1>2 DEF ClientsRead

\* Requests that only read, or are answered from what is on file.
LEMMA BeginStep ==
  ASSUME InvoicesInv, NEW c \in Clients, NEW n \in Numbers, NEW b \in Bills,
         \/ BeginManual(c, n, b)
         \/ BeginPackage(c, n, b)
         \/ \E m \in BOOLEAN : BeginChat(c, n, b, m)
  PROVE  InvoicesInv'
<1> USE InvoicesAssumption
<1> DEFINE Asked == \E op \in {"manual", "chat", "package"}, lines \in 0..MaxLines, p \in 0..MaxProjects :
        /\ Ask(c, op, n, NoInvoice, Draft(op, b, lines, p))
        /\ op = "package" => lines > 0
<1>1. ASSUME BeginManual(c, n, b) PROVE Asked
  <2>1. Ask(c, "manual", n, NoInvoice, Draft("manual", b, 0, 0)) BY <1>1 DEF BeginManual
  <2> QED BY <2>1
<1>2. ASSUME BeginPackage(c, n, b) PROVE Asked
  <2>1. Ask(c, "package", n, NoInvoice, Draft("package", b, worked, 0)) /\ worked > 0
    BY <1>2 DEF BeginPackage, GroupReady
  <2>2. worked \in 0..MaxLines BY DEF InvoicesInv
  <2> QED BY <2>1, <2>2
<1>3. ASSUME NEW m \in BOOLEAN, BeginChat(c, n, b, m) PROVE Asked
  <2>1. PICK p : /\ Ask(c, "chat", n, NoInvoice, Draft("chat", b, 0, p))
                 /\ p \in projects \/ p \in 1..MaxProjects \/ p = 0
    BY <1>3 DEF BeginChat
  <2>2. projects \subseteq 1..MaxProjects BY DEF InvoicesInv
  <2>3. p \in 1..MaxProjects \/ p = 0 BY <2>1, <2>2
  <2>4. p \in 0..MaxProjects BY <2>3
  <2> QED BY <2>1, <2>4
<1>4. PICK op \in {"manual", "chat", "package"}, lines \in 0..MaxLines, p \in 0..MaxProjects :
        /\ Ask(c, op, n, NoInvoice, Draft(op, b, lines, p))
        /\ op = "package" => lines > 0
  BY <1>1, <1>2, <1>3
<1>5. PICK h : h = [at |-> op, n |-> n, read |-> NoInvoice, new |-> Draft(op, b, lines, p)] OBVIOUS
<1>6. client' = [client EXCEPT ![c] = h] /\ UNCHANGED <<invoice, worked, closedOut, projects, replies, ended, hasty>>
  BY <1>4, <1>5 DEF Ask
<1>7. h.at = op /\ InsertRead(h)
  BY <1>4, <1>5, DraftSound DEF InsertRead
<1>8. ClientsRead' BY <1>6, <1>7, ClientsStay DEF Taken
<1> QED
  BY <1>6, <1>8 DEF InvoicesInv, Sound, RepliesAgree, NoOrphanProject, PaidWasIssued, OnePackage, Packages, Taken

\* A status move is asked for from a status that may still move; what it writes
\* was issued when it says so.
LEMMA BeginStatusStep ==
  ASSUME InvoicesInv, NEW c \in Clients, NEW n \in Numbers, NEW to \in InvoiceStatuses, BeginStatus(c, n, to)
  PROVE  InvoicesInv'
<1>1. PICK r \in InvoiceRows : r = invoice[n] BY DEF InvoicesInv
<1>2. PICK new : new = [r EXCEPT !.status = to, !.issued = @ \/ to = "issued"] OBVIOUS
<1>3. PICK h : h = [at |-> "status", n |-> n, read |-> r, new |-> new] OBVIOUS
<1>4. /\ client' = [client EXCEPT ![c] = h]
      /\ UNCHANGED <<invoice, worked, closedOut, projects, replies, ended, hasty>>
      /\ Taken(n) /\ to \in Transitions[r.status]
  BY <1>1, <1>2, <1>3 DEF BeginStatus, Ask
<1>5. new.status = to /\ new.issued = (r.issued \/ to = "issued")
  BY <1>1, <1>2 DEF InvoiceRows
<1>6. r.status \in InvoiceStatuses /\ (r.status \in {"issued", "paid"} => r.issued) /\ r.issued \in BOOLEAN
  BY <1>1, <1>4, TakenRow DEF InvoicesInv, Sound, InvoiceRows
<1>7. r.status \notin {"paid", "void"} /\ (to = "paid" => r.status = "issued")
  BY <1>4, <1>6 DEF Transitions, InvoiceStatuses
<1>8. h.at = "status" /\ StatusRead(h)
  BY <1>3, <1>4, <1>5, <1>6, <1>7 DEF StatusRead
<1>9. ClientsRead' BY <1>4, <1>8, ClientsStay DEF Taken
<1> QED
  BY <1>4, <1>9 DEF InvoicesInv, Sound, RepliesAgree, NoOrphanProject, PaidWasIssued, OnePackage, Packages, Taken

\* A reply says what is on file.
LEMMA AgainStep ==
  ASSUME InvoicesInv,
         \/ AddWork \/ ChangeCloseout
         \/ \E n \in Numbers, b \in Bills : ChatAgain(n, b) \/ PackageAgain(n, b)
  PROVE  InvoicesInv'
<1> USE InvoicesAssumption
<1>1. UNCHANGED <<invoice, projects, client, ended, hasty>>
  BY DEF AddWork, ChangeCloseout, ChatAgain, PackageAgain
<1>2. worked' \in 0..MaxLines
  <2>1. worked \in 0..MaxLines BY DEF InvoicesInv
  <2>2. worked' = worked \/ (worked < MaxLines /\ worked' = worked + 1)
    BY DEF AddWork, ChangeCloseout, ChatAgain, PackageAgain
  <2> QED BY <2>1, <2>2
<1>3. ClientsRead' BY <1>1 DEF InvoicesInv, ClientsRead, InsertRead, StatusRead, Taken
<1>4. RepliesAgree' /\ \A a \in replies' : a.number \in Numbers
  <2>1. CASE UNCHANGED replies BY <1>1, <2>1 DEF InvoicesInv, RepliesAgree, Taken
  <2>2. ASSUME NEW n \in Numbers, NEW b \in Bills, ChatAgain(n, b) \/ PackageAgain(n, b)
        PROVE  RepliesAgree' /\ \A a \in replies' : a.number \in Numbers
    <3>1. Taken(n) /\ invoice[n].bill = b
      <4>1. CASE ChatAgain(n, b) BY <4>1 DEF ChatAgain, SameChat
      <4>2. CASE PackageAgain(n, b)
        <5>1. invoice[n].origin = "package" /\ invoice[n].bill = b
          BY <4>2 DEF PackageAgain, SamePackage
        <5> QED BY <5>1, NoInvoiceSound DEF Taken
      <4> QED BY <2>2, <4>1, <4>2
    <3>2. replies' = replies \cup {[number |-> n, bill |-> b]}
      BY <2>2 DEF ChatAgain, PackageAgain, Replied
    <3> QED BY <1>1, <3>1, <3>2 DEF InvoicesInv, RepliesAgree, Taken
  <2> QED BY <2>1, <2>2 DEF AddWork, ChangeCloseout
<1> QED
  BY <1>1, <1>2, <1>3, <1>4 DEF InvoicesInv, Sound, NoOrphanProject, PaidWasIssued, OnePackage, Packages

\* An insert takes a free number, and a package the free key of its group.
LEMMA CommitInsertStep ==
  ASSUME InvoicesInv, NEW c \in Clients, CommitInsert(c)
  PROVE  InvoicesInv'
<1> USE InvoicesAssumption
<1>1. PICK h : h = client[c] OBVIOUS
<1>2. /\ h.at \in {"manual", "chat", "package"} /\ ~Taken(h.n) /\ (h.at = "package" => Packages = {})
      /\ invoice' = [invoice EXCEPT ![h.n] = h.new]
      /\ projects' = projects \cup ({h.new.project} \ {0})
      /\ replies' = replies \cup {[number |-> h.n, bill |-> h.new.bill]}
      /\ client' = [client EXCEPT ![c] = NoClient]
      /\ UNCHANGED <<worked, closedOut, ended, hasty>>
  BY <1>1 DEF CommitInsert, KeysFree, Replied
<1>3. InsertRead(h) BY <1>1, <1>2 DEF InvoicesInv, ClientsRead
<1>4. /\ h.n \in Numbers /\ h.new \in InvoiceRows /\ Sound(h.new) /\ h.new.status = "draft" /\ h.new.origin = h.at
      /\ h.new.project \in 0..MaxProjects
  BY <1>3 DEF InsertRead, InvoiceRows
<1>5. /\ invoice' \in [Numbers -> InvoiceRows] /\ invoice'[h.n] = h.new
      /\ \A n \in Numbers : n # h.n => invoice'[n] = invoice[n]
  BY <1>2, <1>4 DEF InvoicesInv
<1>6. \A n \in Numbers : Sound(invoice[n])' BY <1>4, <1>5 DEF InvoicesInv, Sound
<1>7. h.new # NoInvoice BY <1>4, NoInvoiceSound
<1>8. \A n \in Numbers : Taken(n) => Taken(n)' /\ invoice'[n] = invoice[n]
  BY <1>2, <1>5 DEF Taken
<1>9. Taken(h.n)' BY <1>5, <1>7 DEF Taken
<1>10. ClientsRead'
  <2>1. NoClient.at = "idle" BY DEF NoClient
  <2> QED BY <1>2, <1>8, <2>1, ClientsStay
<1>11. RepliesAgree' /\ \A a \in replies' : a.number \in Numbers
  BY <1>2, <1>4, <1>5, <1>8, <1>9 DEF InvoicesInv, RepliesAgree
<1>12. OnePackage'
  <2>1. Packages' \subseteq Packages \cup {h.n}
    BY <1>5 DEF Packages
  <2>2. h.at # "package" => Packages' \subseteq Packages
    BY <1>4, <1>5 DEF Packages
  <2> QED BY <1>2, <2>1, <2>2 DEF InvoicesInv, OnePackage
<1>13. invoice[h.n] = NoInvoice BY <1>2 DEF Taken
<1>14. NoOrphanProject'
  <2> SUFFICES ASSUME NEW p \in projects' PROVE \E n \in Numbers : invoice'[n].project = p
    BY DEF NoOrphanProject
  <2>1. CASE p = h.new.project BY <1>4, <1>5, <2>1
  <2>2. CASE p \in projects
    <3>1. PICK n \in Numbers : invoice[n].project = p BY <2>2 DEF InvoicesInv, NoOrphanProject
    <3>2. p # 0 BY <2>2 DEF InvoicesInv
    <3>3. n # h.n BY <1>13, <3>1, <3>2 DEF NoInvoice
    <3> QED BY <1>5, <3>1, <3>3
  <2> QED BY <1>2, <2>1, <2>2
<1>15. PaidWasIssued'
  <2> SUFFICES ASSUME NEW n \in Numbers
               PROVE  /\ invoice'[n].status \in {"issued", "paid"} => invoice'[n].issued
                      /\ n \notin hasty' /\ ended'[n] # {} => ended'[n] = {invoice'[n].status}
    BY DEF PaidWasIssued
  <2>1. CASE n # h.n BY <1>2, <1>5, <2>1 DEF InvoicesInv, PaidWasIssued
  <2>2. CASE n = h.n
    <3>1. n \notin hasty /\ ended[n] # {} => ended[n] = {"none"} /\ ended[n] \subseteq {"paid", "void"}
      BY <1>4, <1>13, <2>2, NoInvoiceSound DEF InvoicesInv, PaidWasIssued
    <3> QED BY <1>2, <1>4, <1>5, <2>2, <3>1
  <2> QED BY <2>1, <2>2
<1>16. projects' \subseteq 1..MaxProjects
  <2>1. projects \subseteq 1..MaxProjects BY DEF InvoicesInv
  <2>2. h.new.project # 0 => h.new.project \in 1..MaxProjects BY <1>4
  <2> QED BY <1>2, <2>1, <2>2
<1> QED
  BY <1>2, <1>5, <1>6, <1>10, <1>11, <1>12, <1>14, <1>15, <1>16 DEF InvoicesInv

\* Who lost a race is answered from what is on file, and leaves no project.
LEMMA InsertConflictStep ==
  ASSUME InvoicesInv, NEW c \in Clients, InsertConflict(c)
  PROVE  InvoicesInv'
<1> USE InvoicesAssumption
<1>1. PICK h : h = client[c] OBVIOUS
<1>2. /\ h.at \in {"manual", "chat", "package"}
      /\ projects' = projects /\ client' = [client EXCEPT ![c] = NoClient]
      /\ UNCHANGED <<invoice, worked, closedOut, ended, hasty>>
  BY <1>1 DEF InsertConflict, KeptProjects
<1>3. \/ UNCHANGED replies
      \/ /\ replies' = replies \cup {[number |-> h.n, bill |-> h.new.bill]}
         /\ Taken(h.n) /\ invoice[h.n].bill = h.new.bill
  <2>1. CASE h.at = "package"
    <3>1. \/ UNCHANGED replies
          \/ /\ replies' = replies \cup {[number |-> h.n, bill |-> h.new.bill]}
             /\ \E n \in Packages : n = h.n /\ SamePackage(n, h.new)
      BY <1>1, <2>1 DEF InsertConflict, Replied
    <3>2. ASSUME SamePackage(h.n, h.new) PROVE Taken(h.n) /\ invoice[h.n].bill = h.new.bill
      BY <3>2, NoInvoiceSound DEF SamePackage, Taken
    <3> QED BY <3>1, <3>2
  <2>2. CASE h.at # "package"
    <3>1. \/ UNCHANGED replies
          \/ /\ replies' = replies \cup {[number |-> h.n, bill |-> h.new.bill]}
             /\ Taken(h.n) /\ SameChat(h.n, [h.new EXCEPT !.project = invoice[h.n].project])
      BY <1>1, <2>2 DEF InsertConflict, Replied
    <3>2. h.new \in InvoiceRows BY <1>1, <1>2 DEF InvoicesInv, ClientsRead, InsertRead
    <3>3. [h.new EXCEPT !.project = invoice[h.n].project].bill = h.new.bill BY <3>2 DEF InvoiceRows
    <3> QED BY <3>1, <3>3 DEF SameChat
  <2> QED BY <2>1, <2>2
<1>4. h.n \in Numbers BY <1>1, <1>2 DEF InvoicesInv, ClientsRead, InsertRead
<1>5. RepliesAgree' /\ \A a \in replies' : a.number \in Numbers
  BY <1>2, <1>3, <1>4 DEF InvoicesInv, RepliesAgree, Taken
<1>6. ClientsRead'
  <2>1. NoClient.at = "idle" BY DEF NoClient
  <2>2. \A n \in Numbers : Taken(n) => Taken(n)' BY <1>2 DEF Taken
  <2> QED BY <1>2, <2>1, <2>2, ClientsStay
<1> QED
  BY <1>2, <1>5, <1>6 DEF InvoicesInv, Sound, NoOrphanProject, PaidWasIssued, OnePackage, Packages

\* A status is written over what the row has become meanwhile.
LEMMA CommitStatusStep ==
  ASSUME InvoicesInv, NEW c \in Clients, CommitStatus(c)
  PROVE  InvoicesInv'
<1> USE InvoicesAssumption
<1>1. PICK h : h = client[c] OBVIOUS
<1>2. /\ h.at = "status"
      /\ invoice' = [invoice EXCEPT ![h.n].status = h.new.status,
                                    ![h.n].issued = @ \/ h.new.issued]
      /\ ended' = [ended EXCEPT ![h.n] = @ \cup ({h.new.status} \cap {"paid", "void"})]
      /\ hasty' = IF invoice[h.n] # h.read THEN hasty \cup {h.n} ELSE hasty
      /\ client' = [client EXCEPT ![c] = NoClient]
      /\ UNCHANGED <<worked, closedOut, projects, replies>>
  BY <1>1 DEF CommitStatus
<1>3. StatusRead(h) BY <1>1, <1>2 DEF InvoicesInv, ClientsRead
<1>4. PICK r \in InvoiceRows : r = invoice[h.n] BY <1>3 DEF InvoicesInv, StatusRead
<1>5. PICK new : new = [r EXCEPT !.status = h.new.status, !.issued = @ \/ h.new.issued] OBVIOUS
<1>6. /\ invoice' \in [Numbers -> {invoice'[n] : n \in Numbers}] /\ invoice'[h.n] = new
      /\ \A n \in Numbers : n # h.n => invoice'[n] = invoice[n]
  BY <1>2, <1>3, <1>4, <1>5, ZenonT(60) DEF InvoicesInv, StatusRead
<1>7. /\ new.status = h.new.status /\ new.issued = (r.issued \/ h.new.issued)
      /\ new.bill = r.bill /\ new.origin = r.origin /\ new.lines = r.lines /\ new.project = r.project
      /\ new \in InvoiceRows
  BY <1>3, <1>4, <1>5 DEF InvoiceRows, StatusRead
<1>8. r.status # "none" /\ r # NoInvoice BY <1>3, <1>4, TakenRow DEF StatusRead, Taken
<1>9. Sound(new) /\ new # NoInvoice
  <2>1. new.status # "none" BY <1>3, <1>7 DEF StatusRead, InvoiceStatuses
  <2>2. new # NoInvoice BY <2>1, NoInvoiceSound
  <2>3. Sound(r) BY <1>3, <1>4 DEF InvoicesInv, StatusRead
  <2>4. new.status \in {"issued", "paid"} => new.issued BY <1>3, <1>4, <1>7 DEF StatusRead, InvoiceRows
  <2> QED BY <1>7, <1>8, <2>1, <2>2, <2>3, <2>4 DEF Sound
<1>10. invoice' \in [Numbers -> InvoiceRows] /\ \A n \in Numbers : Sound(invoice[n])'
  BY <1>6, <1>7, <1>9 DEF InvoicesInv, Sound
<1>11. \A n \in Numbers : /\ Taken(n) => Taken(n)'
                          /\ invoice'[n].bill = invoice[n].bill /\ invoice'[n].origin = invoice[n].origin
                          /\ invoice'[n].project = invoice[n].project
  BY <1>4, <1>6, <1>7, <1>9 DEF Taken
<1>12. ClientsRead'
  <2>1. NoClient.at = "idle" BY DEF NoClient
  <2> QED BY <1>2, <1>11, <2>1, ClientsStay
<1>13. RepliesAgree' BY <1>2, <1>11 DEF InvoicesInv, RepliesAgree
<1>14. NoOrphanProject' BY <1>2, <1>11 DEF InvoicesInv, NoOrphanProject
<1>15. OnePackage' BY <1>11 DEF InvoicesInv, OnePackage, Packages
<1>16. ended' \in [Numbers -> SUBSET {"paid", "void"}] BY <1>2, <1>3 DEF InvoicesInv, StatusRead
<1>17. PaidWasIssued'
  <2> SUFFICES ASSUME NEW n \in Numbers
               PROVE  /\ invoice'[n].status \in {"issued", "paid"} => invoice'[n].issued
                      /\ n \notin hasty' /\ ended'[n] # {} => ended'[n] = {invoice'[n].status}
    BY DEF PaidWasIssued
  <2>1. CASE n # h.n BY <1>2, <1>6, <2>1 DEF InvoicesInv, PaidWasIssued
  <2>2. CASE n = h.n
    <3>1. invoice'[n].status \in {"issued", "paid"} => invoice'[n].issued
      BY <1>6, <1>9, <2>2 DEF Sound
    <3>2. ASSUME n \notin hasty' PROVE ended[n] = {}
      <4>1. r = h.read /\ n \notin hasty BY <1>2, <1>4, <2>2, <3>2
      <4>2. ended[n] # {} => ended[n] = {r.status} BY <1>4, <2>2, <4>1 DEF InvoicesInv, PaidWasIssued
      <4>3. r.status \notin {"paid", "void"} BY <1>3, <4>1 DEF StatusRead
      <4> QED BY <2>2, <4>2, <4>3 DEF InvoicesInv
    <3>3. ended'[n] = ended[n] \cup ({new.status} \cap {"paid", "void"})
      BY <1>2, <1>7, <2>2 DEF InvoicesInv
    <3> QED BY <1>6, <2>2, <3>1, <3>2, <3>3
  <2> QED BY <2>1, <2>2
<1>18. hasty' \subseteq Numbers BY <1>2, <1>3 DEF InvoicesInv, StatusRead
<1> QED
  BY <1>2, <1>10, <1>12, <1>13, <1>14, <1>15, <1>16, <1>17, <1>18 DEF InvoicesInv

\* Every step keeps the invariant.
LEMMA InvoicesStep == InvoicesInv /\ [InvoicesNext]_invoiceVars => InvoicesInv'
<1> SUFFICES ASSUME InvoicesInv, [InvoicesNext]_invoiceVars PROVE InvoicesInv' OBVIOUS
<1>1. CASE UNCHANGED invoiceVars
  BY <1>1 DEF invoiceVars, InvoicesInv, Sound, RepliesAgree, NoOrphanProject, PaidWasIssued, OnePackage,
              Packages, Taken, ClientsRead, InsertRead, StatusRead
<1>2. CASE InvoicesNext
  <2>1. ASSUME NEW c \in Clients, CommitInsert(c) \/ InsertConflict(c) \/ CommitStatus(c) PROVE InvoicesInv'
    BY <2>1, CommitInsertStep, InsertConflictStep, CommitStatusStep
  <2>2. ASSUME NEW c \in Clients, NEW n \in Numbers, NEW to \in InvoiceStatuses, BeginStatus(c, n, to)
        PROVE  InvoicesInv'
    BY <2>2, BeginStatusStep
  <2>3. ASSUME NEW n \in Numbers, NEW b \in Bills, NEW c \in Clients,
               BeginManual(c, n, b) \/ BeginPackage(c, n, b) \/ \E m \in BOOLEAN : BeginChat(c, n, b, m)
        PROVE  InvoicesInv'
    BY <2>3, BeginStep
  <2> QED BY <1>2, <2>1, <2>2, <2>3, AgainStep DEF InvoicesNext
<1> QED BY <1>1, <1>2

\* However invoices are retried, generated and moved at once: what was answered
\* is on file, a group is billed once, intake leaves no project without its
\* invoice, and nothing is paid that was not issued (customer_invoices.py,
\* chat_invoice_intake.py, project_invoice_packages.py).
THEOREM InvoicesAreKept == InvoicesSpec => []InvoicesHold
<1> QED BY InvoicesInitInv, InvoicesStep, InvoicesInvHolds, PTL DEF InvoicesSpec

-----------------------------------------------------------------------------
(* The ledger.                                                             *)

\* What the tables of the project may hold
Plans == [lines: Priced, decided: BOOLEAN]
Metas == [baseline: Priced, plan: Plans]
Rows == [status: {"none", "posted", "void"}, amount: Amounts \cup {0}]
\* An entry has an amount from when it is posted.
RowsAgree(table) == \A p \in Positions : table[p].status = "none" <=> table[p].amount = 0

\* What an import with the given lines makes of given entries.
RepostedFrom(table, lines) ==
  [p \in Positions |->
     IF lines[p] # 0 THEN [status |-> "posted", amount |-> lines[p]]
     ELSE IF table[p] = NoBudget THEN NoBudget ELSE [table[p] EXCEPT !.status = "void"]]

\* What an import has read and is about to post
ImportRead(h) ==
  /\ h.budget \in [Positions -> Rows] /\ RowsAgree(h.budget) /\ h.meta \in Metas /\ h.to \in Metas
  /\ h.after = RepostedFrom(h.budget, h.to.baseline)
  /\ h.to.plan = h.meta.plan \/ ~h.meta.plan.decided
  /\ \A p \in Positions : h.budget[p] # NoBudget => budget[p] # NoBudget

\* What the importers hold of it
ImportersRead ==
  /\ DOMAIN importer = Importers
  /\ \A i \in Importers :
       /\ importer[i].at = "budget" => ImportRead(importer[i])
       /\ importer[i].at = "cost" => importer[i].key \in CostKeys /\ importer[i].amount \in Amounts

\* The invariant: a plan that was committed with a decision has kept it.
LedgerInv ==
  /\ LedgerTypeOK /\ BudgetIsBaseline /\ DecidedPlanStays /\ CostsAreExact
  /\ RowsAgree(budget) /\ meta \in Metas /\ committed \in Plans
  /\ committed # NoPlan => committed.decided
  /\ answered \subseteq CostKeys \X Amounts /\ rushed \in BOOLEAN
  /\ ImportersRead

\* A project begins with nothing priced, planned or posted.
LEMMA NothingPriced == Nothing \in Priced /\ NoPlan \in Plans /\ NoBudget \in Rows
BY LedgerAssumption DEF Nothing, NoPlan, NoBudget, Priced, Plans, Rows

\* It is true of a project without a budget.
LEMMA LedgerInitInv == LedgerInit => LedgerInv
<1> SUFFICES ASSUME LedgerInit PROVE LedgerInv OBVIOUS
<1> USE LedgerAssumption, NothingPriced
<1>1. meta \in Metas /\ committed \in Plans /\ answered \subseteq CostKeys \X Amounts
  BY DEF LedgerInit, Metas
<1>2. budget \in [Positions -> Rows] /\ RowsAgree(budget) /\ \A p \in Positions : budget[p].status = "none"
  BY DEF LedgerInit, RowsAgree, NoBudget
<1>3. LedgerTypeOK
  BY <1>1, <1>2 DEF LedgerInit, LedgerTypeOK, Metas, Plans, Rows, Priced
<1>4. Posted = meta.baseline
  BY <1>2 DEF LedgerInit, Posted, Nothing
<1>5. ImportersRead
  BY DEF LedgerInit, ImportersRead, NoImporter
<1> QED
  BY <1>1, <1>2, <1>3, <1>4, <1>5 DEF LedgerInit, LedgerInv, BudgetIsBaseline, DecidedPlanStays, CostsAreExact

\* A row after an import of a line.
LEMMA RepostedRows ==
  ASSUME NEW table \in [Positions -> Rows], NEW lines \in Priced, RowsAgree(table)
  PROVE  /\ RepostedFrom(table, lines) \in [Positions -> Rows] /\ RowsAgree(RepostedFrom(table, lines))
         /\ \A p \in Positions :
              /\ table[p].status # "none" => RepostedFrom(table, lines)[p].status # "none"
              /\ (IF RepostedFrom(table, lines)[p].status = "posted" THEN RepostedFrom(table, lines)[p].amount ELSE 0) = lines[p]
<1> USE LedgerAssumption
<1> SUFFICES ASSUME NEW p \in Positions
             PROVE  /\ RepostedFrom(table, lines)[p] \in Rows
                    /\ RepostedFrom(table, lines)[p].status = "none" <=> RepostedFrom(table, lines)[p].amount = 0
                    /\ table[p].status # "none" => RepostedFrom(table, lines)[p].status # "none"
                    /\ (IF RepostedFrom(table, lines)[p].status = "posted" THEN RepostedFrom(table, lines)[p].amount ELSE 0) = lines[p]
  BY DEF RepostedFrom, RowsAgree
<1>1. table[p] \in Rows /\ lines[p] \in Amounts \cup {0} /\ (table[p].status = "none" <=> table[p].amount = 0)
  BY DEF Priced, RowsAgree
<1>2. CASE lines[p] # 0
  BY <1>1, <1>2 DEF RepostedFrom, Rows
<1>3. CASE lines[p] = 0 /\ table[p] = NoBudget
  BY <1>1, <1>3 DEF RepostedFrom, NoBudget, Rows
<1>4. CASE lines[p] = 0 /\ table[p] # NoBudget
  <2>1. PICK r \in Rows : r = table[p] BY <1>1
  <2>2. r = [status |-> r.status, amount |-> r.amount] BY DEF Rows
  <2>3. r.status # "none" BY <1>1, <1>4, <2>1, <2>2 DEF NoBudget
  <2>4. RepostedFrom(table, lines)[p] = [status |-> "void", amount |-> r.amount]
    BY <1>4, <2>1, <2>2 DEF RepostedFrom
  <2> QED BY <1>1, <1>4, <2>1, <2>3, <2>4 DEF Rows
<1> QED BY <1>2, <1>3, <1>4

\* What a row is for the clauses of an import that does not change the table.
LEMMA RowIsNone ==
  ASSUME NEW table \in [Positions -> Rows], RowsAgree(table), NEW p \in Positions
  PROVE  table[p] = NoBudget <=> table[p].status = "none"
<1>1. PICK r \in Rows : r = table[p] OBVIOUS
<1>2. r = [status |-> r.status, amount |-> r.amount] BY DEF Rows
<1>3. r.status = "none" <=> r.amount = 0 BY <1>1 DEF RowsAgree
<1> QED BY <1>1, <1>2, <1>3 DEF NoBudget

\* An import that begins has read the state it will be compared with.
LEMMA BeginImportStep ==
  ASSUME LedgerInv, NEW i \in Importers, NEW planned \in BOOLEAN, BeginImportBudget(i, planned)
  PROVE  LedgerInv'
<1> USE LedgerAssumption, NothingPriced
<1> DEFINE to == [baseline |-> estimate,
                  plan |-> IF planned THEN [lines |-> estimate, decided |-> FALSE] ELSE meta.plan]
<1>0. PICK h : h = [at |-> "budget", budget |-> budget, meta |-> meta, after |-> Reposted(estimate), to |-> to]
  OBVIOUS
<1>1. UNCHANGED <<estimate, revised, budget, manual, meta, cost, answered, rushed, committed>>
  BY DEF BeginImportBudget
<1>2. importer' = [importer EXCEPT ![i] = h] BY <1>0 DEF BeginImportBudget
<1>3. ImportRead(h)'
  <2>1. estimate \in Priced /\ meta \in Metas /\ RowsAgree(budget)
    BY DEF LedgerInv, LedgerTypeOK
  <2>1a. budget \in [Positions -> Rows] BY DEF LedgerInv, LedgerTypeOK, Rows
  <2>2. to \in Metas
    BY <2>1 DEF Metas, Plans
  <2>3. h.after = RepostedFrom(h.budget, h.to.baseline)
    BY <1>0, <2>1, <2>1a DEF Reposted, RepostedFrom
  <2>4. to.plan = meta.plan \/ ~meta.plan.decided
    BY DEF BeginImportBudget, MayPlan
  <2>5. ImportRead(h)
    BY <1>0, <2>1, <2>1a, <2>2, <2>3, <2>4 DEF ImportRead
  <2> QED BY <2>5, <1>1 DEF ImportRead
<1>4. ImportersRead'
  <2>1. DOMAIN importer' = Importers BY <1>2 DEF LedgerInv, ImportersRead
  <2>2. ASSUME NEW j \in Importers, importer'[j].at = "budget" PROVE ImportRead(importer[j])'
    <3>1. CASE j = i BY <1>2, <1>3, <3>1 DEF LedgerInv, ImportersRead
    <3>2. CASE j # i BY <1>1, <1>2, <2>2, <3>2 DEF LedgerInv, ImportersRead, ImportRead
    <3> QED BY <3>1, <3>2
  <2>3. ASSUME NEW j \in Importers, importer'[j].at = "cost"
        PROVE importer'[j].key \in CostKeys /\ importer'[j].amount \in Amounts
    BY <1>0, <1>2, <2>3 DEF LedgerInv, ImportersRead
  <2> QED BY <2>1, <2>2, <2>3 DEF ImportersRead
<1> QED
  BY <1>1, <1>4 DEF LedgerInv, LedgerTypeOK, BudgetIsBaseline, DecidedPlanStays, CostsAreExact, Posted, RowsAgree

\* What a commit makes of a row that another import may have changed.
LEMMA CommittedRows ==
  ASSUME LedgerInv, NEW i \in Importers, CommitImportBudget(i)
  PROVE  /\ budget' \in [Positions -> Rows] /\ RowsAgree(budget)'
         /\ \A p \in Positions : budget[p] # NoBudget => budget'[p] # NoBudget
         /\ importer[i].budget = budget => budget' = importer[i].after
<1> USE LedgerAssumption, NothingPriced
<1> DEFINE h == importer[i]
           column(p, f) == IF h.after[p][f] = h.budget[p][f] THEN budget[p][f] ELSE h.after[p][f]
<1>1. ImportRead(h) BY DEF LedgerInv, ImportersRead, CommitImportBudget
<1>2. budget' = [p \in Positions |-> [status |-> column(p, "status"), amount |-> column(p, "amount")]]
  BY DEF CommitImportBudget
<1>3. ~Inserted(h) BY DEF CommitImportBudget
<1>4. budget \in [Positions -> Rows] /\ RowsAgree(budget) BY DEF LedgerInv, LedgerTypeOK, Rows
<1>5. h.budget \in [Positions -> Rows] /\ RowsAgree(h.budget) BY <1>1 DEF ImportRead
<1>6. /\ h.after \in [Positions -> Rows] /\ RowsAgree(h.after)
      /\ \A p \in Positions : h.budget[p].status # "none" => h.after[p].status # "none"
  BY <1>1, <1>5, RepostedRows DEF ImportRead, Metas
<1>7. ASSUME NEW p \in Positions
      PROVE  /\ budget'[p] \in Rows
             /\ budget'[p].status = "none" <=> budget'[p].amount = 0
             /\ budget[p] # NoBudget => budget'[p] # NoBudget
             /\ h.budget[p] = budget[p] => budget'[p] = h.after[p]
  <2> DEFINE st == column(p, "status")
             am == column(p, "amount")
  <2>1. budget'[p] = [status |-> st, amount |-> am] BY <1>2
  <2>2. PICK n \in Rows, r \in Rows, a \in Rows : n = budget[p] /\ r = h.budget[p] /\ a = h.after[p]
    BY <1>4, <1>5, <1>6
  <2>3. /\ n.status = "none" <=> n.amount = 0
        /\ r.status = "none" <=> r.amount = 0
        /\ a.status = "none" <=> a.amount = 0
    BY <1>4, <1>5, <1>6, <2>2 DEF RowsAgree
  <2>4. /\ r.status # "none" => a.status # "none"
        /\ r.status # "none" => n.status # "none"
        /\ r.status = "none" /\ a.status # "none" => n.status = "none"
    <3>1. r = NoBudget <=> r.status = "none" BY <1>5, <2>2, RowIsNone
    <3>2. a = NoBudget <=> a.status = "none" BY <1>6, <2>2, RowIsNone
    <3>3. n = NoBudget <=> n.status = "none" BY <1>4, <2>2, RowIsNone
    <3>4. r # NoBudget => n # NoBudget BY <1>1, <2>2 DEF ImportRead
    <3>5. r = NoBudget /\ a # NoBudget => n = NoBudget BY <1>3, <2>2 DEF Inserted
    <3> QED BY <1>6, <2>2, <3>1, <3>2, <3>3, <3>4, <3>5
  <2>5. /\ st = IF a.status = r.status THEN n.status ELSE a.status
        /\ am = IF a.amount = r.amount THEN n.amount ELSE a.amount
    BY <2>2
  <2> HIDE DEF st, am
  <2>6. st \in {"none", "posted", "void"} /\ am \in Amounts \cup {0}
    BY <2>2, <2>5 DEF Rows
  <2>7. st = "none" <=> am = 0
    BY <2>2, <2>3, <2>4, <2>5 DEF Rows
  <2>8. n.status # "none" => st # "none"
    BY <2>3, <2>4, <2>5
  <2>9. n # NoBudget => n.status # "none" BY <1>4, <2>2, RowIsNone
  <2>10. ASSUME r = n PROVE st = a.status /\ am = a.amount
    BY <2>5, <2>10
  <2>11. a = [status |-> a.status, amount |-> a.amount] BY <2>2 DEF Rows
  <2> QED BY <2>1, <2>2, <2>6, <2>7, <2>8, <2>9, <2>10, <2>11 DEF Rows, NoBudget
<1>8. budget' \in [Positions -> Rows] BY <1>2, <1>7
<1>9. RowsAgree(budget)' BY <1>7 DEF RowsAgree
<1>10. h.budget = budget => budget' = h.after BY <1>6, <1>7, <1>8
<1> QED BY <1>7, <1>8, <1>9, <1>10

\* A commit over the state that was read makes the baseline the budget, and
\* leaves a decided plan alone.
LEMMA CommitImportStep ==
  ASSUME LedgerInv, NEW i \in Importers, CommitImportBudget(i)
  PROVE  LedgerInv'
<1> USE LedgerAssumption, NothingPriced
<1> DEFINE h == importer[i]
<1>1. ImportRead(h) BY DEF LedgerInv, ImportersRead, CommitImportBudget
<1>2. /\ UNCHANGED <<estimate, revised, manual, cost, answered, committed>>
      /\ meta' = IF h.to = h.meta THEN meta ELSE h.to
      /\ rushed' = (rushed \/ meta # h.meta \/ budget # h.budget)
      /\ importer' = [importer EXCEPT ![i] = NoImporter]
  BY DEF CommitImportBudget
<1>3. /\ budget' \in [Positions -> Rows] /\ RowsAgree(budget)'
      /\ \A p \in Positions : budget[p] # NoBudget => budget'[p] # NoBudget
      /\ h.budget = budget => budget' = h.after
  BY CommittedRows
<1>4. meta' \in Metas /\ h.to \in Metas /\ h.meta \in Metas BY <1>1, <1>2 DEF LedgerInv, ImportRead
<1>5. LedgerTypeOK'
  BY <1>2, <1>3, <1>4 DEF LedgerInv, LedgerTypeOK, Rows, RowsAgree, Metas, Plans
<1>6. ASSUME ~rushed' PROVE meta' = h.to /\ meta = h.meta /\ ~rushed /\ budget' = h.after
  BY <1>2, <1>3, <1>6 DEF LedgerInv
<1>7. BudgetIsBaseline'
  <2> SUFFICES ASSUME ~rushed' PROVE Posted' = meta'.baseline BY DEF BudgetIsBaseline
  <2>1. budget' = RepostedFrom(h.budget, h.to.baseline) BY <1>1, <1>6 DEF ImportRead
  <2>2. h.to.baseline \in Priced /\ h.budget \in [Positions -> Rows] /\ RowsAgree(h.budget)
    BY <1>1, <1>4 DEF Metas, ImportRead
  <2>3. \A p \in Positions : (IF budget'[p].status = "posted" THEN budget'[p].amount ELSE 0) = h.to.baseline[p]
    BY <2>1, <2>2, RepostedRows
  <2>4. Posted' = [p \in Positions |-> IF budget'[p].status = "posted" THEN budget'[p].amount ELSE 0] BY DEF Posted
  <2>5. Posted' = h.to.baseline BY <2>2, <2>3, <2>4 DEF Priced
  <2> QED BY <2>5, <1>6
<1>8. DecidedPlanStays'
  <2> SUFFICES ASSUME ~rushed', committed # NoPlan PROVE meta'.plan = committed
    BY <1>2 DEF DecidedPlanStays
  <2>1. meta.plan = committed /\ committed.decided BY <1>6 DEF LedgerInv, DecidedPlanStays
  <2>2. h.to.plan = h.meta.plan BY <1>1, <1>6, <2>1 DEF ImportRead
  <2> QED BY <1>6, <2>1, <2>2
<1>9. ImportersRead'
  <2>1. DOMAIN importer' = Importers BY <1>2 DEF LedgerInv, ImportersRead
  <2>2. ASSUME NEW j \in Importers, importer'[j].at = "budget" PROVE ImportRead(importer[j])'
    <3>1. j # i BY <1>2, <2>2 DEF LedgerInv, ImportersRead, NoImporter
    <3>2. importer'[j] = importer[j] BY <1>2, <3>1 DEF LedgerInv, ImportersRead
    <3>3. ImportRead(importer[j]) BY <2>2, <3>2 DEF LedgerInv, ImportersRead
    <3> QED BY <1>3, <3>2, <3>3 DEF ImportRead
  <2>3. ASSUME NEW j \in Importers, importer'[j].at = "cost"
        PROVE importer'[j].key \in CostKeys /\ importer'[j].amount \in Amounts
    BY <1>2, <2>3 DEF LedgerInv, ImportersRead, NoImporter
  <2> QED BY <2>1, <2>2, <2>3 DEF ImportersRead
<1>10. rushed' \in BOOLEAN BY <1>2 DEF LedgerInv
<1> QED
  BY <1>2, <1>3, <1>4, <1>5, <1>7, <1>8, <1>9, <1>10 DEF LedgerInv, CostsAreExact

\* An importer that starts or ends without touching the entries.
LEMMA ImportersStay ==
  ASSUME LedgerInv, NEW i \in Importers, NEW new, importer' = [importer EXCEPT ![i] = new],
         UNCHANGED budget, new.at # "budget",
         new.at = "cost" => new.key \in CostKeys /\ new.amount \in Amounts
  PROVE  ImportersRead'
<1>1. DOMAIN importer' = Importers BY DEF LedgerInv, ImportersRead
<1>2. ASSUME NEW j \in Importers, importer'[j].at = "budget" PROVE ImportRead(importer[j])'
  <2>1. importer'[j] = importer[j] BY <1>2 DEF LedgerInv, ImportersRead
  <2> QED BY <1>2, <2>1 DEF LedgerInv, ImportersRead, ImportRead
<1>3. ASSUME NEW j \in Importers, importer'[j].at = "cost"
      PROVE importer'[j].key \in CostKeys /\ importer'[j].amount \in Amounts
  BY <1>3 DEF LedgerInv, ImportersRead
<1> QED BY <1>1, <1>2, <1>3 DEF ImportersRead

\* The estimate is revised, an entry made by hand, a cost begun, an import refused.
LEMMA EstimateStep ==
  ASSUME LedgerInv, \/ \E lines \in Priced : ReviseEstimate(lines)
                    \/ CreateEntry
                    \/ \E i \in Importers : ImportConflict(i)
                    \/ \E i \in Importers, k \in CostKeys, a \in Amounts : BeginCost(i, k, a)
  PROVE  LedgerInv'
<1>1. /\ estimate' = estimate \/ estimate' \in Priced
      /\ UNCHANGED <<budget, meta, cost, answered, rushed, committed>>
  BY DEF ReviseEstimate, CreateEntry, ImportConflict, BeginCost
<1>2. ImportersRead'
  <2>1. CASE UNCHANGED importer BY <1>1, <2>1 DEF LedgerInv, ImportersRead, ImportRead
  <2>2. ASSUME NEW i \in Importers, ImportConflict(i) PROVE ImportersRead'
    <3>1. importer' = [importer EXCEPT ![i] = NoImporter] BY <2>2 DEF ImportConflict
    <3>2. NoImporter.at = "idle" BY DEF NoImporter
    <3> QED BY <1>1, <3>1, <3>2, ImportersStay
  <2>3. ASSUME NEW i \in Importers, NEW k \in CostKeys, NEW a \in Amounts, BeginCost(i, k, a)
        PROVE ImportersRead'
    <3>1. PICK new : new = [at |-> "cost", key |-> k, amount |-> a] OBVIOUS
    <3>2. importer' = [importer EXCEPT ![i] = new] BY <2>3, <3>1 DEF BeginCost
    <3>3. new.at = "cost" /\ new.key = k /\ new.amount = a BY <3>1
    <3> QED BY <1>1, <3>2, <3>3, ImportersStay
  <2> QED BY <2>1, <2>2, <2>3 DEF ReviseEstimate, CreateEntry
<1> QED
  BY <1>1, <1>2 DEF LedgerInv, LedgerTypeOK, BudgetIsBaseline, DecidedPlanStays, CostsAreExact, Posted, RowsAgree

\* The office decides on the plan.
LEMMA DecideStep ==
  ASSUME LedgerInv, DecidePurchase
  PROVE  LedgerInv'
<1> DEFINE decided == [meta EXCEPT !.plan.decided = TRUE]
<1>1. /\ UNCHANGED <<estimate, revised, budget, manual, cost, importer, answered, rushed>>
      /\ meta.plan # NoPlan /\ ~meta.plan.decided
      /\ meta' = decided
      /\ committed' = IF committed = NoPlan THEN meta'.plan ELSE committed
  BY DEF DecidePurchase
<1>2. PICK b \in Priced, l \in Priced, d \in BOOLEAN : meta = [baseline |-> b, plan |-> [lines |-> l, decided |-> d]]
  BY DEF LedgerInv, Metas, Plans
<1>3. meta' = [baseline |-> b, plan |-> [lines |-> l, decided |-> TRUE]]
  BY <1>1, <1>2
<1>4. meta' \in Metas /\ meta'.plan.decided /\ meta'.baseline = meta.baseline /\ meta'.plan.lines = meta.plan.lines
  BY <1>2, <1>3 DEF Metas, Plans
<1>5. committed' \in Plans /\ committed'.decided
  BY <1>1, <1>4 DEF LedgerInv, Metas
<1>6. ImportersRead' BY <1>1 DEF LedgerInv, ImportersRead, ImportRead
<1>7. DecidedPlanStays'
  BY <1>1, <1>4 DEF LedgerInv, DecidedPlanStays
<1>8. LedgerTypeOK' BY <1>1, <1>4 DEF LedgerInv, LedgerTypeOK
<1>9. BudgetIsBaseline' BY <1>1, <1>4 DEF LedgerInv, BudgetIsBaseline, Posted
<1> QED
  BY <1>1, <1>4, <1>5, <1>6, <1>7, <1>8, <1>9 DEF LedgerInv, CostsAreExact, RowsAgree

\* A cost is written once for its key, and every later answer compares with it.
LEMMA CostStep ==
  ASSUME LedgerInv, \/ \E i \in Importers : FinishCost(i)
                    \/ \E k \in CostKeys, a \in Amounts : RetryCost(k, a)
  PROVE  LedgerInv'
<1> USE LedgerAssumption
<1>1. UNCHANGED <<estimate, revised, budget, manual, meta, rushed, committed>>
  BY DEF FinishCost, RetryCost
<1>2. cost \in [CostKeys -> Amounts \cup {0}] /\ answered \subseteq CostKeys \X Amounts /\ CostsAreExact
  BY DEF LedgerInv, LedgerTypeOK
<1> DEFINE CostKept == /\ ImportersRead' /\ cost' \in [CostKeys -> Amounts \cup {0}]
                       /\ answered' \subseteq CostKeys \X Amounts /\ CostsAreExact'
<1>3. ASSUME NEW k \in CostKeys, NEW a \in Amounts, RetryCost(k, a)
      PROVE  CostKept
  <2>1. UNCHANGED <<cost, importer>> /\ answered' = answered \cup {<<k, a>>} /\ cost[k] = a
    BY <1>3 DEF RetryCost, SameCost
  <2>2. ImportersRead' BY <1>1, <2>1 DEF LedgerInv, ImportersRead, ImportRead
  <2> QED BY <1>2, <2>1, <2>2 DEF CostsAreExact
<1>4. ASSUME NEW i \in Importers, FinishCost(i)
      PROVE  CostKept
  <2> DEFINE k == importer[i].key
             a == importer[i].amount
  <2>1. /\ importer[i].at = "cost" /\ importer' = [importer EXCEPT ![i] = NoImporter]
        /\ cost' = IF cost[k] = 0 THEN [cost EXCEPT ![k] = a] ELSE cost
        /\ answered' = IF cost[k] = 0 \/ cost[k] = a THEN answered \cup {<<k, a>>} ELSE answered
    BY <1>4 DEF FinishCost, SameCost
  <2>2. k \in CostKeys /\ a \in Amounts BY <2>1 DEF LedgerInv, ImportersRead
  <2>3. ImportersRead'
    <3>1. NoImporter.at = "idle" BY DEF NoImporter
    <3> QED BY <1>1, <2>1, <3>1, ImportersStay
  <2>4. cost' \in [CostKeys -> Amounts \cup {0}] /\ answered' \subseteq CostKeys \X Amounts
    BY <1>2, <2>1, <2>2
  <2>5. \A x \in CostKeys : cost[x] # 0 => cost'[x] = cost[x]
    BY <1>2, <2>1, <2>2
  <2>6. \A e \in answered : e[1] \in CostKeys /\ e[2] # 0 /\ cost[e[1]] = e[2]
    BY <1>2 DEF CostsAreExact
  <2>7. <<k, a>> \in answered' => cost'[k] = a
    <3>1. CASE cost[k] = 0 BY <1>2, <2>1, <2>2, <3>1
    <3>2. CASE cost[k] # 0
      <4>1. ASSUME <<k, a>> \in answered PROVE cost[k] = a
        BY <2>6, <4>1
      <4> QED BY <2>1, <2>5, <2>2, <3>2, <4>1
    <3> QED BY <3>1, <3>2
  <2>8. CostsAreExact'
    <3> SUFFICES ASSUME NEW e \in answered' PROVE cost'[e[1]] = e[2] BY DEF CostsAreExact
    <3>1. CASE e \in answered BY <2>5, <2>6, <3>1
    <3>2. CASE e = <<k, a>> BY <2>7, <3>2
    <3> QED BY <2>1, <3>1, <3>2
  <2> QED BY <2>3, <2>4, <2>8
<1>5. CostKept BY <1>3, <1>4
<1> QED
  BY <1>1, <1>5 DEF LedgerInv, LedgerTypeOK, BudgetIsBaseline, DecidedPlanStays, Posted, RowsAgree

\* Every step keeps the invariant.
LEMMA LedgerStep == LedgerInv /\ [LedgerNext]_ledgerVars => LedgerInv'
<1> SUFFICES ASSUME LedgerInv, [LedgerNext]_ledgerVars PROVE LedgerInv' OBVIOUS
<1>1. CASE UNCHANGED ledgerVars
  BY <1>1 DEF ledgerVars, LedgerInv, LedgerTypeOK, BudgetIsBaseline, DecidedPlanStays, CostsAreExact, Posted,
              RowsAgree, ImportersRead, ImportRead
<1>2. CASE LedgerNext
  <2>1. ASSUME NEW i \in Importers, NEW b \in BOOLEAN, BeginImportBudget(i, b) PROVE LedgerInv'
    BY <2>1, BeginImportStep
  <2>2. ASSUME NEW i \in Importers, CommitImportBudget(i) PROVE LedgerInv'
    BY <2>2, CommitImportStep
  <2> QED BY <1>2, <2>1, <2>2, EstimateStep, DecideStep, CostStep DEF LedgerNext
<1> QED BY <1>1, <1>2

\* However imports are repeated or race: the baseline is what is budgeted, a
\* decided plan stays, and a cost answered as posted is in the ledger
\* (services/finance.py, services/completed_work_costs.py).
THEOREM LedgerIsKept == LedgerSpec => []LedgerHolds
<1>1. LedgerInv => LedgerHolds BY DEF LedgerInv, LedgerHolds
<1> QED BY <1>1, LedgerInitInv, LedgerStep, PTL DEF LedgerSpec
=============================================================================
