--------------------------- MODULE CustomerQuotes ---------------------------
(***************************************************************************)
(* Customer quotes and the award of their project                          *)
(* (services/customer_quotes.py).  A request locks its quote, then its     *)
(* project, and compares the revision that its client saw.  Creating a     *)
(* quote and awarding a project that has no number yet are two steps, since *)
(* the number is read before it is written.                                *)
(***************************************************************************)
EXTENDS Projects

CONSTANTS
  Workspaces,   \* estimate workspaces, all of the project QuoteProject
  QuoteProject,
  Prices,       \* totals of a quote, and versions of an estimate
  MaxRevision   \* bound on record_revision

ASSUME QuotesAssumption ==
  /\ Prices \subseteq Nat \ {0} /\ MaxRevision \in Nat \ {0} /\ IsFiniteSet(Quotes)
  /\ QuoteProject \in Projects /\ None \notin Projects

VARIABLES
  quote,        \* the rows
  estimate,     \* the saved version of an estimate (its hash)
  contract,     \* contract value and client columns of a project
  view,         \* what a manager has on the screen
  request,      \* a creation or an acceptance between its read and its commit
  signed        \* history: the total that was on the screen of whoever accepted

quoteVars == <<quote, estimate, contract, view, request, signed>>

Open == {"draft", "sent"}
Closed == {"declined", "expired"}
Issues == {"draft", "ready_for_review", "approved_for_issue", "issued"}
Revisions == 1..MaxRevision
QuoteNumbers == 1..Cardinality(Quotes)
NoQuote == [status |-> "absent", issue |-> "draft", rev |-> 0, total |-> 0, p |-> None,
            number |-> 0, source |-> None, hash |-> 0, snapshot |-> 0]

QuotesInit ==
  /\ ProjectsInit
  /\ quote = [q \in Quotes |-> NoQuote]
  /\ estimate = [w \in Workspaces |-> 0]
  /\ contract = [p \in Projects |-> 0]
  /\ view = [s \in Sessions |-> None]
  /\ request = [s \in Sessions |-> Idle]
  /\ signed = [q \in Quotes |-> 0]

Existing == {q \in Quotes : quote[q].status # "absent"}

----------------------------------------------------------------------------
\* Creation

\* _next_quote_number
NextQuoteNumber ==
  IF Existing = {} THEN 1 ELSE Max({quote[q].number : q \in Existing}) + 1

\* _find_estimate_quote: the workspace's own quote, else the project's quote of
\* an identical estimate.
EstimateQuotes(w, h) ==
  LET own == {q \in Existing : quote[q].source = w}
  IN IF own # {} THEN own
     ELSE {q \in Existing : quote[q].p = QuoteProject /\ quote[q].hash = h}

\* The unique keys of customer_quotes.
QuoteKeysFree(r) ==
  \A q \in Existing :
    /\ quote[q].number # r.number
    /\ r.source # None =>
         quote[q].source # r.source /\ ~(quote[q].p = r.p /\ quote[q].hash = r.hash)

Unclaimed(s, q) ==
  /\ request[s] = Idle /\ quote[q].status = "absent"
  /\ \A o \in Sessions : request[o] # Idle => request[o].q # q

\* create_customer_quote on a project, or on a new one (None), up to the flush.
BeginCreateQuote(s, q, p, total) ==
  /\ Unclaimed(s, q)
  /\ p # None => project[p].status \notin {"absent", "archived"}
  /\ request' = [request EXCEPT ![s] =
       [at |-> "create", q |-> q, p |-> p, total |-> total, number |-> NextQuoteNumber,
        source |-> None, hash |-> 0]]
  /\ UNCHANGED <<projectsVars, quote, estimate, contract, view, signed>>

\* create_customer_quote_from_estimate, when no quote of the estimate is found.
\* A quote of an older version of the workspace is an error.
BeginQuoteEstimate(s, q, w) ==
  /\ Unclaimed(s, q)
  /\ project[QuoteProject].status \notin {"absent", "archived"}
  /\ estimate[w] # 0 /\ EstimateQuotes(w, estimate[w]) = {}
  /\ request' = [request EXCEPT ![s] =
       [at |-> "create", q |-> q, p |-> QuoteProject, total |-> estimate[w],
        number |-> NextQuoteNumber, source |-> w, hash |-> estimate[w]]]
  /\ UNCHANGED <<projectsVars, quote, estimate, contract, view, signed>>

\* A new project is created by the same transaction.
NewProject(p) ==
  /\ project[p].status = "absent"
  /\ \A s \in Sessions : update[s] # Idle => update[s].p # p

CommitQuote(s, p) ==
  LET r == request[s]
  IN /\ r.at = "create" /\ QuoteKeysFree(r)
     /\ IF r.p = None
        THEN /\ NewProject(p)
             /\ project' = [project EXCEPT ![p].status = "opportunity"]
             /\ contract' = [contract EXCEPT ![p] = r.total]
        ELSE p = r.p /\ UNCHANGED <<project, contract>>
     /\ quote' = [quote EXCEPT ![r.q] =
          [NoQuote EXCEPT !.status = "draft", !.rev = 1, !.total = r.total, !.p = p,
             !.number = r.number, !.source = r.source, !.hash = r.hash]]
     /\ request' = [request EXCEPT ![s] = Idle]
     /\ UNCHANGED <<closeout, mobilized, document, update, updates, decided,
                    postedBlocked, raced, estimate, view, signed>>

\* IntegrityError: return the quote of the same estimate, if that is what is
\* there, else try the next number.
RetryQuote(s) ==
  LET r == request[s]
  IN /\ r.at = "create" /\ ~QuoteKeysFree(r)
     /\ request' = [request EXCEPT ![s] =
          IF r.source # None /\ EstimateQuotes(r.source, r.hash) # {} THEN Idle
          ELSE [r EXCEPT !.number = NextQuoteNumber]]
     /\ UNCHANGED <<projectsVars, quote, estimate, contract, view, signed>>

\* The estimate of a workspace is saved (estimates.py).
SaveEstimate(w, h) ==
  /\ h > estimate[w]
  /\ estimate' = [estimate EXCEPT ![w] = h]
  /\ UNCHANGED <<projectsVars, quote, contract, view, request, signed>>

----------------------------------------------------------------------------
\* Editing, issuing, closing

\* A manager loads a quote.
ViewQuote(s, q) ==
  /\ s \in Managers /\ q \in Existing /\ request[s] = Idle
  /\ view' = [view EXCEPT ![s] = [q |-> q, rev |-> quote[q].rev, total |-> quote[q].total]]
  /\ UNCHANGED <<projectsVars, quote, estimate, contract, request, signed>>

\* Rows that an acceptance holds.
QuoteLocked(q) == \E s \in Sessions : request[s].at = "award" /\ request[s].q = q
ProjectLocked(p) == \E s \in Sessions : request[s].at = "award" /\ request[s].p = p

\* The revision a client sends is the one it saw.  What is refused changes
\* nothing, so others than managers are taken to have seen the current one.
Expected(s, q) ==
  s \in Managers => view[s] # None /\ view[s].q = q /\ quote[q].rev = view[s].rev

Current(s, q) ==
  /\ q \in Existing /\ request[s] = Idle /\ Expected(s, q)
  /\ ~QuoteLocked(q) /\ quote[q].rev < MaxRevision

\* update_customer_quote lets this quote be edited.
Editable(row) ==
  row.status # "accepted" /\ row.issue \notin {"approved_for_issue", "issued"}

UpdateQuote(s, q, total) ==
  LET row == quote[q]
  IN /\ Current(s, q) /\ Editable(row) /\ ~ProjectLocked(row.p)
     /\ quote' = [quote EXCEPT ![q] =
          [row EXCEPT !.total = total, !.rev = @ + 1, !.issue = "draft",
                      !.status = IF @ \in Closed THEN "draft" ELSE @]]
     /\ contract' = [contract EXCEPT ![row.p] = total]
     /\ UNCHANGED <<projectsVars, estimate, view, request, signed>>

\* update_customer_quote_status: declined or expired.
CloseQuote(s, q, status) ==
  /\ Current(s, q) /\ quote[q].status \in Open
  /\ quote' = [quote EXCEPT ![q].status = status, ![q].rev = @ + 1]
  /\ UNCHANGED <<projectsVars, estimate, contract, view, request, signed>>

\* update_customer_quote_issue_status: review, approve (which takes the
\* snapshot that the PDF is rendered from), record as issued.
IssueQuote(s, q) ==
  LET row == quote[q]
      step == CASE row.issue = "draft" -> [row EXCEPT !.issue = "ready_for_review"]
                [] row.issue = "ready_for_review" ->
                     [row EXCEPT !.issue = "approved_for_issue", !.snapshot = row.total]
                [] row.issue = "approved_for_issue" ->
                     [row EXCEPT !.issue = "issued", !.status = "sent"]
  IN /\ Current(s, q) /\ row.status \in Open /\ row.issue # "issued"
     /\ row.issue # "draft" => s \in Managers
     /\ quote' = [quote EXCEPT ![q] = [step EXCEPT !.rev = @ + 1]]
     /\ UNCHANGED <<projectsVars, estimate, contract, view, request, signed>>

----------------------------------------------------------------------------
\* Acceptance

\* accept_customer_quote is asked for q, or its loop goes round for q.
Accepting(s, q) ==
  /\ s \in Managers /\ ~QuoteLocked(q) /\ ~ProjectLocked(quote[q].p)
  /\ request[s] = Idle \/ (request[s].at = "again" /\ request[s].q = q)

\* The first half of a turn: both rows are locked and a number is computed if
\* the project has none.
BeginAccept(s, q) ==
  LET p == quote[q].p
  IN /\ q \in Existing /\ Accepting(s, q)
     /\ Expected(s, q) /\ quote[q].rev < MaxRevision
     /\ quote[q].status \in Open /\ project[p].status # "archived"
     /\ project[p].number = 0 => NextJobNumber <= MaxNumber
     /\ request' = [request EXCEPT ![s] =
          [at |-> "award", q |-> q, p |-> p,
           number |-> IF project[p].number = 0 THEN NextJobNumber ELSE project[p].number]]
     /\ UNCHANGED <<projectsVars, quote, estimate, contract, view, signed>>

\* prepare_project_award, _initialize_award_controls and the commit.
CommitAccept(s) ==
  LET r == request[s]
      row == project[r.p]
  IN /\ r.at = "award" /\ NumberFree(r.p, r.number)
     /\ quote' = [quote EXCEPT ![r.q].status = "accepted", ![r.q].rev = @ + 1]
     /\ project' = [project EXCEPT ![r.p] =
          [row EXCEPT !.status = "awarded", !.number = r.number, !.award = r.q,
                      !.root = IF @ = 0 THEN r.number ELSE @]]
     /\ contract' = [contract EXCEPT ![r.p] = quote[r.q].total]
     /\ ProvisionChecklists(r.p)
     /\ signed' = [signed EXCEPT ![r.q] = view[s].total]
     /\ request' = [request EXCEPT ![s] = Idle]
     /\ UNCHANGED <<document, update, updates, decided, postedBlocked, raced,
                    estimate, view>>

\* Mutant of RetryAccept: the quote is committed before its project.
RetryHalfAccepted(s) ==
  /\ request[s].at = "award" /\ ~NumberFree(request[s].p, request[s].number)
  /\ quote' = [quote EXCEPT ![request[s].q].status = "accepted"]
  /\ request' = [request EXCEPT ![s] = [at |-> "again", q |-> @.q]]
  /\ signed' = [signed EXCEPT ![request[s].q] = view[s].total]
  /\ UNCHANGED <<projectsVars, estimate, contract, view>>

\* The number was taken meanwhile: roll back, which gives the locks back, and
\* start again; the loop ends with an error if the quote has changed.
RetryAccept(s) ==
  /\ request[s].at = "award" /\ ~NumberFree(request[s].p, request[s].number)
  /\ request' = [request EXCEPT ![s] = [at |-> "again", q |-> @.q]]
  /\ UNCHANGED <<projectsVars, quote, estimate, contract, view, signed>>

AcceptFails(s, q) ==
  /\ request[s].at = "again" /\ Accepting(s, q) /\ quote[q].status # "accepted"
  /\ ~Expected(s, q) \/ quote[q].status \in Closed \/ project[quote[q].p].status = "archived"
  /\ request' = [request EXCEPT ![s] = Idle]
  /\ UNCHANGED <<projectsVars, quote, estimate, contract, view, signed>>

\* An acceptance that is repeated only initialises the award controls.
RepeatAccept(s, q) ==
  /\ q \in Existing /\ Accepting(s, q) /\ quote[q].status = "accepted"
  /\ project' = [project EXCEPT ![quote[q].p].award = q]
  /\ request' = [request EXCEPT ![s] = Idle]
  /\ UNCHANGED <<closeout, mobilized, document, update, updates, decided,
                 postedBlocked, raced, quote, estimate, contract, view, signed>>

----------------------------------------------------------------------------
\* Requests on projects, which wait for a row that an acceptance holds.
ProjectStep ==
  /\ UpdateStep \/ \E p \in Projects : ArchiveProject(p)
  /\ \A p \in Projects : ProjectLocked(p) => project'[p] = project[p]
  /\ UNCHANGED quoteVars

QuotesNext ==
  \/ \E s \in Sessions, q \in Quotes :
       \/ \E p \in Projects \cup {None}, t \in Prices : BeginCreateQuote(s, q, p, t)
       \/ \E w \in Workspaces : BeginQuoteEstimate(s, q, w)
       \/ ViewQuote(s, q)
       \/ \E t \in Prices : UpdateQuote(s, q, t)
       \/ \E c \in Closed : CloseQuote(s, q, c)
       \/ IssueQuote(s, q) \/ BeginAccept(s, q) \/ RepeatAccept(s, q)
       \/ AcceptFails(s, q)
  \/ \E s \in Sessions :
       \/ \E p \in Projects : CommitQuote(s, p)
       \/ RetryQuote(s) \/ CommitAccept(s) \/ RetryAccept(s)
  \/ \E w \in Workspaces, h \in Prices : SaveEstimate(w, h)
  \/ ProjectStep

QuotesSpec == QuotesInit /\ [][QuotesNext]_<<projectsVars, quoteVars>>

----------------------------------------------------------------------------
\* Types of the quotes and of the requests on them.
QuotesTypeOK ==
  /\ \A q \in Existing :
       /\ quote[q].status \in Open \cup Closed \cup {"accepted"}
       /\ quote[q].issue \in Issues /\ quote[q].rev \in Revisions
       /\ quote[q].total \in Prices /\ quote[q].p \in Projects
       /\ quote[q].number \in QuoteNumbers
       /\ quote[q].source \in {None} \cup Workspaces
  /\ estimate \in [Workspaces -> {0} \cup Prices]
  /\ contract \in [Projects -> {0} \cup Prices]
  /\ signed \in [Quotes -> {0} \cup Prices]

\* An accepted quote has the total that its acceptor saw, however it was
\* edited before and whatever is sent afterwards.
AcceptedAsSeen ==
  \A q \in Existing : quote[q].status = "accepted" => quote[q].total = signed[q]

\* While a revision is approved or issued, its PDF shows the quote's total.
IssuedAsApproved ==
  \A q \in Existing : quote[q].issue \in {"approved_for_issue", "issued"} =>
    quote[q].snapshot = quote[q].total

\* An acceptance is one transaction, however often its number was refused:
\* the project has its number, workspace and checklists, and, while the quote
\* is the only one of the project, its price as contract value and the award
\* baseline (unless a generic update wrote back what it had read before).
AwardIsComplete ==
  \A q \in Existing : quote[q].status = "accepted" =>
    LET p == quote[q].p
        only == \A o \in Existing \ {q} : quote[o].p # p
    IN /\ project[p].number # 0 /\ project[p].root # 0
       /\ mobilized[p] # "none" /\ closeout[p] # None
       /\ only => contract[p] = signed[q]
       /\ only /\ ~raced[p] => project[p].award = q

\* Every quote has a number of its own, and an estimate has one quote.
QuoteKeysUnique ==
  \A q, o \in Existing : q # o =>
    /\ quote[q].number # quote[o].number
    /\ quote[q].source # None => quote[o].source # quote[q].source

\* The quotes, whatever requests race or are repeated: an accepted quote is the
\* one its client saw, was issued as it was approved, and has its award whole;
\* numbers and estimates are not shared.
QuotesAreKept ==
  QuotesTypeOK /\ AcceptedAsSeen /\ IssuedAsApproved /\ AwardIsComplete /\ QuoteKeysUnique

=============================================================================
