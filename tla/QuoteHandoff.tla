----------------------------- MODULE QuoteHandoff -----------------------------
(***************************************************************************)
(* From supplier quotes to the estimate (services/quotes.py,               *)
(* quote_selection.py, quote_estimate_handoff.py, estimate_workspace.py):  *)
(* one line item is priced by several suppliers, some with a revision; a   *)
(* hand-off selects a quote, merges it into the latest draft estimate,     *)
(* prices the lines (estimates.py, equipment_rates.py) and stores a new    *)
(* draft.  Estimators save drafts of their own meanwhile.                  *)
(***************************************************************************)
EXTENDS Naturals, Sequences, FiniteSets

CONSTANTS
  Quotes,            \* saved supplier quotes
  SupplierOf,        \* the supplier of each
  RevisionOf,        \* its revision number
  Handoffs,          \* hand-off requests
  MaxQuoteChanges,   \* bound on the changes of quotes
  MaxSaves           \* bound on the drafts that are stored

ASSUME HandoffAssumption ==
  /\ IsFiniteSet(Quotes) /\ RevisionOf \in [Quotes -> Nat] /\ DOMAIN SupplierOf = Quotes
  /\ {MaxQuoteChanges, MaxSaves} \subseteq Nat

VARIABLES
  quotes,      \* the quotes table
  bids,        \* the drafts, oldest first: lines, their costs, where they are from
  handoff,     \* a hand-off between its reads and its commit
  opened,      \* the draft that an estimator has on screen
  changes,     \* counts what MaxQuoteChanges bounds
  refused,     \* history: a hand-off was refused because a code was doubled
  overlapped   \* history: two hand-offs were under way together

handoffVars == <<quotes, bids, handoff, opened, changes, refused, overlapped>>

NotSaved == [amount |-> 0, mark |-> "unsaved"]
\* What a saved quote offers; 0 when it is asked for, declined, not qualified
\* or free.  It may be selected by hand, with a reason or without.
QuoteRows == [amount: 0..2, mark: {"none", "chosen", "explained"}]

\* A line of an estimate: its code, whether it names a standard activity, its
\* own crew, machine and direct cost, and the quotes of its vendors; "site" is
\* a line that no supplier prices.  A machine may come with its operator.
Codes == {"pipe", "site"}
NoCrew == [operator |-> 0, labourer |-> 0]
Machines == {"none", "bare", "operated"}
VendorQuotes == [quote: Quotes, amount: 1..2, selected: BOOLEAN, explained: BOOLEAN]
Lines == [code: Codes, activity: BOOLEAN, crew: [operator: 0..1, labourer: 0..1], machine: Machines,
          direct: 0..1, vendors: SUBSET VendorQuotes]
NoHandoff == [at |-> "idle"]

HandoffInit ==
  /\ quotes \in [Quotes -> QuoteRows \cup {NotSaved}]
  /\ bids = <<>>
  /\ handoff = [h \in Handoffs |-> NoHandoff]
  /\ opened = 0
  /\ changes = 0
  /\ refused = FALSE
  /\ overlapped = FALSE

----------------------------------------------------------------------------
\* Selection, a function of the saved quotes

Saved(qs) == {q \in Quotes : qs[q] # NotSaved}

\* _select_current_revisions: of the quotes of one supplier, the last revision
CurrentQuotes(qs) ==
  {q \in Saved(qs) : \A x \in Saved(qs) : SupplierOf[x] = SupplierOf[q] => RevisionOf[x] <= RevisionOf[q]}

\* _is_eligible: received or selected, qualified and positive
Eligible(quote) == quote.amount > 0

\* _evaluate_group: the quotes that may price the line, if nothing blocks it
Selection(qs) ==
  LET current == CurrentQuotes(qs)
      eligible == {q \in current : Eligible(qs[q])}
      lowest == {q \in eligible : \A x \in eligible : qs[q].amount <= qs[x].amount}
      marked == {q \in current : qs[q].mark \in {"chosen", "explained"}}
  IN CASE eligible = {} -> {}
       [] Cardinality(marked) > 1 -> {}
       [] Cardinality(marked) = 1 -> {q \in marked \cap eligible : q \in lowest \/ qs[q].mark = "explained"}
       [] OTHER -> lowest

----------------------------------------------------------------------------
\* What a line costs

\* DEFAULT_PRODUCTION_RATES: the crew and the machine of a standard activity
DefaultCrew == [operator |-> 1, labourer |-> 1]
DefaultMachine == "bare"

\* _apply_default_rate: an activity gives what the line leaves open
Crewed(line) ==
  IF line.activity
  THEN [line EXCEPT !.crew = IF line.crew = NoCrew THEN DefaultCrew ELSE line.crew,
                    !.machine = IF line.machine = "none" THEN DefaultMachine ELSE line.machine]
  ELSE line

\* calculate_equipment_rate: an all-in rate has the operator in it
EquipmentRate(machine) == CASE machine = "none" -> 0 [] machine = "bare" -> 1 [] OTHER -> 2

\* calculate_line_item: an operator of the crew is not paid beside an all-in rate
LabourCost(line) == line.crew.labourer + IF line.machine = "operated" THEN 0 ELSE line.crew.operator

\* _selected_vendor_quote: the one selected, unless it is dearer without a reason
SelectedVendorQuote(vendors) ==
  LET selected == {v \in vendors : v.selected}
      lowest == CHOOSE v \in vendors : \A x \in vendors : v.amount <= x.amount
      only == CHOOSE v \in selected : TRUE
  IN IF Cardinality(selected) = 1 /\ (only.amount <= lowest.amount \/ only.explained) THEN only ELSE lowest

LineCost(item) ==
  LET line == Crewed(item)
  IN LabourCost(line) + EquipmentRate(line.machine) + line.direct
       + IF line.vendors = {} THEN 0 ELSE SelectedVendorQuote(line.vendors).amount

\* calculate_estimate: the costs of the lines, on which the markups are made
Summary(lines) == [i \in DOMAIN lines |-> LineCost(lines[i])]

----------------------------------------------------------------------------
\* Quotes and estimates

\* create_quote and update_quote
SaveQuote(q, row) ==
  /\ changes < MaxQuoteChanges /\ changes' = changes + 1 /\ quotes[q] # row
  /\ quotes' = [quotes EXCEPT ![q] = row]
  /\ UNCHANGED <<bids, handoff, opened, refused, overlapped>>

\* The estimating page loads the latest draft.
OpenEstimate ==
  /\ opened # Len(bids) /\ opened' = Len(bids)
  /\ UNCHANGED <<quotes, bids, handoff, changes, refused, overlapped>>

\* A line on the page: a direct cost, or a standard activity with the machine
\* that the estimator chose for it.
OwnLine(code, machine) ==
  [code |-> code, activity |-> machine # "none", crew |-> NoCrew,
   machine |-> IF machine = "bare" THEN "none" ELSE machine,
   direct |-> IF machine = "none" THEN 1 ELSE 0, vendors |-> {}]

\* save_workspace: a new draft of the lines on the page, which may have been
\* added to or be new, with the costs that the page had calculated
SaveEstimate(lines) ==
  /\ Len(bids) < MaxSaves
  /\ bids' = Append(bids, [lines |-> lines, costs |-> Summary(lines), source |-> "workspace",
                           base |-> 0, from |-> <<>>])
  /\ opened' = Len(bids) + 1
  /\ UNCHANGED <<quotes, handoff, changes, refused, overlapped>>

Shown == IF opened = 0 THEN <<>> ELSE bids[opened].lines

----------------------------------------------------------------------------
\* The hand-off

BeginHandoff(h) ==
  /\ handoff[h] = NoHandoff /\ Selection(quotes) # {}
  /\ handoff' = [handoff EXCEPT ![h] = [at |-> "quotes", quotes |-> quotes]]
  /\ overlapped' = (overlapped \/ \E x \in Handoffs : handoff[x] # NoHandoff)
  /\ UNCHANGED <<quotes, bids, opened, changes, refused>>

\* Mutant of Matches: a draft made from another draft is not recognised.
MatchesFirst(bid, qs) == bid.source = "handoff" /\ bid.from = qs /\ bid.base = 0

\* _is_matching_handoff: the draft was made from the same quotes
Matches(bid, qs) == bid.source = "handoff" /\ bid.from = qs

\* The latest draft is read; if it is this hand-off already, it is the answer.
ReadDraft(h) ==
  /\ handoff[h].at = "quotes"
  /\ handoff' = [handoff EXCEPT ![h] =
       IF bids # <<>> /\ Matches(bids[Len(bids)], handoff[h].quotes) THEN NoHandoff
       ELSE [at |-> "draft", quotes |-> handoff[h].quotes, base |-> Len(bids)]]
  /\ UNCHANGED <<quotes, bids, opened, changes, refused, overlapped>>

\* The vendor quotes of the selected line: all that are eligible, one selected
VendorsOf(qs, q) ==
  {[quote |-> x, amount |-> qs[x].amount, selected |-> x = q, explained |-> qs[x].mark = "explained"] :
     x \in {x \in CurrentQuotes(qs) : Eligible(qs[x])}}

NewLine(qs, q) ==
  [code |-> "pipe", activity |-> FALSE, crew |-> NoCrew, machine |-> "none", direct |-> 0,
   vendors |-> VendorsOf(qs, q)]

\* _merge_line keeps the crew and the machine, and takes the quotes for the
\* line's own cost.
MergedLine(line, qs, q) == [line EXCEPT !.direct = 0, !.vendors = VendorsOf(qs, q)]

\* _merge_selected_quotes: a line is added when there is none of the code.
Merged(lines, qs, q) ==
  IF \E i \in DOMAIN lines : lines[i].code = "pipe"
  THEN [i \in DOMAIN lines |-> IF lines[i].code = "pipe" THEN MergedLine(lines[i], qs, q) ELSE lines[i]]
  ELSE Append(lines, NewLine(qs, q))

Doubled(lines) == \E i, j \in DOMAIN lines : i # j /\ lines[i].code = "pipe" /\ lines[j].code = "pipe"

\* The lines of the draft that a hand-off has read
BaseLines(base) == IF base = 0 THEN <<>> ELSE bids[base].lines

CommitHandoff(h) ==
  /\ handoff[h].at = "draft"
  /\ LET read == handoff[h]
         lines == BaseLines(read.base)
     IN IF Doubled(lines)
        THEN refused' = TRUE /\ UNCHANGED bids
        ELSE /\ Len(bids) < MaxSaves
             /\ \E q \in Selection(read.quotes) :
                  bids' = Append(bids, [lines |-> Merged(lines, read.quotes, q),
                                        costs |-> Summary(Merged(lines, read.quotes, q)),
                                        source |-> "handoff", base |-> read.base, from |-> read.quotes])
             /\ UNCHANGED refused
  /\ handoff' = [handoff EXCEPT ![h] = NoHandoff]
  /\ UNCHANGED <<quotes, opened, changes, overlapped>>

HandoffNext ==
  \/ \E q \in Quotes, row \in QuoteRows : SaveQuote(q, row)
  \/ OpenEstimate
  \/ SaveEstimate(Shown)
  \/ \E code \in Codes, machine \in Machines :
       Len(Shown) < 2 /\ SaveEstimate(Append(Shown, OwnLine(code, machine)))
  \/ \E h \in Handoffs : BeginHandoff(h) \/ ReadDraft(h) \/ CommitHandoff(h)

HandoffSpec == HandoffInit /\ [][HandoffNext]_handoffVars

----------------------------------------------------------------------------
\* Types of the quotes, of the drafts and of what a hand-off has read.
HandoffTypeOK ==
  /\ quotes \in [Quotes -> QuoteRows \cup {NotSaved}] /\ opened \in 0..Len(bids)
  /\ \A b \in DOMAIN bids :
       /\ bids[b].lines \in Seq(Lines) /\ DOMAIN bids[b].costs = DOMAIN bids[b].lines
       /\ bids[b].base \in 0..(b - 1) /\ bids[b].source \in {"workspace", "handoff"}
       /\ bids[b].source = "handoff" => bids[b].from \in [Quotes -> QuoteRows \cup {NotSaved}]
  /\ \A h \in Handoffs : handoff[h].at = "draft" => handoff[h].base \in 0..Len(bids)

HandoffDrafts == {b \in DOMAIN bids : bids[b].source = "handoff"}

\* In a hand-off's draft the priced code appears once and without a cost of its
\* own, and the other lines are those of its base, in their places
\* (docs/sprint-2c-quote-estimate-handoff.md:27, :30).
OtherLinesKept ==
  \A b \in HandoffDrafts :
    LET lines == bids[b].lines
        base == BaseLines(bids[b].base)
    IN /\ \E i \in DOMAIN lines : /\ lines[i].vendors # {} /\ lines[i].direct = 0
                                  /\ \A j \in DOMAIN lines : lines[j].code = "pipe" <=> j = i
       /\ \A j \in DOMAIN base : IF base[j].code # "pipe" THEN lines[j] = base[j]
                                 ELSE lines[j].crew = base[j].crew /\ lines[j].machine = base[j].machine
       /\ Len(lines) = Len(base) + IF \E j \in DOMAIN base : base[j].code = "pipe" THEN 0 ELSE 1

\* The quotes a draft was made from that may price the line: their supplier's
\* last revision, and worth something
Rivals(qs) == {q \in Saved(qs) : qs[q].amount > 0 /\
                 ~\E x \in Saved(qs) : SupplierOf[x] = SupplierOf[q] /\ RevisionOf[x] > RevisionOf[q]}

\* The line is priced by a quote that is its supplier's last revision, and is
\* the one that was marked, or the lowest of those that qualify; a dearer one
\* has a reason (docs/sprint-2c-quote-estimate-handoff.md:13).  The estimate's
\* own choice among the vendors of a line agrees with the choice of the
\* hand-off.
PricedAsSelected ==
  \A b \in HandoffDrafts : \A i \in DOMAIN bids[b].lines : bids[b].lines[i].code = "pipe" =>
    LET qs == bids[b].from
        priced == SelectedVendorQuote(bids[b].lines[i].vendors)
        q == priced.quote
    IN /\ q \in Rivals(qs) /\ priced.amount = qs[q].amount
       /\ (\E x \in Rivals(qs) : qs[x].mark # "none") => qs[q].mark # "none"
       /\ \A x \in Rivals(qs) : qs[x].amount < qs[q].amount => qs[q].mark = "explained"

\* The costs stored with a hand-off's draft are those of its quotes and lines:
\* a line that no supplier prices costs what it did in the base; the priced
\* one costs the quote, its machine, and each person of its crew once, also
\* the operator who comes with the machine
\* (docs/sprint-2c-quote-estimate-handoff.md:31; estimates.py:311).
PricedAfresh ==
  \A b \in HandoffDrafts : \A i \in DOMAIN bids[b].lines :
    LET draft == bids[b]
        line == Crewed(draft.lines[i])
    IN IF line.code # "pipe" THEN draft.costs[i] = bids[draft.base].costs[i]
       ELSE draft.costs[i] = draft.from[SelectedVendorQuote(line.vendors).quote].amount
              + (IF line.machine = "none" THEN 0 ELSE 1) + line.crew.labourer
              + (IF line.crew.operator = 1 \/ line.machine = "operated" THEN 1 ELSE 0)

\* An unchanged hand-off is not stored twice in a row, unless two were under
\* way together (docs/sprint-2c-quote-estimate-handoff.md:32).
StoredOnce ==
  ~overlapped => \A b \in 1..(Len(bids) - 1) :
    ~(bids[b].source = "handoff" /\ bids[b + 1].source = "handoff" /\ bids[b].from = bids[b + 1].from)

\* A hand-off prices its line once, by the quote the rules select, at what it
\* costs, and is stored once.
HandoffHolds == HandoffTypeOK /\ OtherLinesKept /\ PricedAsSelected /\ PricedAfresh /\ StoredOnce

==============================================================================
