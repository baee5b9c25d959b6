----------------------------- MODULE ProjectLedger -----------------------------
(***************************************************************************)
(* A project's budget, imported from its priced estimate and imported      *)
(* again when the estimate changes, the procurement plan made with it      *)
(* (services/finance.py), and the actual costs linked to completed work    *)
(* under an idempotency key (services/completed_work_costs.py).  Requests  *)
(* read without locks; a unique key on the source key decides who inserts. *)
(***************************************************************************)
EXTENDS Naturals, FiniteSets

CONSTANTS
  Positions,     \* the lines of an estimate
  Amounts,       \* what a line may cost, without 0
  CostKeys,      \* idempotency keys
  Importers,     \* requests that may run at the same time
  MaxImports     \* bound on the changes of the estimate

ASSUME LedgerAssumption == Amounts \subseteq Nat \ {0} /\ MaxImports \in Nat

VARIABLES
  estimate,    \* the bid's priced lines: 0 for a line that costs nothing
  revised,     \* how often the estimate has changed
  budget,      \* the estimate's budget entries, by source key
  manual,      \* a budget entry was written by hand
  meta,        \* the project's metadata: baseline lines and procurement plan
  cost,        \* the completed-work costs, by idempotency key
  importer,    \* a request between its reads and its commit
  answered,    \* history: the costs answered as posted
  rushed,      \* history: an import was committed over a state it had not read
  committed    \* history: the plan when its first decision was taken

ledgerVars == <<estimate, revised, budget, manual, meta, cost, importer, answered, rushed, committed>>

Priced == [Positions -> Amounts \cup {0}]
NoBudget == [status |-> "none", amount |-> 0]
Nothing == [p \in Positions |-> 0]
NoPlan == [lines |-> Nothing, decided |-> FALSE]
NoImporter == [at |-> "idle"]

LedgerInit ==
  /\ estimate \in Priced
  /\ revised = 0
  /\ budget = [p \in Positions |-> NoBudget]
  /\ manual = FALSE
  /\ meta = [baseline |-> Nothing, plan |-> NoPlan]
  /\ cost = [k \in CostKeys |-> 0]
  /\ importer = [i \in Importers |-> NoImporter]
  /\ answered = {}
  /\ rushed = FALSE
  /\ committed = NoPlan

Posted == [p \in Positions |-> IF budget[p].status = "posted" THEN budget[p].amount ELSE 0]
HasCost(lines) == \E p \in Positions : lines[p] # 0

----------------------------------------------------------------------------
\* The estimate is priced anew.
ReviseEstimate(lines) ==
  /\ revised < MaxImports
  /\ estimate' = lines
  /\ revised' = revised + 1
  /\ UNCHANGED <<budget, manual, meta, cost, importer, answered, rushed, committed>>

\* create_entry of a budget line looks at no other entry.
CreateEntry ==
  /\ manual' = TRUE
  /\ UNCHANGED <<estimate, revised, budget, meta, cost, importer, answered, rushed, committed>>

\* A purchase decision is recorded in the plan (by a write of the metadata).
DecidePurchase ==
  /\ meta.plan # NoPlan /\ ~meta.plan.decided
  /\ meta' = [meta EXCEPT !.plan.decided = TRUE]
  /\ committed' = IF committed = NoPlan THEN meta'.plan ELSE committed
  /\ UNCHANGED <<estimate, revised, budget, manual, cost, importer, answered, rushed>>

\* Mutant of Reposted: a line that the estimate dropped keeps its entry.
RepostedKeeping(lines) ==
  [p \in Positions |-> IF lines[p] # 0 THEN [status |-> "posted", amount |-> lines[p]]
                       ELSE budget[p]]

\* What an import makes of the entries: lines with a cost are posted, an entry
\* whose line is gone is voided.
Reposted(lines) ==
  [p \in Positions |->
     IF lines[p] # 0 THEN [status |-> "posted", amount |-> lines[p]]
     ELSE IF budget[p] = NoBudget THEN NoBudget ELSE [budget[p] EXCEPT !.status = "void"]]

\* _apply_estimate_procurement_plan: no requirement of the plan has progressed.
MayPlan == ~meta.plan.decided

\* import_estimate_budget, up to its commit.
BeginImportBudget(i, planned) ==
  /\ importer[i] = NoImporter /\ HasCost(estimate) /\ ~manual
  /\ planned => MayPlan
  /\ importer' = [importer EXCEPT ![i] =
       [at |-> "budget", budget |-> budget, meta |-> meta,
        after |-> Reposted(estimate),
        to |-> [baseline |-> estimate,
                plan |-> IF planned THEN [lines |-> estimate, decided |-> FALSE]
                         ELSE meta.plan]]]
  /\ UNCHANGED <<estimate, revised, budget, manual, meta, cost, answered, rushed, committed>>

\* An entry that this import inserts was inserted by another one meanwhile.
Inserted(h) == \E p \in Positions :
  h.budget[p] = NoBudget /\ h.after[p] # NoBudget /\ budget[p] # NoBudget

CommitImportBudget(i) ==
  LET h == importer[i]
      column(p, f) == IF h.after[p][f] = h.budget[p][f] THEN budget[p][f] ELSE h.after[p][f]
  IN /\ h.at = "budget" /\ ~Inserted(h)
     /\ budget' = [p \in Positions |-> [status |-> column(p, "status"),
                                        amount |-> column(p, "amount")]]
     /\ meta' = IF h.to = h.meta THEN meta ELSE h.to
     /\ rushed' = (rushed \/ meta # h.meta \/ budget # h.budget)
     /\ importer' = [importer EXCEPT ![i] = NoImporter]
     /\ UNCHANGED <<estimate, revised, manual, cost, answered, committed>>

\* The unique key refuses the whole import.
ImportConflict(i) ==
  /\ importer[i].at = "budget" /\ Inserted(importer[i])
  /\ importer' = [importer EXCEPT ![i] = NoImporter]
  /\ UNCHANGED <<estimate, revised, budget, manual, meta, cost, answered, rushed, committed>>

\* create_cost: nothing is posted under this key yet.
BeginCost(i, k, amount) ==
  /\ importer[i] = NoImporter /\ cost[k] = 0
  /\ importer' = [importer EXCEPT ![i] = [at |-> "cost", key |-> k, amount |-> amount]]
  /\ UNCHANGED <<estimate, revised, budget, manual, meta, cost, answered, rushed, committed>>

\* _verify_exact_retry
SameCost(k, amount) == cost[k] = amount

RetryCost(k, amount) ==
  /\ cost[k] # 0 /\ SameCost(k, amount)
  /\ answered' = answered \cup {<<k, amount>>}
  /\ UNCHANGED <<estimate, revised, budget, manual, meta, cost, importer, rushed, committed>>

\* The commit, or the verification against the entry that was faster.
FinishCost(i) ==
  LET h == importer[i]
  IN /\ h.at = "cost"
     /\ cost' = IF cost[h.key] = 0 THEN [cost EXCEPT ![h.key] = h.amount] ELSE cost
     /\ answered' = IF cost[h.key] = 0 \/ SameCost(h.key, h.amount)
                    THEN answered \cup {<<h.key, h.amount>>} ELSE answered
     /\ importer' = [importer EXCEPT ![i] = NoImporter]
     /\ UNCHANGED <<estimate, revised, budget, manual, meta, rushed, committed>>

LedgerNext ==
  \/ \E lines \in Priced : ReviseEstimate(lines)
  \/ CreateEntry \/ DecidePurchase
  \/ \E i \in Importers :
       \/ CommitImportBudget(i) \/ ImportConflict(i) \/ FinishCost(i)
       \/ \E b \in BOOLEAN : BeginImportBudget(i, b)
       \/ \E k \in CostKeys, a \in Amounts : BeginCost(i, k, a)
  \/ \E k \in CostKeys, a \in Amounts : RetryCost(k, a)

LedgerSpec == LedgerInit /\ [][LedgerNext]_ledgerVars

----------------------------------------------------------------------------
\* Types of the estimate, of the entries and of the baseline.
LedgerTypeOK ==
  /\ estimate \in Priced /\ meta.baseline \in Priced /\ meta.plan.lines \in Priced
  /\ budget \in [Positions -> [status: {"none", "posted", "void"}, amount: Amounts \cup {0}]]
  /\ cost \in [CostKeys -> Amounts \cup {0}]
  /\ \A p \in Positions : budget[p].status = "posted" => budget[p].amount # 0

\* The budget entries that count are the lines of the baseline kept with the
\* project, after any number of imports, unless imports overlapped.
BudgetIsBaseline == ~rushed => Posted = meta.baseline

\* A procurement plan with a decision in it is not made anew, unless the
\* decision was taken while an import was under way.
DecidedPlanStays == ~rushed /\ committed # NoPlan => meta.plan = committed

\* Every cost answered as posted is in the ledger with that content, once for
\* its key, however often and by how many it was sent.
CostsAreExact == \A a \in answered : cost[a[1]] = a[2]

\* The ledger of a project, whatever imports are repeated or race: its baseline
\* is the estimate it was made from, a decided plan stays, costs are exact.
LedgerHolds == LedgerTypeOK /\ BudgetIsBaseline /\ DecidedPlanStays /\ CostsAreExact

==============================================================================
