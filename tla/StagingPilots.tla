---------------------------- MODULE StagingPilots ----------------------------
(***************************************************************************)
(* The pilots that take the Bennett job through staging over its API       *)
(* (app/tools/bennett_..._staging_pilot.py, bennett_quote_staging_award.py *)
(* and their workflows): the draft quote, its award, the budget, the       *)
(* procurement plan, the blocked safety launch and the production gate.  A *)
(* pilot reads and verifies one thing after the other, sends its request   *)
(* twice, verifies the outcome and reports.  A run may die anywhere and    *)
(* its request be served after it; a pilot is run again until it passes;   *)
(* runs of different pilots overlap, and the office works on the same job. *)
(***************************************************************************)
EXTENDS Naturals, Sequences, FiniteSets

CONSTANTS MaxMade, MaxActive, MaxWrites

ASSUME PilotsAssumption == {MaxMade, MaxActive, MaxWrites} \subseteq Nat

VARIABLES
  os,           \* the tables of the server, as far as they concern the job
  runOf,        \* per pilot, the run under way
  unanswered,   \* a request of a dead run that the server has yet to serve
  writes,
  untouched,    \* history: the pilots since whose beginning only they changed something;
                \* of those that are not running, the last run has passed
  stuck,        \* history: the pilots that have refused though it was their turn
  raced,        \* history: an import was committed over what changed since its read
  decided       \* history: what the office has decided on, of the plan and the launch

pilotVars == <<os, runOf, unanswered, writes, untouched, stuck, raced, decided>>

Stages == <<"draft", "award", "budget", "plan", "launch", "gate">>
Pilots == {Stages[i] : i \in DOMAIN Stages}
BudgetPilots == {"budget", "plan"}

NoQuote == [status |-> "none", issue |-> "none", source |-> "none", right |-> FALSE,
            revision |-> 0, by |-> "nobody"]
NoSight == [fits |-> TRUE, stage |-> "none", job |-> 0, plan |-> "none", launch |-> "none", revision |-> 0,
            first |-> 0, counts |-> <<>>]
NoRead == <<>>
NotRunning == [at |-> 0, saw |-> NoSight, read |-> NoRead]
NoneUnanswered == [pilot |-> "none"]

PilotsInit ==
  /\ os = [estimate |-> "approved", quote |-> NoQuote, stage |-> "opportunity", job |-> 0, next |-> 1,
           baseline |-> "none", plan |-> "none", approval |-> FALSE, launch |-> "none", shell |-> 0,
           entries |-> 0, exact |-> TRUE, manual |-> "none", made |-> 0,
           field |-> [control |-> 0, record |-> 0, sheet |-> 0, person |-> 0]]
  /\ runOf = [p \in Pilots |-> NotRunning] /\ unanswered = NoneUnanswered
  /\ writes = 0
  /\ untouched = {} /\ stuck = {} /\ raced = FALSE /\ decided = {}

----------------------------------------------------------------------------
\* The server's handlers, from the tables to the tables, and what they reject

FromEstimate(s) ==
  IF s.quote # NoQuote THEN s
  ELSE [s EXCEPT !.quote = [NoQuote EXCEPT !.status = "draft", !.issue = "draft", !.source = s.estimate,
                                           !.right = s.estimate = "approved", !.revision = 1]]

Award(s) ==
  [s EXCEPT !.stage = "awarded", !.job = IF @ # 0 THEN @ ELSE s.next, !.next = IF s.job # 0 THEN @ ELSE @ + 1]

\* Mutant of AwardControls: the controls of an award are set again.
AwardControlsAnew(s) == [s EXCEPT !.baseline = "open", !.plan = "shell", !.approval = FALSE]

\* _initialize_award_controls: once for a quote
AwardControls(s) == IF s.baseline # "none" THEN s ELSE [s EXCEPT !.baseline = "open", !.plan = "shell"]

Accept(s, actor) ==
  IF s.quote.status = "accepted" THEN AwardControls(s)
  ELSE AwardControls([Award(s) EXCEPT !.quote.status = "accepted", !.quote.by = actor, !.quote.revision = @ + 1])

\* The project's JSON column, and all that an import reads before it writes
Metadata(s) == <<s.baseline, s.plan, s.approval, s.launch, s.shell, s.exact>>
ImportSight(s) ==
  [estimate |-> s.estimate, stage |-> s.stage, baseline |-> s.baseline, plan |-> s.plan, approval |-> s.approval,
   launch |-> s.launch, shell |-> s.shell, exact |-> s.exact, entries |-> s.entries, manual |-> s.manual]

\* What it makes of them; the requirements it is asked for replace those of the plan.
Imported(read, planned) ==
  [read EXCEPT !.baseline = "allocated", !.exact = read.estimate = "approved", !.plan = IF planned THEN "four" ELSE @]

\* The entries are made once; the JSON column is written as a whole, if the
\* import has changed what it read of it.
Import(s, read, planned) ==
  LET new == Imported(read, planned)
      posted == IF read.entries # 0 THEN s ELSE [s EXCEPT !.entries = s.made + 1, !.made = @ + 1]
  IN IF Metadata(new) = Metadata(read) THEN posted
     ELSE [posted EXCEPT !.baseline = new.baseline, !.plan = new.plan, !.approval = new.approval,
                         !.launch = new.launch, !.shell = new.shell, !.exact = new.exact]

\* project_safety_launch.initialize: a shell that is there is the answer.
InitializeLaunch(s) ==
  IF s.launch # "none" THEN s ELSE [s EXCEPT !.launch = "blocked", !.shell = s.made + 1, !.made = @ + 1]

Request(p) == [pilot |-> p, revision |-> runOf[p].saw.revision, read |-> runOf[p].read]

\* The estimate is not the one that its quote was made from.
QuoteRefused == os.quote # NoQuote /\ os.quote.source # os.estimate

AcceptRefused(revision) ==
  os.quote.status # "accepted" /\ (os.quote.revision # revision \/ os.quote.status = "declined")

\* A budget that was made by hand, or entries that another import has made since
\* this one looked (uq_financial_entries_project_source_key).
ImportRefused(read) == read.manual = "budget" \/ (read.entries = 0 /\ os.entries # 0)

PlanRefused(read) == read.stage # "awarded" \/ read.approval

HandlerRejects(r) ==
  CASE r.pilot = "draft"  -> QuoteRefused
    [] r.pilot = "award"  -> AcceptRefused(r.revision)
    [] r.pilot = "budget" -> ImportRefused(r.read)
    [] r.pilot = "plan"   -> ImportRefused(r.read) \/ PlanRefused(r.read)
    [] r.pilot = "launch" -> os.stage # "awarded"

Served(r) ==
  CASE r.pilot = "draft"    -> FromEstimate(os)
    [] r.pilot = "award"    -> Accept(os, "pilot")
    [] r.pilot = "launch"   -> InitializeLaunch(os)
    [] r.pilot \in BudgetPilots -> Import(os, r.read, r.pilot = "plan")

----------------------------------------------------------------------------
\* What the pilots verify

Awarded == os.stage = "awarded" /\ os.job = 1
Accepted == os.quote.status = "accepted" /\ os.quote.issue = "draft" /\ os.quote.right
Budgeted == os.entries # 0 /\ os.exact /\ os.manual = "none"
NoBudget == os.entries = 0 /\ os.manual = "none"
NoneOf(kinds) == \A k \in kinds : os.field[k] = 0

\* _safe_draft_plan, _verify_procurement_plan, _verify_safety_launch
PlanIsSafe == os.plan # "none" /\ ~os.approval
PlanVerified == os.plan = "four" /\ ~os.approval
LaunchVerified == os.launch = "blocked"

\* _verify_draft_quote
DraftQuote == os.quote.status = "draft" /\ os.quote.issue = "draft" /\ os.quote.right /\ os.job = 0

\* _verify_accepted_quote: accepted by this pilot, with its reference
PilotQuote == Accepted /\ os.quote.by = "pilot" /\ os.job # 0

\* _classify_pre_state, of the project that was read before
PreState(saw) ==
  /\ os.quote.issue = "draft" /\ os.quote.right
  /\ \/ saw.stage = "opportunity" /\ saw.job = 0 /\ os.quote.status = "draft" /\ os.job = 0
     \/ saw.stage = "awarded" /\ saw.job # 0 /\ os.quote.status = "accepted" /\ os.job = saw.job

\* _verify_awarded_project
AwardedProject(saw) ==
  os.stage = "awarded" /\ os.job = saw.job /\ os.quote.right /\ os.baseline = "open" /\ PlanIsSafe

\* _verify_project_controls
AllocatedProject == os.baseline = "allocated" /\ os.exact /\ PlanIsSafe

\* The dashboards: the counts that a pilot expects there; a plan with a decision
\* in it is a draft.
LaunchControls == NoneOf({"control"}) /\ Budgeted /\ os.baseline = "allocated" /\ os.plan # "none"
SafeDashboard(saw) == LaunchControls /\ (os.plan = "shell" \/ (os.plan = "four" /\ saw.plan = "four"))
LaunchDashboard == LaunchControls /\ os.plan = "four" /\ LaunchVerified /\ NoneOf({"record"})
GateDashboard == LaunchDashboard /\ NoneOf({"sheet"})

\* What each pilot does in its run, one thing after the other
DraftProgram == <<"project", "estimate", "post", "again", "register">>
AwardProgram ==
  <<"project", "estimate", "quote", "post", "again", "outcome", "workspace", "checklist", "dashboard">>
BudgetProgram == <<"project", "quote", "estimate", "finance", "post", "again", "outcome", "dashboard", "codes">>
PlanProgram ==
  <<"project", "quote", "estimate", "finance", "before", "post", "outcome", "again", "outcome", "dashboard">>
LaunchProgram ==
  <<"project", "quote", "estimate", "finance", "count", "post", "again", "outcome", "workspace", "dashboard",
    "recount">>
GateProgram ==
  <<"count", "project", "quote", "estimate", "finance", "dashboard", "workspace", "sheets", "recount">>

Programs == [draft |-> DraftProgram, award |-> AwardProgram, budget |-> BudgetProgram,
             plan |-> PlanProgram, launch |-> LaunchProgram, gate |-> GateProgram]

Step(p) == Programs[p][runOf[p].at]
Posting(p) == runOf[p].at # 0 /\ Step(p) \in {"post", "again"}

ProjectVerified(p) ==
  CASE p = "draft"  -> os.stage = "opportunity" /\ os.job = 0
    [] p = "award"  -> TRUE
    [] p = "budget" -> Awarded
    [] p = "plan"   -> Awarded /\ PlanIsSafe
    [] p = "launch" -> Awarded /\ PlanVerified
    [] p = "gate"   -> Awarded /\ PlanVerified /\ LaunchVerified

OutcomeVerified(p) ==
  CASE p = "award"  -> AwardedProject(runOf[p].saw)
    [] p = "budget" -> AllocatedProject
    [] p = "plan"   -> PlanVerified
    [] p = "launch" -> LaunchVerified

DashboardVerified(p) ==
  CASE p = "award"  -> os.job = runOf[p].saw.job /\ os.baseline = "open" /\ os.plan # "none"
    [] p = "budget" -> Budgeted /\ os.baseline = "allocated" /\ os.plan # "none"
    [] p = "plan"   -> LaunchControls /\ os.plan = "four"
    [] p = "launch" -> LaunchDashboard
    [] p = "gate"   -> GateDashboard

\* The launch that was read with the project is looked at after the counts.
CountVerified(p) ==
  /\ NoneOf({"record", "control"}) /\ (p = "gate" => NoneOf({"sheet"}))
  /\ p = "launch" => runOf[p].saw.launch \in {"none", "blocked"}

\* The workspace of the award has its job's number, the one of the launch its
\* folder; nobody posts production here, so that the gate finds none of it.
WorkspaceVerified(p) ==
  CASE p = "award"  -> os.job = runOf[p].saw.job
    [] p = "launch" -> os.shell # 0
    [] p = "gate"   -> TRUE

\* What they count, in the database itself: the launch people, the gate sheets
LaunchCounts == {"control", "record", "person"}
GateCounts == {"control", "record", "sheet"}
Counts(p) == [k \in IF p = "gate" THEN GateCounts ELSE LaunchCounts |-> os.field[k]]

Verified(p) ==
  CASE Step(p) = "project"   -> ProjectVerified(p)
    [] Step(p) = "quote"     -> IF p = "award" THEN PreState(runOf[p].saw) ELSE Accepted
    [] Step(p) = "estimate"  -> p \in {"draft", "award"} \/ os.estimate = "approved"
    [] Step(p) = "finance"   -> Budgeted \/ (p = "budget" /\ NoBudget)
    [] Step(p) = "before"    -> SafeDashboard(runOf[p].saw)
    [] Step(p) = "outcome"   -> OutcomeVerified(p)
    [] Step(p) = "register"  -> os.quote # NoQuote
    [] Step(p) = "workspace" -> WorkspaceVerified(p)
    [] Step(p) = "checklist" -> NoneOf({"control"})
    [] Step(p) = "dashboard" -> DashboardVerified(p)
    [] Step(p) = "codes"     -> os.baseline = "allocated"
    [] Step(p) = "count"     -> CountVerified(p)
    [] Step(p) = "sheets"    -> NoneOf({"sheet"})
    [] Step(p) = "recount"   -> Counts(p) = runOf[p].saw.counts

\* The later pilots verify the project, the quote and the estimate together, when
\* they have read all three of them.
ReadsOn(p) == p \notin {"draft", "award"} /\ Step(p) \in {"project", "quote"}

\* What the answer to a request has to be, and what a repeated one must not change
AnswerVerified(p) ==
  CASE p = "draft"     -> DraftQuote
    [] p = "award"     -> PilotQuote
    [] p \in BudgetPilots -> Budgeted
    [] p = "launch"    -> LaunchVerified

Identity(p) ==
  CASE p = "draft"     -> 1
    [] p = "award"     -> os.quote.revision
    [] p \in BudgetPilots -> os.entries
    [] p = "launch"    -> os.shell

----------------------------------------------------------------------------
\* The runs of the pilots

Active == {p \in Pilots : runOf[p].at # 0}

\* A write takes its place in the history: whoever has been looking at the job
\* since before, and has not made it, was overtaken by it.
Touched(by) == IF os' = os THEN untouched ELSE untouched \cap by

\* The stages before are done, none after has begun, and the office has not
\* written anything.
ItsTurn(p) ==
  /\ writes = 0
  /\ CASE p = "draft"  -> os.quote.status # "accepted"
       [] p = "award"  -> os.quote # NoQuote /\ os.entries = 0
       [] p = "budget" -> os.baseline # "none"
       [] p = "plan"   -> os.entries # 0
       [] p = "launch" -> os.plan = "four"
       [] p = "gate"   -> os.launch # "none" /\ os.plan = "four"

\* A workflow runs its pilot once at a time; those of others go on beside it.
Begin(p) ==
  /\ p \notin Active /\ Cardinality(Active) < MaxActive /\ os.made <= MaxMade
  /\ runOf' = [runOf EXCEPT ![p] = [NotRunning EXCEPT !.at = 1]]
  /\ untouched' = untouched \cup {p}
  /\ UNCHANGED <<os, unanswered, writes, stuck, raced, decided>>

Block(p) ==
  /\ runOf' = [runOf EXCEPT ![p] = NotRunning] /\ untouched' = untouched \ {p}
  /\ stuck' = IF ItsTurn(p) /\ p \in untouched THEN stuck \cup {p} ELSE stuck
  /\ UNCHANGED <<os, unanswered, writes, raced, decided>>

\* The next step, or the report
Proceed(p, saw) ==
  runOf' = [runOf EXCEPT ![p] = IF @.at = Len(Programs[p]) THEN NotRunning
                            ELSE [at |-> @.at + 1, saw |-> saw, read |-> NoRead]]

Sight(p) ==
  LET saw == runOf[p].saw IN
    CASE Step(p) = "project" /\ p = "award" -> [saw EXCEPT !.stage = os.stage, !.job = os.job]
      [] Step(p) = "project" /\ ReadsOn(p) -> [saw EXCEPT !.fits = Verified(p), !.plan = os.plan, !.launch = os.launch]
      [] Step(p) = "quote" /\ ReadsOn(p) -> [saw EXCEPT !.fits = @ /\ Verified(p)]
      [] Step(p) = "quote" /\ p = "award" -> [saw EXCEPT !.revision = os.quote.revision]
      [] Step(p) = "count" -> [saw EXCEPT !.counts = Counts(p)]
      [] OTHER -> saw

Get(p) ==
  /\ p \in Active /\ ~Posting(p)
  /\ IF ReadsOn(p) \/ (Verified(p) /\ runOf[p].saw.fits)
     THEN /\ Proceed(p, Sight(p))
          /\ UNCHANGED <<os, unanswered, writes, untouched, stuck, raced, decided>>
     ELSE Block(p)

\* import_estimate_budget reads without a lock what it writes back.
ImportReads(p) ==
  /\ Posting(p) /\ p \in BudgetPilots /\ runOf[p].read = NoRead
  /\ runOf' = [runOf EXCEPT ![p].read = ImportSight(os)]
  /\ UNCHANGED <<os, unanswered, writes, untouched, stuck, raced, decided>>

\* It writes the JSON column over one that has changed since.
Raced(r) ==
  /\ r.pilot \in BudgetPilots
  /\ Metadata(r.read) \notin {Metadata(os), Metadata(Imported(r.read, r.pilot = "plan"))}

\* The award goes on with the job number of its answer.
AnswerSight(p) ==
  [runOf[p].saw EXCEPT !.first = IF Step(p) = "post" THEN Identity(p)' ELSE 0,
                       !.job = IF p = "award" THEN os'.job ELSE 0]

Post(p) ==
  /\ Posting(p) /\ (p \in BudgetPilots => runOf[p].read # NoRead)
  /\ IF HandlerRejects(Request(p)) THEN Block(p)
     ELSE /\ os' = Served(Request(p))
          /\ raced' = (raced \/ Raced(Request(p)))
          /\ IF AnswerVerified(p)' /\ (Step(p) = "again" => Identity(p)' = runOf[p].saw.first)
             THEN /\ Proceed(p, AnswerSight(p)) /\ untouched' = Touched({p})
                  /\ UNCHANGED stuck
             ELSE /\ runOf' = [runOf EXCEPT ![p] = NotRunning] /\ untouched' = Touched({}) \ {p}
                  /\ stuck' = IF ItsTurn(p) /\ p \in untouched THEN stuck \cup {p} ELSE stuck
          /\ UNCHANGED <<unanswered, writes, decided>>

\* A job of the workflow is cancelled or runs out of time, or the pilot's own
\* request does; what it has sent last may be served yet.
PilotDies(p) ==
  /\ p \in Active
  /\ runOf' = [runOf EXCEPT ![p] = NotRunning] /\ untouched' = untouched \ {p}
  /\ \/ UNCHANGED unanswered
     \/ unanswered = NoneUnanswered /\ Posting(p) /\ unanswered' = Request(p)
  /\ UNCHANGED <<os, writes, stuck, raced, decided>>

ServeUnanswered ==
  /\ unanswered # NoneUnanswered
  /\ IF unanswered.pilot \in BudgetPilots /\ unanswered.read = NoRead
     THEN unanswered' = [unanswered EXCEPT !.read = ImportSight(os)] /\ UNCHANGED <<os, untouched, raced>>
     ELSE /\ unanswered' = NoneUnanswered
          /\ os' = (IF HandlerRejects(unanswered) THEN os ELSE Served(unanswered))
          /\ raced' = (raced \/ (~HandlerRejects(unanswered) /\ Raced(unanswered)))
          /\ untouched' = Touched({})
  /\ UNCHANGED <<runOf, writes, stuck, decided>>

----------------------------------------------------------------------------
\* The office works on the same job, through the same API

Office(tables) ==
  /\ writes < MaxWrites /\ writes' = writes + 1
  /\ os' = tables /\ untouched' = Touched({})
  /\ UNCHANGED <<runOf, unanswered, stuck, raced>>

\* update_customer_quote, decline, and the first step of the issue
ChangeQuote ==
  /\ os.quote.status \in {"draft", "declined"}
  /\ \/ \E right \in BOOLEAN :
          Office([os EXCEPT !.quote.right = right, !.quote.status = "draft", !.quote.issue = "draft",
                            !.quote.revision = @ + 1])
     \/ os.quote.status = "draft" /\ Office([os EXCEPT !.quote.status = "declined", !.quote.revision = @ + 1])
     \/ /\ os.quote.status = "draft" /\ os.quote.issue = "draft"
        /\ Office([os EXCEPT !.quote.issue = "review", !.quote.revision = @ + 1])
  /\ UNCHANGED decided

ChangeEstimate ==
  /\ os.estimate = "approved" /\ Office([os EXCEPT !.estimate = "changed"]) /\ UNCHANGED decided

\* The office accepts the quote, awards the project without one, or another.
AwardByHand ==
  /\ \/ os.quote.status = "draft" /\ Office(Accept(os, "office"))
     \/ os.stage = "opportunity" /\ Office(Award(os))
     \/ os.next = 1 /\ Office([os EXCEPT !.next = 2])
  /\ UNCHANGED decided

WriteLedger ==
  /\ os.manual = "none" /\ \E kind \in {"budget", "cost"} : Office([os EXCEPT !.manual = kind])
  /\ UNCHANGED decided

\* A requirement gets an approval, or the launch an access to the portal.
DecideOn ==
  \/ PlanIsSafe /\ Office([os EXCEPT !.approval = TRUE]) /\ decided' = decided \cup {"plan"}
  \/ os.launch = "blocked" /\ Office([os EXCEPT !.launch = "reviewed"]) /\ decided' = decided \cup {"launch"}

\* A start control, a safety record, a daily sheet, a new employee; a sheet may
\* be voided again.
FieldWork ==
  /\ \/ \E k \in DOMAIN os.field : os.field[k] = 0 /\ Office([os EXCEPT !.field[k] = 1])
     \/ os.field.sheet = 1 /\ Office([os EXCEPT !.field.sheet = 0])
  /\ UNCHANGED decided

PilotsNext ==
  \/ \E p \in Pilots : Begin(p) \/ Get(p) \/ ImportReads(p) \/ Post(p) \/ PilotDies(p)
  \/ ServeUnanswered
  \/ ChangeQuote \/ ChangeEstimate \/ AwardByHand \/ WriteLedger \/ DecideOn \/ FieldWork

PilotsSpec == PilotsInit /\ [][PilotsNext]_pilotVars

----------------------------------------------------------------------------
\* Runs are where their programs are, and what they have read is of the tables.
PilotsTypeOK ==
  /\ \A p \in Pilots : runOf[p].at \in 0..Len(Programs[p]) /\ (runOf[p].read # NoRead => Posting(p))
  /\ os.shell <= os.made /\ os.entries <= os.made
  /\ (os.launch = "none") = (os.shell = 0)
  /\ untouched \cup stuck \subseteq Pilots /\ decided \subseteq {"plan", "launch"}

\* What the report of a pilot says of the job
Reported(p) ==
  CASE p = "draft"  -> DraftQuote /\ os.stage = "opportunity"
    [] p = "award"  -> PilotQuote /\ AwardedProject([job |-> os.job]) /\ NoneOf({"control"})
    [] p = "budget" -> Awarded /\ Accepted /\ Budgeted /\ AllocatedProject
    [] p = "plan"   -> Awarded /\ Accepted /\ LaunchControls /\ PlanVerified
    [] p = "launch" -> Awarded /\ Accepted /\ LaunchDashboard /\ PlanVerified
    [] p = "gate"   -> Awarded /\ Accepted /\ GateDashboard /\ PlanVerified

\* The pilots' promise, over dead runs, late requests, overlaps and the office:
\* what one of them has accepted is the quote that was approved; a report is true
\* of the whole job, until something but its pilot changes it; a pilot whose turn
\* it is passes when it is let alone, whatever became of the runs before; and no
\* decision of the office is undone, but by an import that it fell into.
PilotsHold ==
  /\ PilotsTypeOK
  /\ os.quote.status = "accepted" /\ os.quote.by = "pilot" => os.quote.right /\ os.quote.issue = "draft"
  /\ \A p \in untouched \ Active : Reported(p)
  /\ stuck = {}
  /\ ~raced => /\ "plan" \in decided => os.approval
               /\ "launch" \in decided => os.launch = "reviewed"
=============================================================================
