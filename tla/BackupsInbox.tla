----------------------------- MODULE BackupsInbox -----------------------------
(***************************************************************************)
(* The photo inbox (services/backups.py): an intake is claimed by a run of *)
(* the daily controller, screened and classified, and put in a queue that  *)
(* management may change.  The scheduled run and management's runs may     *)
(* overlap, a run may die, and retry reads its intake without a lock.      *)
(***************************************************************************)
EXTENDS Naturals, Sequences, SequencesExt, FiniteSets

CONSTANTS
  Controllers,    \* runs of the daily controller
  Managers,       \* management's requests
  MaxAttempts,    \* bound on the claims of the intake
  MaxRoutings     \* bound on the changes of its queue

ASSUME BackupsAssumption == MaxAttempts \in Nat /\ MaxRoutings \in Nat

VARIABLES
  photo,       \* what local OCR makes of the image
  intake,      \* the row of backups_intakes
  run,         \* a controller's run: what it read of the intake, and how far it is
  retry,       \* a manager's retry between its read and its commit
  shown,       \* the queue that a manager's screen shows
  routings,    \* the audit trail's queue changes since the analysis
  external,    \* history: what was sent to the external classifier
  slipped      \* history: a retry was committed over an intake that had moved

inboxVars == <<photo, intake, run, retry, shown, routings, external, slipped>>

Photos == {"clear", "unclear", "sensitive", "empty"}
Queues == {"finance_intake", "receipts", "invoices"}
IntakeStatuses == {"pending", "processing", "routed", "needs_review", "failed"}
NoRun == [at |-> "idle"]
NoRetry == [at |-> "idle"]
Intake == [status: IntakeStatuses, queue: Queues \cup {"none"}, quarantine: BOOLEAN,
           attempts: 0..MaxAttempts]

InboxInit ==
  /\ photo \in Photos
  /\ intake = [status |-> "pending", queue |-> "none", quarantine |-> FALSE, attempts |-> 0]
  /\ run = [c \in Controllers |-> NoRun]
  /\ retry = [m \in Managers |-> NoRetry]
  /\ shown = [m \in Managers |-> "none"]
  /\ routings = <<>>
  /\ external = {}
  /\ slipped = FALSE

----------------------------------------------------------------------------
\* The controller

\* Mutant of Claimable: the claim does not ask for the status again.
ClaimableListed == intake.status \in {"pending", "processing"}

\* UPDATE ... WHERE status = 'pending'
Claimable == intake.status = "pending"

\* The claim is committed; _process_claimed_intake reads the row afterwards.
Claim(c) ==
  /\ run[c] = NoRun /\ Claimable /\ intake.attempts < MaxAttempts
  /\ intake' = [intake EXCEPT !.status = "processing", !.attempts = @ + 1]
  /\ run' = [run EXCEPT ![c] = [at |-> "claimed"]]
  /\ UNCHANGED <<photo, retry, shown, routings, external, slipped>>

\* What follows local OCR: sensitive text goes no further, clear text is
\* classified here, other text may be sent to the external classifier.
Screened(text) == IF text \in {"clear", "sensitive", "empty"} THEN {"done"} ELSE {"done", "external"}

\* The image is read and screened, if the row is still in processing.
ReadPhoto(c) ==
  /\ run[c].at = "claimed" /\ intake.status = "processing"
  /\ \E next \in Screened(photo) :
       /\ run' = [run EXCEPT ![c] = [at |-> next, read |-> intake]]
       /\ external' = IF next = "external" THEN external \cup {photo} ELSE external
  /\ UNCHANGED <<photo, intake, retry, shown, routings, slipped>>

\* The row is not in processing any more: the run leaves it.
GiveUp(c) ==
  /\ run[c].at = "claimed" /\ intake.status # "processing"
  /\ run' = [run EXCEPT ![c] = NoRun]
  /\ UNCHANGED <<photo, intake, retry, shown, routings, external, slipped>>

Finished(c, status, quarantine) ==
  /\ run[c].at \in {"done", "external"}
  /\ intake' = [intake EXCEPT
       !.status = status, !.queue = "finance_intake",
       !.quarantine = IF quarantine = run[c].read.quarantine THEN @ ELSE quarantine]
  /\ routings' = <<>>
  /\ run' = [run EXCEPT ![c] = NoRun]
  /\ UNCHANGED <<photo, retry, shown, external, slipped>>

\* Routed for review, when it was classified with enough confidence.
Route(c) ==
  /\ photo = "clear" \/ (photo = "unclear" /\ run[c].at = "external")
  /\ Finished(c, "routed", run[c].read.quarantine)

\* _complete_triage
Triage(c) ==
  /\ photo # "clear"
  /\ Finished(c, "needs_review", photo = "sensitive")

\* Anything raised after the claim; the row is read again and set to failed,
\* whatever it has become.
ProcessingFails(c) ==
  /\ run[c] # NoRun
  /\ intake' = [intake EXCEPT !.status = "failed"]
  /\ run' = [run EXCEPT ![c] = NoRun]
  /\ UNCHANGED <<photo, retry, shown, routings, external, slipped>>

\* The process of the run ends; nobody takes the intake up again.
RunDies(c) ==
  /\ run[c] # NoRun
  /\ run' = [run EXCEPT ![c] = NoRun]
  /\ UNCHANGED <<photo, intake, retry, shown, routings, external, slipped>>

----------------------------------------------------------------------------
\* Management

MayRetry ==
  /\ intake.status \in {"failed", "needs_review"}
  /\ intake.queue \in {"none", "finance_intake"}

BeginRetry(m) ==
  /\ retry[m] = NoRetry /\ MayRetry
  /\ retry' = [retry EXCEPT ![m] = [at |-> "retry", read |-> intake]]
  /\ UNCHANGED <<photo, intake, run, shown, routings, external, slipped>>

\* retry_intake writes back what it changed of what it read.
CommitRetry(m) ==
  /\ retry[m] # NoRetry
  /\ intake' = [intake EXCEPT !.status = "pending",
                              !.queue = IF retry[m].read.queue = "none" THEN @ ELSE "none",
                              !.quarantine = IF retry[m].read.quarantine THEN FALSE ELSE @]
  /\ routings' = <<>>
  /\ slipped' = (slipped \/ intake # retry[m].read)
  /\ retry' = [retry EXCEPT ![m] = NoRetry]
  /\ UNCHANGED <<photo, run, shown, external>>

\* The review queue is shown.
ShowQueue(m) ==
  /\ shown[m] # intake.queue
  /\ shown' = [shown EXCEPT ![m] = intake.queue]
  /\ UNCHANGED <<photo, intake, run, retry, routings, external, slipped>>

\* UPDATE ... WHERE review_destination = the queue that was shown
StillThere(m) == intake.queue = shown[m]

\* update_review_destination of an intake that was analysed
ChangeQueue(m, to) ==
  /\ intake.status \in {"routed", "needs_review", "failed"} /\ shown[m] \in Queues /\ intake.queue \in Queues
  /\ intake.queue # to /\ StillThere(m) /\ Len(routings) < MaxRoutings
  /\ intake' = [intake EXCEPT !.queue = to]
  /\ routings' = Append(routings, [from |-> shown[m], to |-> to])
  /\ UNCHANGED <<photo, run, retry, shown, external, slipped>>

InboxNext ==
  \/ \E c \in Controllers :
       Claim(c) \/ ReadPhoto(c) \/ GiveUp(c) \/ Route(c) \/ Triage(c) \/ ProcessingFails(c) \/ RunDies(c)
  \/ \E m \in Managers :
       BeginRetry(m) \/ CommitRetry(m) \/ ShowQueue(m) \/ \E q \in Queues : ChangeQueue(m, q)

InboxSpec == InboxInit /\ [][InboxNext]_inboxVars

----------------------------------------------------------------------------
\* Types of the intake and of its trail.
InboxTypeOK ==
  /\ photo \in Photos /\ intake \in Intake
  /\ \A i \in DOMAIN routings : routings[i].to \in Queues /\ routings[i].from \in Queues
  /\ intake.status \in {"routed", "needs_review"} /\ ~slipped => intake.queue # "none"

\* No two runs of the controller work on one intake, unless a retry was
\* committed over an intake that another request had moved.
OneControllerAtWork ==
  ~slipped => Cardinality({c \in Controllers : run[c] # NoRun}) <= 1

\* Sensitive text is never sent out, and an intake found to be sensitive stays
\* in quarantine until it is retried (docs/backups-inbox.md:10).
SensitiveStaysLocal ==
  /\ "sensitive" \notin external
  /\ photo = "sensitive" /\ intake.status = "needs_review" /\ ~slipped => intake.quarantine

\* Each change of queue that was answered started from the queue that its
\* reviewer saw, and the last one stands (docs/backups-inbox.md:13).
RoutingsChain ==
  /\ \A i \in 1..(Len(routings) - 1) : routings[i + 1].from = routings[i].to
  /\ routings # <<>> /\ ~slipped => intake.queue = Last(routings).to

\* The inbox, whatever runs and managers race: one controller works on an
\* intake, sensitive text stays in the house, and no change of queue is lost.
InboxIsOrderly == InboxTypeOK /\ OneControllerAtWork /\ SensitiveStaysLocal /\ RoutingsChain

==============================================================================
