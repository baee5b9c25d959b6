------------------------------ MODULE HelpInbox ------------------------------
(***************************************************************************)
(* The inbox of improvements that Help collects (help_feedback.py): reports*)
(* of the same kind, page and guides are counted in one group, which the   *)
(* first of them makes; managers set a group's status.  A transaction that *)
(* inserts or updates a group holds its key or its row until it ends.      *)
(***************************************************************************)
EXTENDS Naturals, FiniteSets

CONSTANTS
  Groups,       \* the keys: kind, page and guides
  Reporters,    \* transactions of reports
  Reviewing,    \* requests of managers
  NoHolder,
  MaxReports, MaxReviews

ASSUME HelpAssumption ==
  NoHolder \notin Reporters /\ MaxReports \in Nat /\ MaxReviews \in Nat

VARIABLES
  improvement,   \* the committed rows of help_improvements
  evidence,      \* help_feedback: the reports of each group, numbered in the order of their times
  holder,        \* who holds the key or the row of a group
  reporting,     \* the transactions of the reports
  opened,        \* what a manager has read and is about to write
  reports, reviews,   \* count what the bounds bound
  receipts,      \* history: the reports that were answered with a receipt
  overtook,      \* history: groups that an older report updated after a newer one
  decided,       \* history: the last review of each group
  rivals         \* history: groups that two managers reviewed at a time

helpVars ==
  <<improvement, evidence, holder, reporting, opened, reports, reviews, receipts, overtook, decided, rivals>>

NoGroup == [exists |-> FALSE, count |-> 0, seen |-> 0, status |-> "new", note |-> "none", by |-> "none"]
Idle == [at |-> "idle"]
Verdict(row) == [status |-> row.status, note |-> row.note, by |-> row.by]

HelpInit ==
  /\ improvement = [g \in Groups |-> NoGroup]
  /\ evidence = [g \in Groups |-> {}]
  /\ holder = [g \in Groups |-> NoHolder]
  /\ reporting = [r \in Reporters |-> Idle]
  /\ opened = [m \in Reviewing |-> Idle]
  /\ reports = 0 /\ reviews = 0
  /\ decided = [g \in Groups |-> Verdict(NoGroup)]
  /\ receipts = {} /\ overtook = {} /\ rivals = {}

Reporting(r, place) == reporting[r].at = place
Reports(r, state) == reporting' = [reporting EXCEPT ![r] = state]
Holds(r, g) == holder' = [holder EXCEPT ![g] = r]

-----------------------------------------------------------------------------
\* record_help_feedback

ReadGroup(r, g) ==
  /\ reporting[r] = Idle /\ reports < MaxReports
  /\ Reports(r, [at |-> IF improvement[g].exists THEN "time" ELSE "insert", group |-> g])
  /\ UNCHANGED <<improvement, evidence, holder, opened, reports, reviews, receipts, overtook, decided, rivals>>

\* The key is unique: an insert waits for another one's transaction and fails if
\* that has committed; the transaction is rolled back and the group read again.
InsertGroup(r) ==
  LET g == reporting[r].group IN
  /\ Reporting(r, "insert") /\ holder[g] = NoHolder
  /\ IF improvement[g].exists THEN UNCHANGED holder ELSE Holds(r, g)
  /\ Reports(r, [at |-> "time", group |-> g])
  /\ UNCHANGED <<improvement, evidence, opened, reports, reviews, receipts, overtook, decided, rivals>>

\* The time of the report is taken before its row is waited for.
TakeTime(r) ==
  /\ Reporting(r, "time") /\ reports < MaxReports
  /\ reports' = reports + 1
  /\ Reports(r, [at |-> "update", group |-> reporting[r].group, time |-> reports + 1])
  /\ UNCHANGED <<improvement, evidence, holder, opened, reviews, receipts, overtook, decided, rivals>>

\* SET evidence_count = evidence_count + 1 adds to what the row holds by then.
Evidenced(row, reported) == [row EXCEPT !.exists = TRUE, !.count = @ + 1, !.seen = reported.time]

UpdateGroup(r) ==
  LET g == reporting[r].group IN
  /\ Reporting(r, "update") /\ holder[g] \in {NoHolder, r}
  /\ Holds(r, g)
  /\ Reports(r, [reporting[r] EXCEPT !.at = "commit"])
  /\ UNCHANGED <<improvement, evidence, opened, reports, reviews, receipts, overtook, decided, rivals>>

CommitReport(r) ==
  LET h == reporting[r] IN
  /\ Reporting(r, "commit")
  /\ improvement' = [improvement EXCEPT ![h.group] = Evidenced(@, h)]
  /\ evidence' = [evidence EXCEPT ![h.group] = @ \cup {h.time}]
  /\ receipts' = receipts \cup {<<h.group, h.time>>}
  /\ overtook' = IF improvement[h.group].seen > h.time THEN overtook \cup {h.group} ELSE overtook
  /\ Holds(NoHolder, h.group)
  /\ Reports(r, Idle)
  /\ UNCHANGED <<opened, reports, reviews, decided, rivals>>

\* The connection or the process is lost: nothing of the transaction stays.
ReportLost(r) ==
  /\ reporting[r] # Idle
  /\ holder' = [g \in Groups |-> IF holder[g] = r THEN NoHolder ELSE holder[g]]
  /\ Reports(r, Idle)
  /\ UNCHANGED <<improvement, evidence, opened, reports, reviews, receipts, overtook, decided, rivals>>

-----------------------------------------------------------------------------
\* update_help_improvement

OpenReview(m, g, status, note) ==
  /\ opened[m] = Idle /\ improvement[g].exists /\ reviews < MaxReviews
  /\ reviews' = reviews + 1
  /\ opened' = [opened EXCEPT ![m] = [at |-> "save", group |-> g, read |-> improvement[g],
                                     new |-> [status |-> status, note |-> note, by |-> m]]]
  /\ UNCHANGED <<improvement, evidence, holder, reporting, reports, receipts, overtook, decided, rivals>>

\* Of the row, the columns that differ from what was read are written.
Reviewed(row, h) ==
  [row EXCEPT !.status = IF h.new.status = h.read.status THEN @ ELSE h.new.status,
              !.note = IF h.new.note = h.read.note THEN @ ELSE h.new.note,
              !.by = IF h.new.by = h.read.by THEN @ ELSE h.new.by]

SaveReview(m) ==
  LET h == opened[m]  row == improvement[h.group] IN
  /\ opened[m] # Idle /\ holder[h.group] = NoHolder
  /\ improvement' = [improvement EXCEPT ![h.group] = Reviewed(@, h)]
  /\ decided' = [decided EXCEPT ![h.group] = h.new]
  /\ rivals' = IF Verdict(row) # Verdict(h.read) THEN rivals \cup {h.group} ELSE rivals
  /\ opened' = [opened EXCEPT ![m] = Idle]
  /\ UNCHANGED <<evidence, holder, reporting, reports, reviews, receipts, overtook>>

HelpNext ==
  \/ \E r \in Reporters :
       \/ \E g \in Groups : ReadGroup(r, g)
       \/ InsertGroup(r) \/ TakeTime(r) \/ UpdateGroup(r) \/ CommitReport(r) \/ ReportLost(r)
  \/ \E m \in Reviewing :
       \/ \E g \in Groups, s \in {"new", "closed"}, n \in {"fixed", "later"} : OpenReview(m, g, s, n)
       \/ SaveReview(m)

HelpSpec == HelpInit /\ [][HelpNext]_helpVars

-----------------------------------------------------------------------------
\* The values of the tables.
HelpTypeOK ==
  /\ \A g \in Groups : holder[g] \in Reporters \cup {NoHolder}
  /\ reports \in 0..MaxReports /\ reviews \in 0..MaxReviews

\* Each report that was answered is in evidence, under the group that its receipt
\* names, and the count of the group is that of its evidence, however the first
\* reports of a group race and whatever fails.
EvidenceCounted ==
  /\ \A g \in Groups :
       /\ improvement[g].count = Cardinality(evidence[g])
       /\ improvement[g].exists <=> evidence[g] # {}
  /\ \A g \in Groups, t \in 1..MaxReports : <<g, t>> \in receipts <=> t \in evidence[g]

\* A group was last seen when its newest evidence was reported, unless an older
\* report waited for the row of a newer one.
SeenIsNewest ==
  \A g \in Groups \ overtook : \A t \in evidence[g] : improvement[g].seen >= t

\* Status, note and reviewer of a group are those of its last review, whatever
\* evidence comes in, unless two managers reviewed it at a time.
LastReviewStands == \A g \in Groups \ rivals : Verdict(improvement[g]) = decided[g]

\* The inbox of improvements, whatever its reporters and managers do at once.
HelpHolds == HelpTypeOK /\ EvidenceCounted /\ SeenIsNewest /\ LastReviewStands
=============================================================================
