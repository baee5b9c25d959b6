--------------------------- MODULE OfficePromises ---------------------------
(* What components of the office promise together.                          *)
EXTENDS Accounts, BackupsInbox, HelpInbox, WorkflowDrafts

\* The two inboxes, of the photos of the field and of the reports on Help: what
\* their workers, managers and reporters do at the same time is counted once.
InboxesAreOrderly == InboxIsOrderly /\ HelpHolds

\* What has ended stays so, whatever requests that read it before are committed
\* after: a disabled account's sessions, a closed or consumed draft.
NothingReopens == EndedStaysEnded /\ ClosedStaysClosed

==============================================================================
