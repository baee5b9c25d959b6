---------------------------- MODULE MCConnections ----------------------------
(* Small instances of what is connected to the outside: the accounts at      *)
(* Intuit and at Google, and the store of files.  They share no table and no *)
(* lock, so a behaviour is one of a single subject, and the state space is   *)
(* the sum of theirs, not their product.                                     *)
EXTENDS QuickBooksConnection, GoogleCalendar, MediaLibrary, TLC

VARIABLE subject

\* The requests of every subject have the same names, and so do the states.
MCSymmetry == Permutations(Requests) \cup Permutations(States) \cup Permutations(Realms)

MCInit ==
  /\ subject \in {"quickbooks", "calendar", "library"}
  /\ QuickBooksInit /\ CalendarInit /\ LibraryInit
  /\ subject # "quickbooks" => admins = "one"

MCNext ==
  \/ /\ subject = "quickbooks" /\ QuickBooksNext /\ UNCHANGED subject
     /\ UNCHANGED <<calendarVars, libraryVars>>
  \/ /\ subject = "calendar" /\ CalendarNext /\ UNCHANGED subject
     /\ UNCHANGED <<quickbooksVars, libraryVars>>
  \/ /\ subject = "library" /\ LibraryNext /\ UNCHANGED subject
     /\ UNCHANGED <<quickbooksVars, calendarVars>>

MCSpec == MCInit /\ [][MCNext]_<<subject, quickbooksVars, calendarVars, libraryVars>>

-----------------------------------------------------------------------------
\* The bounds of each subject.

\* What goes wrong, and what a second key does, are looked at with one company;
\* a state expires before the other one is used.
QuickBooksSmall ==
  LET oneCompany == Cardinality({grants[g].realm : g \in Grants} \ {None}) <= 1 IN
  /\ faults > 0 => keys <= 1 /\ grants[2].realm = None
  /\ keys = 2 => oneCompany /\ (admins = "one" \/ grants[2].realm = None)
  /\ (\E s \in States : states[s] = "expired") => \A g \in Grants : grants[g].realm = None

\* A row that was written under another request's eyes is looked at with both
\* consents under way, before anything is lost.
CalendarSmall ==
  interleaved =>
    losses = 0 /\ forgotten = {} /\ \A s \in OAuthStates : oauth[s].status # "absent"

Patching ==
  \/ \E d \in DOMAIN documents : documents[d] # {}
  \/ \E e \in Editors : editing[e].at = "patch"

\* Documents are edited beside uploads and versions of one plain photo.
LibrarySmall ==
  /\ Patching => Len(documents) <= 2
  /\ Patching \/ Len(documents) = 3 =>
       /\ photoLinks = {} /\ asset.site = NoAsset.site /\ asset.kind = "job_photo"
       /\ ~outOfDate /\ Len(versions) <= 2
       /\ \A e \in Editors : editing[e].at # "link" /\ ("set" \in DOMAIN editing[e] => editing[e].set = <<>>)

MCSmall ==
  /\ subject = "quickbooks" => QuickBooksSmall
  /\ subject = "calendar" => CalendarSmall
  /\ subject = "library" => LibrarySmall
==============================================================================
