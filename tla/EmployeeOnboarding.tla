-------------------------- MODULE EmployeeOnboarding --------------------------
(***************************************************************************)
(* The onboarding of employees (services/employee_onboarding.py and its    *)
(* routes): invitation links, the employee's packet, review, orientation   *)
(* and activation.  Every request reads its record without a lock, goes by *)
(* what it read, and its flush writes the columns that it changed.         *)
(***************************************************************************)
EXTENDS Naturals, FiniteSets

CONSTANTS
  Records, EmailOf,   \* onboarding records and the address each is for
  Calls,              \* requests that may run at the same time
  MaxLinks,           \* bound on the invitation links issued
  MaxPackets          \* bound on the packets saved

Emails == {EmailOf[o] : o \in Records}

ASSUME OnboardingAssumption == MaxLinks \in Nat /\ MaxPackets \in Nat

VARIABLES
  record,     \* the rows
  oriented,   \* records whose latest orientations make the worker ready
  hired,      \* the records that made an employee and an account, per address
  handler,    \* a request between its read and its commit
  links, packets,   \* how many links were issued and packets saved
  reviewed,   \* history: the packet that a record was approved with
  outdated,   \* history: records written by a request whose read was stale
  dead        \* history: links that were replaced or revoked

onboardingVars == <<record, oriented, hired, handler, links, packets, reviewed, outdated, dead>>

Invitable == {"draft", "invitation_ready", "invitation_sent", "invitation_opened",
              "in_progress", "corrections_required", "invitation_expired"}
EmployeeEditable == {"invitation_ready", "invitation_sent", "invitation_opened",
                     "in_progress", "corrections_required"}
LinkClosed == {"approved", "active", "cancelled"}
OnboardingStatuses == Invitable \cup LinkClosed \cup {"absent", "submitted"}

OnboardingRow == [status: OnboardingStatuses, link: 0..MaxLinks, expired: BOOLEAN,
                  revoked: BOOLEAN, packet: 0..MaxPackets, signed: BOOLEAN,
                  employee: BOOLEAN]
NoRecord == [status |-> "absent", link |-> 0, expired |-> FALSE, revoked |-> FALSE,
             packet |-> 0, signed |-> FALSE, employee |-> FALSE]
NoHandler == [at |-> "idle"]

OnboardingInit ==
  /\ record = [o \in Records |-> NoRecord]
  /\ oriented = {}
  /\ hired = [e \in Emails |-> {}]
  /\ handler = [c \in Calls |-> NoHandler]
  /\ links = 0
  /\ packets = 0
  /\ reviewed = [o \in Records |-> 0]
  /\ outdated = {}
  /\ dead = {}

----------------------------------------------------------------------------
\* What a request makes of the row that it read.

\* issue_invitation
Invited(row) ==
  [row EXCEPT !.status = "invitation_ready", !.link = links + 1, !.expired = FALSE,
              !.revoked = FALSE]

\* update_progress drops the signature.
SavedForm(row) ==
  [row EXCEPT !.status = "in_progress", !.packet = packets + 1, !.signed = FALSE]

Submitted(row) ==
  [row EXCEPT !.status = "submitted", !.packet = packets + 1, !.signed = TRUE]

\* resolve_token knows this link; it may find that it has expired.
Resolves(o, link) ==
  /\ link # 0 /\ record[o].link = link
  /\ ~record[o].revoked /\ record[o].status \notin LinkClosed

\* deployment_status, and no employee or account has the address.
Deployable(o) == o \in oriented /\ hired[EmailOf[o]] = {}

----------------------------------------------------------------------------
\* Requests

CreateRecord(o) ==
  /\ record[o].status = "absent"
  /\ record' = [record EXCEPT ![o].status = "draft"]
  /\ UNCHANGED <<oriented, hired, handler, links, packets, reviewed, outdated, dead>>

\* The request has read its row and decided what becomes of it.
Read(c, op, o, new) ==
  /\ handler[c] = NoHandler /\ record[o].status # "absent"
  /\ handler' = [handler EXCEPT ![c] = [at |-> op, o |-> o, read |-> record[o], new |-> new]]
  /\ UNCHANGED <<record, oriented, hired, reviewed, outdated, dead>>

BeginInvite(c, o) ==
  /\ record[o].status \in Invitable /\ links < MaxLinks
  /\ links' = links + 1
  /\ Read(c, "invite", o, Invited(record[o]))
  /\ UNCHANGED packets

\* deliver_invitation, up to the mail server's answer; after invite it reads
\* the row that the commit expired.
BeginDeliver(c, o) ==
  /\ record[o].status \in EmployeeEditable /\ record[o].link # 0 /\ ~record[o].expired
  /\ Read(c, "deliver", o, [record[o] EXCEPT !.status = "invitation_sent"])
  /\ UNCHANGED <<links, packets>>

\* A portal request on an expired link only records that it has expired.
Portal(c, o, link, op, new) ==
  /\ Resolves(o, link)
  /\ IF record[o].expired
     THEN Read(c, "expire", o, [record[o] EXCEPT !.status = "invitation_expired"])
     ELSE Read(c, op, o, new)

OpenPortal(c, o, link) ==
  /\ record[o].expired \/ record[o].status \in {"invitation_ready", "invitation_sent"}
  /\ Portal(c, o, link, "open", [record[o] EXCEPT !.status = "invitation_opened"])
  /\ UNCHANGED <<links, packets>>

BeginSave(c, o, link) ==
  /\ ~record[o].expired /\ record[o].status \in EmployeeEditable /\ packets < MaxPackets
  /\ packets' = packets + 1
  /\ Portal(c, o, link, "save", SavedForm(record[o]))
  /\ UNCHANGED links

BeginSubmit(c, o, link) ==
  /\ ~record[o].expired /\ record[o].status \in EmployeeEditable /\ packets < MaxPackets
  /\ packets' = packets + 1
  /\ Portal(c, o, link, "submit", Submitted(record[o]))
  /\ UNCHANGED links

\* revoke looks at no status.
BeginRevoke(c, o) ==
  /\ Read(c, "revoke", o, [record[o] EXCEPT !.status = "cancelled", !.revoked = TRUE])
  /\ UNCHANGED <<links, packets>>

BeginCorrections(c, o) ==
  /\ record[o].status = "submitted"
  /\ Read(c, "correct", o, [record[o] EXCEPT !.status = "corrections_required"])
  /\ UNCHANGED <<links, packets>>

\* Mutant of BeginApprove: any packet that was saved can be approved.
BeginApproveAny(c, o) ==
  /\ record[o].status \in {"submitted", "in_progress"}
  /\ Read(c, "approve", o, [record[o] EXCEPT !.status = "approved"])
  /\ UNCHANGED <<links, packets>>

BeginApprove(c, o) ==
  /\ record[o].status = "submitted"
  /\ Read(c, "approve", o, [record[o] EXCEPT !.status = "approved"])
  /\ UNCHANGED <<links, packets>>

\* activate, up to its flush.
BeginActivate(c, o) ==
  /\ record[o].status = "approved" /\ ~record[o].employee /\ Deployable(o)
  /\ Read(c, "activate", o, [record[o] EXCEPT !.status = "active", !.employee = TRUE])
  /\ UNCHANGED <<links, packets>>

----------------------------------------------------------------------------
\* Commits

WrittenColumns(o, read, new) ==
  [f \in DOMAIN new |-> IF new[f] = read[f] THEN record[o][f] ELSE new[f]]

\* The unique keys of employees.email and user_accounts.email.
EmailFree(o) == hired[EmailOf[o]] = {}

CommitRecord(c) ==
  LET h == handler[c]
      o == h.o
      after == WrittenColumns(o, h.read, h.new)
  IN /\ h # NoHandler
     /\ h.at = "activate" => EmailFree(o)
     /\ record' = [record EXCEPT ![o] = after]
     /\ hired' = IF h.at = "activate" THEN [hired EXCEPT ![EmailOf[o]] = @ \cup {o}] ELSE hired
     /\ reviewed' = IF h.at = "approve" THEN [reviewed EXCEPT ![o] = h.read.packet] ELSE reviewed
     /\ outdated' = IF record[o] # h.read THEN outdated \cup {o} ELSE outdated
     /\ dead' = (dead \cup ({record[o].link} \ {after.link})
                      \cup {l \in {after.link} : after.revoked}) \ {0}
     /\ handler' = [handler EXCEPT ![c] = NoHandler]
     /\ UNCHANGED <<oriented, links, packets>>

\* The mail is not accepted, or an address was taken: nothing but the audit.
RequestFails(c) ==
  /\ handler[c] # NoHandler
  /\ handler[c].at = "deliver" \/ (handler[c].at = "activate" /\ ~EmailFree(handler[c].o))
  /\ handler' = [handler EXCEPT ![c] = NoHandler]
  /\ UNCHANGED <<record, oriented, hired, links, packets, reviewed, outdated, dead>>

\* create_orientation: the latest one counts.
RecordOrientation(o, passed) ==
  /\ record[o].status # "absent"
  /\ oriented' = IF passed THEN oriented \cup {o} ELSE oriented \ {o}
  /\ UNCHANGED <<record, hired, handler, links, packets, reviewed, outdated, dead>>

\* invitation_expires_at passes.
LinkExpires(o) ==
  /\ record[o].link # 0 /\ ~record[o].expired
  /\ record' = [record EXCEPT ![o].expired = TRUE]
  /\ UNCHANGED <<oriented, hired, handler, links, packets, reviewed, outdated, dead>>

OnboardingNext ==
  \/ \E c \in Calls, o \in Records :
       \/ BeginInvite(c, o) \/ BeginDeliver(c, o) \/ BeginRevoke(c, o)
       \/ BeginCorrections(c, o) \/ BeginApprove(c, o) \/ BeginActivate(c, o)
       \/ \E l \in 1..links :
            OpenPortal(c, o, l) \/ BeginSave(c, o, l) \/ BeginSubmit(c, o, l)
  \/ \E c \in Calls : CommitRecord(c) \/ RequestFails(c)
  \/ \E o \in Records :
       CreateRecord(o) \/ LinkExpires(o) \/ \E b \in BOOLEAN : RecordOrientation(o, b)

OnboardingSpec == OnboardingInit /\ [][OnboardingNext]_onboardingVars

----------------------------------------------------------------------------
\* Types of the records, of what they made, and of the links.
OnboardingTypeOK ==
  /\ record \in [Records -> OnboardingRow]
  /\ oriented \subseteq Records
  /\ hired \in [Emails -> SUBSET Records] /\ dead \subseteq 1..links
  /\ links \in 0..MaxLinks /\ packets \in 0..MaxPackets
  /\ reviewed \in [Records -> 0..MaxPackets]

\* A link that was revoked or replaced never opens a record again, whatever
\* requests race with the revocation (docs/employee-onboarding.md:29).
DeadLinksStayDead ==
  \A o \in Records : record[o].link \in dead => record[o].revoked

\* What is approved or active is the signed packet that was reviewed, unless
\* a request wrote back to a record that had changed after its read.
ApprovedAsReviewed ==
  \A o \in Records : record[o].status \in {"approved", "active"} /\ o \notin outdated =>
    record[o].signed /\ record[o].packet = reviewed[o]

\* An account exists only for a record that was approved, with orientation,
\* and activated, even when two activations run at the same time.
HiredOnce ==
  \A e \in Emails :
    /\ Cardinality(hired[e]) <= 1
    /\ \A o \in hired[e] : record[o].employee /\ reviewed[o] # 0
    /\ \A o \in Records : record[o].employee => o \in hired[EmailOf[o]]

\* An onboarding, whatever requests race or are repeated: it is approved as its
\* reviewer saw it, hires once, and a link that was used up stays so.
OnboardingIsReviewed == OnboardingTypeOK /\ ApprovedAsReviewed /\ HiredOnce /\ DeadLinksStayDead

==============================================================================
