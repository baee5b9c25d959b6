------------------------------- MODULE MCOffice -------------------------------
(* Small instances of the components that the office and the crews use side *)
(* by side.  They share no table and no lock, so a behaviour is one of a    *)
(* single subject, and the state space is the sum of theirs, not their      *)
(* product.                                                                 *)
EXTENDS OfficePromises, EmployeeOnboarding, FieldRecords, Receipts, OperatorFleet, TLC

CONSTANTS Home, Photo
VARIABLE subject

MCAddressOf == [b \in Browsers |-> Home]
MCEmailOf == [o \in Records |-> Home]
MCCrewOf == (1 :> {"w1"}) @@ (2 :> {"w1", "w2"}) @@ (3 :> {})
MCGapOf == (1 :> "none") @@ (2 :> "none") @@ (3 :> "critical")
MCImageOf == [r \in Receipts |-> Photo]
MCBrowserOf == [t \in Tabs |-> "chrome"]
MCSymmetry == Permutations(Tabs) \cup Permutations(Entrants)

officeVars ==
  <<accountsVars, onboardingVars, fieldVars, receiptVars, inboxVars, draftVars, fleetVars, helpVars>>

MCInit ==
  /\ subject \in {"accounts", "onboarding", "field", "receipts", "inbox", "drafts", "fleet", "help"}
  /\ AccountsInit /\ OnboardingInit /\ FieldInit /\ ReceiptsInit /\ InboxInit /\ DraftsInit
  /\ FleetInit /\ HelpInit
  /\ subject # "inbox" => photo = CHOOSE p \in Photos : TRUE
  /\ subject # "fleet" =>
       /\ \A u \in Units : unit[u] = [operator |-> NoOperator, status |-> "available", km |-> 0]
       /\ \A w \in Operators : person[w] = [active |-> TRUE, deployable |-> FALSE, review |-> "none"]

MCNext ==
  \/ /\ subject = "accounts" /\ AccountsNext /\ UNCHANGED subject
     /\ UNCHANGED <<onboardingVars, fieldVars, receiptVars, inboxVars, draftVars, fleetVars, helpVars>>
  \/ /\ subject = "onboarding" /\ OnboardingNext /\ UNCHANGED subject
     /\ UNCHANGED <<accountsVars, fieldVars, receiptVars, inboxVars, draftVars, fleetVars, helpVars>>
  \/ /\ subject = "field" /\ FieldNext /\ UNCHANGED subject
     /\ UNCHANGED <<accountsVars, onboardingVars, receiptVars, inboxVars, draftVars, fleetVars, helpVars>>
  \/ /\ subject = "receipts" /\ ReceiptsNext /\ UNCHANGED subject
     /\ UNCHANGED <<accountsVars, onboardingVars, fieldVars, inboxVars, draftVars, fleetVars, helpVars>>
  \/ /\ subject = "inbox" /\ InboxNext /\ UNCHANGED subject
     /\ UNCHANGED <<accountsVars, onboardingVars, fieldVars, receiptVars, draftVars, fleetVars, helpVars>>
  \/ /\ subject = "drafts" /\ DraftsNext /\ UNCHANGED subject
     /\ UNCHANGED <<accountsVars, onboardingVars, fieldVars, receiptVars, inboxVars, fleetVars, helpVars>>
  \/ /\ subject = "fleet" /\ FleetNext /\ UNCHANGED subject
     /\ UNCHANGED <<accountsVars, onboardingVars, fieldVars, receiptVars, inboxVars, draftVars, helpVars>>
  \/ /\ subject = "help" /\ HelpNext /\ UNCHANGED subject
     /\ UNCHANGED <<accountsVars, onboardingVars, fieldVars, receiptVars, inboxVars, draftVars, fleetVars>>

MCSpec == MCInit /\ [][MCNext]_<<subject, officeVars>>

-----------------------------------------------------------------------------
\* The bounds of each subject.  What one of them counts is looked at with the
\* others at their first values.

Quiet ==
  /\ \A k \in Keys : throttle[k] = NoThrottle
  /\ \A b \in Browsers : call[b].at = "login" => call[b].verified

\* While logins fail there is one account and one session.
AccountsSmall ==
  /\ ~Quiet =>
       /\ chosen <= 2 /\ ~account["a2"].exists
       /\ \A b, c \in Browsers : b # c => NoSession \in {cookie[b], cookie[c]}
  /\ \A a \in Accounts : account[a].version <= 3
  /\ ~crossed /\ stale = {}

Rival == record[2].status # "absent"

\* Once a second record exists, the first is approved and the requests on both
\* are activations.
OnboardingSmall ==
  /\ Rival =>
       /\ record[1].status \in {"approved", "active"} /\ outdated = {} /\ dead = {}
       /\ \A o \in Records : ~record[o].expired /\ ~record[o].revoked
       /\ \A c, d \in Calls : c # d /\ handler[c] # NoHandler /\ handler[d] # NoHandler =>
            handler[c].at = "activate" /\ handler[d].at = "activate"
       /\ \A c \in Calls : handler[c] # NoHandler => handler[c].at \in {"invite", "submit", "approve", "activate"}
       /\ record[2].status # "approved" => oriented = {}
  /\ packets = 2 => dead = {}
  /\ oriented # {} => record[1].status \in {"approved", "active", "cancelled"}
  /\ outdated # {} => packets = 0 /\ oriented = {}

\* A second record meets a first that is released.
FieldSmall ==
  /\ field[2] # NoRow =>
       /\ fieldStale = {} /\ field[1].status = "released" /\ field[1].details.content = 1
       /\ \A q \in Requests : request[q] # NoRequest => request[q].r = 2
       /\ Cardinality({q \in Requests : request[q] # NoRequest}) <= 1
  /\ field[1].kind \notin {"none", "flha", "time_off"} => field[1].signatures = {}
  /\ Is(1, "purchase_order") => field[1].details.content # 3 /\ \A q \in Requests : request[q] # NoRequest => request[q].new.details.content # 3

Pair == receipt[2] # NoReceipt \/ \E c \in creating : c.r = 2

\* Two receipts of one image are edited by one reviewer at a time.
ReceiptsSmall ==
   /\ Pair =>
       /\ \A r \in Receipts : receipt[r].version <= 4 /\ receipt[r].reading \in {0, 1} /\ receipt[r].status \notin {"exported", "reconciled"}
       /\ \E u \in Reviewers : \A v \in Reviewers \ {u} : screen[v] = NoScreen /\ edit[v] = NoEdit
       /\ \A v \in Reviewers : edit[v] # NoEdit => edit[v].new.reading = 1 /\ edit[v].at \notin {"reconcile"}
   /\ \A c \in creating : c.row.reading = 1
   /\ \A v \in Reviewers : edit[v] # NoEdit /\ edit[v].at = "update" /\ ~Pair => ~edit[v].new.cleared
   /\ Cardinality(creating) = 1 /\ Pair => \A r \in Receipts : receipt[r].version <= 1

Settled ==
  /\ changes = 0
  /\ \A w \in Operators : person[w].active /\ person[w].deployable /\ Qualified(w)
  /\ \A u \in Units : unit[u].operator \in Operators /\ Operational(unit[u].status)

\* The odometer is looked at while the driver may enter everything, and what he may
\* enter with one entry at a time.
FleetSmall ==
  LET open == {e \in Entrants : entry[e] # NoEntry} IN
  \/ Settled /\ \A e \in open : entry[e].on \in Vehicles
  \/ /\ Cardinality({e \in open : entry[e].at # "update"}) + Cardinality(logs) <= 1
     /\ \A v \in Vehicles : due[v] = 0
     /\ \A e \in open : entry[e].at # "update" => entry[e].km = NoReading

\* Once a page was opened again, one tab at a time has saves or a close to come;
\* two tabs do not close at once.
DraftsSmall ==
  LET closing == {t \in Tabs : page[t].closing # NotCalling}
      busy == {t \in Tabs : page[t].call # NotCalling \/ page[t].chain # <<>>} \cup closing
  IN /\ opens > 0 => Cardinality(busy) <= 1
     /\ Cardinality(closing) <= 1

MCSmall ==
  /\ subject = "fleet" => FleetSmall
  /\ subject = "accounts" => AccountsSmall
  /\ subject = "onboarding" => OnboardingSmall
  /\ subject = "field" => FieldSmall
  /\ subject = "receipts" => ReceiptsSmall
  /\ subject = "drafts" => DraftsSmall
==============================================================================
