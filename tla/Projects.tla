------------------------------ MODULE Projects ------------------------------
(***************************************************************************)
(* The project register: rows, permanent job numbers, the awarded          *)
(* workspace, the safety launch that gates field posting, and the closeout *)
(* controls (services/projects.py, project_safety_launch.py,               *)
(* project_production_records.py).  A request is one transaction under     *)
(* READ COMMITTED.  Safety-launch requests lock the row they read; the     *)
(* generic update, the closeout controls and archiving do not, so those    *)
(* that read before they write are two steps here, and write the columns   *)
(* that differ from what they read.                                        *)
(***************************************************************************)
EXTENDS Naturals, FiniteSets, FiniteSetsExt

CONSTANTS
  Projects, Sessions,
  Managers,     \* sessions of administrators and operations managers
  Controls,     \* the codes of PROJECT_CLOSEOUT_CHECKLIST
  Documents, DocumentOf,
  Quotes,       \* the customer quotes that an award may be based on
  Changes,      \* the generic updates that clients send
  MaxNumber,    \* bound on the job numbers of a year
  MaxUpdates,   \* bound on the generic updates of a behaviour
  None

ASSUME ProjectsAssumption ==
  /\ Managers \subseteq Sessions
  /\ DocumentOf \in [Documents -> Projects]
  /\ MaxNumber \in Nat /\ MaxUpdates \in Nat

VARIABLES
  project,      \* the rows
  closeout,     \* the closeout controls that are complete, None before there are any
  mobilized,    \* the project-start checklist
  document,     \* the status of the evidence documents
  update,       \* an unlocked request between its read and its commit
  updates,      \* how many generic updates there were
  decided,      \* history: the last release decision that management took
  postedBlocked, \* history: production was posted on a job that was held
  raced         \* history: a request wrote to a row that changed after its read

projectsVars == <<project, closeout, mobilized, document, update, updates,
                  decided, postedBlocked, raced>>

Numbers == 1..MaxNumber
Statuses == {"absent", "opportunity", "awarded", "construction", "completed",
             "archived"}
Evidence == {"unconfirmed", "not_applicable"} \cup Documents
Launches == [job: Numbers, root: Numbers, release: {"blocked", "ready"},
             evidence: Evidence]
Rows == [status: Statuses, number: {0} \cup Numbers, root: {0} \cup Numbers,
         launch: {None} \cup Launches, award: {None} \cup Quotes,
         deleted: BOOLEAN]
NoRow == [status |-> "absent", number |-> 0, root |-> 0, launch |-> None,
          award |-> None, deleted |-> FALSE]

\* A change of status (or None), of the number (or 0), and of the metadata,
\* which the client sends back as a whole.
ChangeSet == [status: {None} \cup (Statuses \ {"absent"}),
              number: {0} \cup Numbers, metadata: BOOLEAN]

\* What clients send is well-formed, and no value of a handler is None.
ASSUME RegisterAssumption ==
  /\ Changes \subseteq ChangeSet
  /\ None \notin Statuses \cup {"blocked", "ready"}
  /\ \A row \in Launches : None # row
  /\ \A done \in SUBSET Controls : None # done

Idle == [at |-> "idle"]

ProjectsInit ==
  /\ project = [p \in Projects |-> NoRow]
  /\ closeout = [p \in Projects |-> None]
  /\ mobilized = [p \in Projects |-> "none"]
  /\ document = [d \in Documents |-> "current"]
  /\ update = [s \in Sessions |-> Idle]
  /\ updates = 0
  /\ decided = [p \in Projects |-> None]
  /\ postedBlocked = [p \in Projects |-> FALSE]
  /\ raced = [p \in Projects |-> FALSE]

----------------------------------------------------------------------------
\* Job numbers and the awarded workspace

\* _load_project
Visible(p) == project[p].status # "absent" /\ ~project[p].deleted

TakenNumbers == {project[p].number : p \in Projects} \ {0}

\* _next_job_number: one more than the greatest of the committed numbers.
NextJobNumber == IF TakenNumbers = {} THEN 1 ELSE Max(TakenNumbers) + 1

\* The unique key of projects.project_number.
NumberFree(p, n) == \A o \in Projects \ {p} : project[o].number # n

\* _provision_project_start_checklist and its closeout twin insert with
\* ON CONFLICT DO NOTHING.
ProvisionChecklists(p) ==
  /\ mobilized' = [mobilized EXCEPT ![p] = IF @ = "none" THEN "open" ELSE @]
  /\ closeout' = [closeout EXCEPT ![p] = IF @ = None THEN {} ELSE @]

\* The closeout controls are all there, complete and with evidence.
CloseoutReady(p) == closeout[p] = Controls

----------------------------------------------------------------------------
\* Create and the generic update

\* The status a request leaves the project with.
Target(u) == IF u.new.status = None THEN u.read.status ELSE u.new.status

Completes(u) == Target(u) = "completed" /\ u.read.status # "completed"
Reopens(u) == Target(u) # "completed" /\ u.read.status = "completed"

\* update_project leaves for _update_awarded_project, create_project for
\* _create_awarded_project, when an award has no number yet.
Awards(u) == Target(u) = "awarded" /\ u.read.number = 0 /\ u.new.number = 0

\* _protect_safety_launch_metadata keeps the launch that was read; completing
\* and reopening write the metadata as well.
WritesMetadata(u) == u.new.metadata \/ Completes(u) \/ Reopens(u)

\* What a request uses of the row it read: launch and award baseline, which are
\* parts of the metadata, only if it writes the metadata.
Loaded(row, new) ==
  LET kept == WritesMetadata([read |-> row, new |-> new])
  IN [row EXCEPT !.deleted = FALSE,
        !.launch = IF kept THEN @ ELSE None, !.award = IF kept THEN @ ELSE None]

Start(s, p, new) ==
  LET u == [at |-> "write", p |-> p, read |-> Loaded(project[p], new), new |-> new,
            number |-> 0]
  IN update' = [update EXCEPT ![s] = IF Awards(u) THEN [u EXCEPT !.at = "allocate"] ELSE u]

\* create_project refuses a completed project and a safety launch.
CreateProject(s, p, new) ==
  /\ update[s] = Idle /\ project[p].status = "absent"
  /\ \A o \in Sessions : update[o] # Idle => update[o].p # p
  /\ new.status \notin {None, "completed"}
  /\ Start(s, p, new)
  /\ UNCHANGED <<project, closeout, mobilized, document, updates, decided,
                 postedBlocked, raced>>

\* update_project up to its first write: permission and closeout are checked
\* against what the request has read.
BeginUpdate(s, p, new) ==
  LET u == [read |-> project[p], new |-> new]
  IN /\ update[s] = Idle /\ Visible(p) /\ updates < MaxUpdates
     /\ Completes(u) \/ Reopens(u) => s \in Managers
     /\ Completes(u) => CloseoutReady(p)
     /\ updates' = updates + 1
     /\ Start(s, p, new)
     /\ UNCHANGED <<project, closeout, mobilized, document, decided, postedBlocked,
                    raced>>

\* The award loop computes a number unless the row it has loaded holds one.
Allocate(s) ==
  LET u == update[s]
  IN /\ u.at = "allocate"
     /\ u.read.number = 0 => NextJobNumber <= MaxNumber
     /\ update' = [update EXCEPT ![s] =
          [u EXCEPT !.at = "write",
                    !.number = IF u.read.number = 0 THEN NextJobNumber ELSE 0]]
     /\ UNCHANGED <<project, closeout, mobilized, document, updates, decided,
                    postedBlocked, raced>>

\* Mutant of Assigned: a number that the client sends replaces the project's.
AssignedAlways(u) == IF u.number # 0 THEN u.number ELSE u.new.number

\* The number a request assigns: the allocated one, or the one the client
\* sent, which update_project drops when it has read a number.
Assigned(u) ==
  IF u.number # 0 THEN u.number
  ELSE IF u.read.number = 0 THEN u.new.number ELSE 0

\* _provision_awarded_workspace names the root after the number, once.
Provisions(u) == Target(u) = "awarded" /\ (u.read.status # "awarded" \/ u.number # 0)

\* Mutant of Written: the client's metadata is written without the launch.
WrittenUnprotected(u) ==
  LET row == project[u.p]
      number == IF Assigned(u) # 0 THEN Assigned(u) ELSE u.read.number
  IN [row EXCEPT
        !.status = IF Target(u) # u.read.status THEN Target(u) ELSE @,
        !.number = IF number # u.read.number THEN number ELSE @,
        !.root = IF Provisions(u) /\ u.read.root = 0 THEN number ELSE @,
        !.launch = IF WritesMetadata(u) THEN None ELSE @,
        !.award = IF WritesMetadata(u) THEN u.read.award ELSE @]

\* The flush writes the columns that differ from what was read.
Written(u) ==
  LET row == project[u.p]
      number == IF Assigned(u) # 0 THEN Assigned(u) ELSE u.read.number
  IN [row EXCEPT
        !.status = IF Target(u) # u.read.status THEN Target(u) ELSE @,
        !.number = IF number # u.read.number THEN number ELSE @,
        !.root = IF Provisions(u) /\ u.read.root = 0 THEN number ELSE @,
        !.launch = IF WritesMetadata(u) THEN u.read.launch ELSE @,
        !.award = IF WritesMetadata(u) THEN u.read.award ELSE @]

CommitUpdate(s) ==
  LET u == update[s]
  IN /\ u.at = "write"
     /\ Assigned(u) # 0 => NumberFree(u.p, Assigned(u))
     /\ project' = [project EXCEPT ![u.p] = Written(u)]
     /\ IF Provisions(u) THEN ProvisionChecklists(u.p)
        ELSE UNCHANGED <<mobilized, closeout>>
     /\ raced' = [raced EXCEPT ![u.p] = @ \/ u.read # Loaded(project[u.p], u.new)]
     /\ update' = [update EXCEPT ![s] = Idle]
     /\ UNCHANGED <<document, updates, decided, postedBlocked>>

\* The unique key refuses the number.  An award rolls back, reads the row
\* again and computes another one; any other request fails.
NumberTaken(s) ==
  LET u == update[s]
  IN /\ u.at = "write"
     /\ Assigned(u) # 0 /\ ~NumberFree(u.p, Assigned(u))
     /\ update' = [update EXCEPT ![s] =
          IF u.number # 0 /\ (u.read.status = "absent" \/ Visible(u.p))
          THEN [u EXCEPT !.at = "allocate", !.read = Loaded(project[u.p], u.new), !.number = 0]
          ELSE Idle]
     /\ UNCHANGED <<project, closeout, mobilized, document, updates, decided,
                    postedBlocked, raced>>

----------------------------------------------------------------------------
\* Archive, trash, checklists

SetRow(p, row) ==
  /\ project' = [project EXCEPT ![p] = row]
  /\ UNCHANGED <<closeout, mobilized, document, update, updates, decided,
                 postedBlocked, raced>>

ArchiveProject(p) ==
  Visible(p) /\ SetRow(p, [project[p] EXCEPT !.status = "archived"])

DeleteProject(p) == Visible(p) /\ SetRow(p, [project[p] EXCEPT !.deleted = TRUE])

RestoreProject(p) ==
  project[p].deleted /\ SetRow(p, [project[p] EXCEPT !.deleted = FALSE])

\* update_project_start_checklist_item, for the last item that is open.
UpdateStartItem(p, done) ==
  /\ Visible(p) /\ mobilized[p] # "none"
  /\ mobilized' = [mobilized EXCEPT ![p] = IF done THEN "complete" ELSE "open"]
  /\ UNCHANGED <<project, closeout, document, update, updates, decided, postedBlocked,
                 raced>>

\* initialize_project_closeout_checklist, for jobs that have none.
InitializeCloseout(p) ==
  /\ Visible(p) /\ closeout[p] = None
  /\ project[p].status \in {"awarded", "construction", "completed"}
  /\ project[p].number # 0
  /\ closeout' = [closeout EXCEPT ![p] = {}]
  /\ UNCHANGED <<project, mobilized, document, update, updates, decided, postedBlocked,
                 raced>>

\* update_project_closeout_checklist_item: the status is read without a lock.
BeginCloseoutItem(s, p, c, done) ==
  /\ update[s] = Idle /\ s \in Managers /\ Visible(p) /\ closeout[p] # None
  /\ project[p].status = "completed" => done
  /\ update' = [update EXCEPT ![s] =
       [at |-> "item", p |-> p, status |-> project[p].status, c |-> c, done |-> done]]
  /\ UNCHANGED <<project, closeout, mobilized, document, updates, decided,
                 postedBlocked, raced>>

\* A request of another session that is about to complete p.
Completing(p) ==
  \E o \in Sessions : update[o].at = "write" /\ update[o].p = p /\ Completes(update[o])

CommitCloseoutItem(s) ==
  LET u == update[s]
  IN /\ u.at = "item"
     /\ closeout' = [closeout EXCEPT ![u.p] = IF u.done THEN @ \cup {u.c} ELSE @ \ {u.c}]
     /\ raced' = [raced EXCEPT ![u.p] = @ \/ u.status # project[u.p].status \/ Completing(u.p)]
     /\ update' = [update EXCEPT ![s] = Idle]
     /\ UNCHANGED <<project, mobilized, document, updates, decided, postedBlocked>>

----------------------------------------------------------------------------
\* Safety launch and field posting

\* _matching_identity
Matches(p) ==
  /\ project[p].launch.job = project[p].number
  /\ project[p].launch.root = project[p].root

\* _documents_are_valid
DocumentValid(p, d) == DocumentOf[d] = p /\ document[d] = "current"

\* requirement_resolved
Resolved(p, e) == e = "not_applicable" \/ (e \in Documents /\ DocumentValid(p, e))

InitializeLaunch(p) ==
  LET row == project[p]
  IN /\ Visible(p) /\ row.status = "awarded" /\ row.number # 0 /\ row.root # 0
     /\ row.launch = None
     /\ project' = [project EXCEPT ![p].launch =
          [job |-> row.number, root |-> row.root, release |-> "blocked",
           evidence |-> "unconfirmed"]]
     /\ decided' = [decided EXCEPT ![p] = "blocked"]
     /\ UNCHANGED <<closeout, mobilized, document, update, updates, postedBlocked, raced>>

\* update: all requirements at once; ready needs every one of them resolved.
UpdateLaunch(p, release, e) ==
  /\ Visible(p) /\ project[p].launch # None /\ Matches(p)
  /\ project[p].status \in {"awarded", "construction"}
  /\ e \in Documents => DocumentValid(p, e)
  /\ release = "ready" => Resolved(p, e)
  /\ project' = [project EXCEPT ![p].launch =
       [@ EXCEPT !.release = release, !.evidence = e]]
  /\ decided' = [decided EXCEPT ![p] = release]
  /\ UNCHANGED <<closeout, mobilized, document, update, updates, postedBlocked, raced>>

\* A document is superseded, or made current again.
ChangeDocument(d) ==
  /\ document' = [document EXCEPT ![d] = IF @ = "current" THEN "superseded" ELSE "current"]
  /\ UNCHANGED <<project, closeout, mobilized, update, updates, decided, postedBlocked,
                 raced>>

\* posting_blockers; read refuses a launch of another job.
PostingReady(p) ==
  LET row == project[p]
  IN /\ row.status \in {"awarded", "construction"}
     /\ row.number # 0 /\ row.root # 0
     /\ Matches(p) /\ row.launch.release = "ready"
     /\ Resolved(p, row.launch.evidence)
     /\ mobilized[p] = "complete"

\* A time sheet is posted, with the project locked.  A project without a
\* launch is a legacy one and is not gated.
PostProduction(p) ==
  /\ Visible(p)
  /\ project[p].launch # None => PostingReady(p)
  /\ postedBlocked' = [postedBlocked EXCEPT ![p] = @ \/ decided[p] = "blocked"]
  /\ UNCHANGED <<project, closeout, mobilized, document, update, updates, decided,
                 raced>>

----------------------------------------------------------------------------
LaunchStep ==
  \/ \E p \in Projects : InitializeLaunch(p) \/ PostProduction(p)
  \/ \E p \in Projects, r \in {"blocked", "ready"}, e \in Evidence :
       UpdateLaunch(p, r, e)
  \/ \E d \in Documents : ChangeDocument(d)

UpdateStep ==
  \E s \in Sessions :
    \/ \E p \in Projects, c \in Changes : CreateProject(s, p, c) \/ BeginUpdate(s, p, c)
    \/ \E p \in Projects, c \in Controls, b \in BOOLEAN : BeginCloseoutItem(s, p, c, b)
    \/ Allocate(s) \/ CommitUpdate(s) \/ NumberTaken(s) \/ CommitCloseoutItem(s)

RowStep ==
  \E p \in Projects :
    \/ ArchiveProject(p) \/ DeleteProject(p) \/ RestoreProject(p)
    \/ InitializeCloseout(p)
    \/ \E b \in BOOLEAN : UpdateStartItem(p, b)

ProjectsNext == LaunchStep \/ UpdateStep \/ RowStep

ProjectsSpec == ProjectsInit /\ [][ProjectsNext]_projectsVars

----------------------------------------------------------------------------
\* Types of the rows, the checklists and the requests in flight.
ProjectsTypeOK ==
  /\ project \in [Projects -> Rows]
  /\ closeout \in [Projects -> {None} \cup SUBSET Controls]
  /\ mobilized \in [Projects -> {"none", "open", "complete"}]
  /\ document \in [Documents -> {"current", "superseded"}]
  /\ \A s \in Sessions : update[s] # Idle =>
       /\ update[s].at \in {"allocate", "write", "item"}
       /\ update[s].p \in Projects
       /\ update[s].at # "item" => update[s].read \in Rows
  /\ updates \in 0..MaxUpdates
  /\ decided \in [Projects -> {None, "blocked", "ready"}]
  /\ postedBlocked \in [Projects -> BOOLEAN]
  /\ raced \in [Projects -> BOOLEAN]

\* Whatever requests race, an awarded project has a job number, a workspace
\* and both checklists, and no other project has its number.
AwardedIsProvisioned ==
  \A p \in Projects : project[p].status = "awarded" =>
    /\ project[p].number # 0 /\ project[p].root # 0
    /\ mobilized[p] # "none" /\ closeout[p] # None
    /\ NumberFree(p, project[p].number)

\* A job number and its workspace are permanent, except for a request that
\* wrote to a row it had read before another one changed it.
NumberPermanent ==
  [][\A p \in Projects : project[p].number # 0 /\ ~raced'[p] =>
       /\ project'[p].number = project[p].number
       /\ project[p].root # 0 => project'[p].root = project[p].root]_projectsVars

\* The release in force is the one management decided last: no generic
\* update injects, removes or releases a launch, unless its read was stale.
ReleaseIsDecided ==
  \A p \in Projects : ~raced[p] =>
    /\ project[p].launch = None <=> decided[p] = None
    /\ project[p].launch # None => project[p].launch.release = decided[p] /\ Matches(p)

\* Production is posted on a launched job only while the decision is ready.
PostedOnRelease == \A p \in Projects : ~raced[p] => ~postedBlocked[p]

\* A completed project has no open closeout control, unless a control was
\* reopened while the project was being completed.
CompletedIsClosedOut ==
  \A p \in Projects : project[p].status = "completed" /\ ~raced[p] => CloseoutReady(p)

\* The register of projects, whatever requests race: awarded projects are
\* provisioned, launches say what was decided and is matched, production is
\* posted on a release, and what is completed is closed out.
ProjectsAreControlled ==
  ProjectsTypeOK /\ AwardedIsProvisioned /\ ReleaseIsDecided /\ PostedOnRelease /\ CompletedIsClosedOut

=============================================================================
