-------------------------- MODULE ProjectRegistry --------------------------
(***************************************************************************)
(* How a repository is enrolled with the agent platform (config.py,        *)
(* registration.py and clone_registered_project of runtime.py, run by the  *)
(* wrapper iron-house-agent-register): what GitHub says of it is verified, *)
(* it is cloned into a staging directory that becomes its checkout, the    *)
(* labels are made, the registry file is replaced and the service started  *)
(* again.  Nothing keeps two registrations apart, and each may die at any  *)
(* step.                                                                   *)
(***************************************************************************)
EXTENDS Naturals, Sequences, Functions, FiniteSets

CONSTANTS
  Enrolments,       \* the projects: key, repository and directory
  KeyOf, RepositoryOf, DirectoryOf,
  Seed,             \* the project that the installation registers
  Registrars,       \* concurrent runs of the command
  MaxRegistrations, MaxPolls

\* Enrolments are numbered or named; their repositories are "owner/name".
ASSUME RegistryAssumption ==
  /\ Seed \in Enrolments
  /\ DOMAIN RepositoryOf = Enrolments /\ \A p \in Enrolments : RepositoryOf[p] # "none"
  /\ MaxRegistrations \in Nat /\ MaxPolls \in Nat

VARIABLES
  registry,       \* the projects of projects.json, in order
  checkouts,      \* the directories of the workspace: the repository each is a clone of
  staging,        \* the directories ".<name>.registering": what each is a clone of
  labelled,       \* GitHub: the repositories that have the labels
  intakeState,    \* intake_sources: the state of each key
  service,        \* the projects that the service has loaded; {}: it is down
  registering,    \* the runs of the command
  registrations, polls,  \* count what the bounds bound
  acknowledged,   \* history: the projects reported as active
  displaced       \* history: the file was replaced although it had changed

registryVars ==
  <<registry, checkouts, staging, labelled, intakeState, service, registering,
    registrations, polls, acknowledged, displaced>>
workspace == <<registry, checkouts, staging>>
outside == <<labelled, intakeState, service>>
counts == <<registrations, polls, acknowledged, displaced>>

Directories == {DirectoryOf[p] : p \in Enrolments}
Keys == {KeyOf[p] : p \in Enrolments}
NoRepository == "none"
NotRegistering == [at |-> "idle"]

RegistryInit ==
  /\ registry = <<Seed>>
  /\ checkouts = [d \in Directories |-> IF d = DirectoryOf[Seed] THEN RepositoryOf[Seed] ELSE NoRepository]
  /\ staging = [d \in Directories |-> NoRepository]
  /\ labelled = {RepositoryOf[Seed]}
  /\ intakeState = [k \in Keys |-> "none"]
  /\ service = {Seed}
  /\ registering = [r \in Registrars |-> NotRegistering]
  /\ registrations = 0 /\ polls = 0
  /\ acknowledged = {} /\ displaced = FALSE

\* load_settings refuses a file with a key, a repository or a directory twice.
Overlap(p, q) == KeyOf[p] = KeyOf[q] \/ RepositoryOf[p] = RepositoryOf[q] \/ DirectoryOf[p] = DirectoryOf[q]
Loads(file) == \A i, j \in DOMAIN file : i # j => ~Overlap(file[i], file[j])

\* _validate_conflicts, and the same in register_project.
Registrable(p, file) == \A q \in Range(file) : q = p \/ ~Overlap(p, q)

Proceeds(r, state) == registering' = [registering EXCEPT ![r] = state]
GoesTo(r, place) == Proceeds(r, [registering[r] EXCEPT !.at = place])
Registering(r, place) == registering[r].at = place
Directory(r) == DirectoryOf[registering[r].project]

-----------------------------------------------------------------------------
\* Before anything is changed

\* The settings are loaded; the repository and its policy are asked for at GitHub.
StartRegistration(r, p) ==
  /\ registering[r] = NotRegistering /\ registrations < MaxRegistrations
  /\ registrations' = registrations + 1
  /\ Loads(registry) /\ Registrable(p, registry)
  /\ Proceeds(r, [at |-> "clone", project |-> p])
  /\ UNCHANGED <<workspace, outside, polls, acknowledged, displaced>>

-----------------------------------------------------------------------------
\* clone_registered_project

\* A checkout that is there is kept.
ReuseCheckout(r) ==
  /\ Registering(r, "clone") /\ checkouts[Directory(r)] # NoRepository
  /\ GoesTo(r, "identity")
  /\ UNCHANGED <<workspace, outside, counts>>

BeginClone(r) ==
  /\ Registering(r, "clone") /\ checkouts[Directory(r)] = NoRepository
  /\ staging[Directory(r)] = NoRepository
  /\ GoesTo(r, "stage")
  /\ UNCHANGED <<workspace, outside, counts>>

\* gh clones into a directory that is not there; otherwise it fails, and the
\* directory is removed, whoever has made it.
CloneStaged(r) ==
  /\ Registering(r, "stage")
  /\ IF staging[Directory(r)] = NoRepository
     THEN /\ staging' = [staging EXCEPT ![Directory(r)] = RepositoryOf[registering[r].project]]
          /\ GoesTo(r, "rename")
     ELSE /\ staging' = [staging EXCEPT ![Directory(r)] = NoRepository]
          /\ Proceeds(r, NotRegistering)
  /\ UNCHANGED <<registry, checkouts, outside, counts>>

\* What is in the staging directory becomes the checkout, unless one is there by
\* now or another one has removed it.
RenameStaged(r) ==
  /\ Registering(r, "rename")
  /\ staging' = [staging EXCEPT ![Directory(r)] = NoRepository]
  /\ IF checkouts[Directory(r)] = NoRepository /\ staging[Directory(r)] # NoRepository
     THEN /\ checkouts' = [checkouts EXCEPT ![Directory(r)] = staging[Directory(r)]]
          /\ GoesTo(r, "identity")
     ELSE UNCHANGED checkouts /\ Proceeds(r, NotRegistering)
  /\ UNCHANGED <<registry, outside, counts>>

-----------------------------------------------------------------------------
\* Mutant of OriginMatches: any checkout will do.
AnyOrigin(r) == checkouts[Directory(r)] # NoRepository

OriginMatches(r) == checkouts[Directory(r)] = RepositoryOf[registering[r].project]

\* _verify_checkout_identity
VerifyCheckout(r) ==
  /\ Registering(r, "identity")
  /\ IF OriginMatches(r) THEN GoesTo(r, "labels") ELSE Proceeds(r, NotRegistering)
  /\ UNCHANGED <<workspace, outside, counts>>

\* _ensure_labels, which may be made again.
EnsureLabels(r) ==
  /\ Registering(r, "labels")
  /\ labelled' = labelled \cup {RepositoryOf[registering[r].project]}
  /\ GoesTo(r, "load")
  /\ UNCHANGED <<workspace, intakeState, service, counts>>

-----------------------------------------------------------------------------
\* register_project

\* The file is loaded and checked once more; a project that is there is left.
LoadRegistry(r) ==
  /\ Registering(r, "load")
  /\ LET p == registering[r].project IN
     IF ~Loads(registry) \/ ~Registrable(p, registry) THEN Proceeds(r, NotRegistering)
     ELSE IF p \in Range(registry) THEN GoesTo(r, "source")
     ELSE Proceeds(r, [at |-> "read", project |-> p, loaded |-> registry])
  /\ UNCHANGED <<workspace, outside, counts>>

\* It is read again, and what was read is written with the project appended.
ReadRegistry(r) ==
  /\ Registering(r, "read")
  /\ Proceeds(r, [at |-> "replace", project |-> registering[r].project, loaded |-> registering[r].loaded,
                  payload |-> Append(registry, registering[r].project)])
  /\ UNCHANGED <<workspace, outside, counts>>

ReplaceRegistry(r) ==
  /\ Registering(r, "replace")
  /\ registry' = registering[r].payload
  /\ displaced' = (displaced \/ registry # registering[r].loaded)
  /\ Proceeds(r, [at |-> "reload", project |-> registering[r].project])
  /\ UNCHANGED <<checkouts, staging, outside, registrations, polls, acknowledged>>

ReloadRegistry(r) ==
  /\ Registering(r, "reload")
  /\ IF Loads(registry) THEN GoesTo(r, "source") ELSE Proceeds(r, NotRegistering)
  /\ UNCHANGED <<workspace, outside, counts>>

\* update_intake_source
RecordSource(r) ==
  /\ Registering(r, "source")
  /\ intakeState' = [intakeState EXCEPT ![KeyOf[registering[r].project]] = "ready"]
  /\ GoesTo(r, "restart")
  /\ UNCHANGED <<workspace, labelled, service, counts>>

-----------------------------------------------------------------------------
\* The service, and the wrapper that starts it again

Started == service' = IF Loads(registry) THEN Range(registry) ELSE {}

RestartAgent(r) ==
  /\ Registering(r, "restart")
  /\ Started
  /\ GoesTo(r, "health")
  /\ UNCHANGED <<workspace, labelled, intakeState, counts>>

\* The wrapper asks the dashboard for the key, and for its source.
CheckHealth(r) ==
  /\ Registering(r, "health")
  /\ LET p == registering[r].project IN
     acknowledged' = IF p \in service /\ intakeState[KeyOf[p]] = "ready" THEN acknowledged \cup {p} ELSE acknowledged
  /\ Proceeds(r, NotRegistering)
  /\ UNCHANGED <<workspace, outside, registrations, polls, displaced>>

\* systemd starts the service after a failure.
AgentFails ==
  /\ Started
  /\ UNCHANGED <<workspace, labelled, intakeState, registering, counts>>

\* poll_once, for one of the projects that it has loaded.
PollProject(p) ==
  /\ p \in service /\ polls < MaxPolls
  /\ polls' = polls + 1
  /\ \E state \in {"ready", "blocked"} : intakeState' = [intakeState EXCEPT ![KeyOf[p]] = state]
  /\ UNCHANGED <<workspace, labelled, service, registering, registrations, acknowledged, displaced>>

\* A command fails; what is in the staging directory of a clone that has begun is
\* removed, whoever has made it ...
RegistrationFails(r) ==
  /\ registering[r].at \in {"clone", "stage", "rename", "identity", "labels", "source"}
  /\ staging' = IF registering[r].at \in {"stage", "rename"}
                THEN [staging EXCEPT ![Directory(r)] = NoRepository]
                ELSE staging
  /\ Proceeds(r, NotRegistering)
  /\ UNCHANGED <<registry, checkouts, outside, counts>>

\* ... or the process dies, and what it has made stays.
RegistrationDies(r) ==
  /\ registering[r] # NotRegistering
  /\ Proceeds(r, NotRegistering)
  /\ UNCHANGED <<workspace, outside, counts>>

RegistrarStep(r) ==
  \/ \E p \in Enrolments : StartRegistration(r, p)
  \/ ReuseCheckout(r) \/ BeginClone(r) \/ CloneStaged(r) \/ RenameStaged(r)
  \/ VerifyCheckout(r) \/ EnsureLabels(r)
  \/ LoadRegistry(r) \/ ReadRegistry(r) \/ ReplaceRegistry(r) \/ ReloadRegistry(r) \/ RecordSource(r)
  \/ RestartAgent(r) \/ CheckHealth(r)
  \/ RegistrationFails(r) \/ RegistrationDies(r)

RegistryNext ==
  \/ \E r \in Registrars : RegistrarStep(r)
  \/ AgentFails
  \/ \E p \in Enrolments : PollProject(p)

RegistrySpec == RegistryInit /\ [][RegistryNext]_registryVars

-----------------------------------------------------------------------------
\* The values that the tables and the file system may have.
RegistryTypeOK ==
  /\ Range(registry) \subseteq Enrolments
  /\ checkouts \in [Directories -> {NoRepository} \cup Range(RepositoryOf)]
  /\ staging \in [Directories -> {NoRepository} \cup Range(RepositoryOf)]
  /\ intakeState \in [Keys -> {"none", "ready", "blocked"}]
  /\ service \subseteq Enrolments

\* What is enrolled has a checkout of its own repository, with the labels, to
\* whatever state the commands before have brought the workspace
\* (registration.py: "Checkout origin does not match registered repository").
\* Unless the file was replaced although it had changed since it was checked, the
\* service can load it, no project is lost from it or in it twice, and what was
\* reported as active is served from then on: "Re-running the exact registration
\* is safe" (docs/agent-platform.md:155).
RegistryHolds ==
  /\ RegistryTypeOK
  /\ \A p \in Range(registry) \cup service :
       checkouts[DirectoryOf[p]] = RepositoryOf[p] /\ RepositoryOf[p] \in labelled
  /\ ~displaced =>
       /\ Loads(registry) /\ Seed \in Range(registry)
       /\ service # {}
       /\ acknowledged \subseteq Range(registry) \cap service
=============================================================================
