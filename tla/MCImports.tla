------------------------------ MODULE MCImports ------------------------------
(* Small instances of the commands and scripts that import or rewrite the    *)
(* company's records: the staging imports from a Drive, the pilots of a job  *)
(* in staging, the bundles for production, the change of the e-mail domain   *)
(* and the enrolment of repositories.  They run on databases, rows or files  *)
(* of their own, so a behaviour is one of a single subject, and the state    *)
(* space is the sum of theirs, not their product.                            *)
EXTENDS StagingImports, StagingPilots, EmailDomain, ProductionImports, ProjectRegistry, TLC

VARIABLE subject

\* The staging imports read eight files of a Drive, in folders with seven names.

Folder(name, files) == [name |-> name, files |-> files]

MCNameReference == [n \in Names |-> IF n = 4 THEN "C26" ELSE "none"]
MCFileReference == [x \in Files |-> IF x = 6 THEN "C26" ELSE "none"]
MCSignature == [x \in Files |-> IF x > 6 THEN x - 6 ELSE x]
MCNameLength == [n \in Names |-> n]
MCOverlapping == {{2, 3}, {2, 6}, {3, 6}, {1, 7}}
MCAliases == {{1, 4}}
MCFuelFiles == <<3, 4>>

FernieFolderSet == (1 :> Folder(2, {1})) @@ (2 :> Folder(3, {2})) @@ (3 :> Folder(4, {3}))

MCNoTenders == FernieFolderSet @@ (4 :> Folder(1, {}))

MCManifests ==
  {MCNoTenders,
   FernieFolderSet @@ (4 :> Folder(1, {5})),
   FernieFolderSet @@ (4 :> Folder(1, {5})) @@ (5 :> Folder(7, {6}))}

MCListings ==
  [1..4 -> {Folder(1, {}), Folder(1, {5}), Folder(4, {3}), Folder(7, {6}), Folder(2, {1, 2}), Folder(5, {7, 8})}]

MCContactOf == [c \in Contacts |-> "ann"]

\* The second and the third project are to be in one directory.
MCKeyOf == <<"hub", "site", "shop">>
MCRepositoryOf == <<"org/hub", "org/site", "org/shop">>
MCDirectoryOf == <<"hub", "site", "site">>

MCInit ==
  /\ subject \in {"staging", "pilots", "email", "bundle", "registry"}
  /\ ImportsInit /\ PilotsInit /\ EmailInit /\ BundleInit /\ RegistryInit
  /\ subject # "bundle" => bundle = "awarded"
  /\ subject # "staging" => manifest = MCNoTenders

MCNext ==
  \/ subject = "staging" /\ ImportsNext /\ UNCHANGED <<subject, pilotVars, emailVars, bundleVars, registryVars>>
  \/ subject = "pilots" /\ PilotsNext /\ UNCHANGED <<subject, importVars, emailVars, bundleVars, registryVars>>
  \/ subject = "email" /\ EmailNext /\ UNCHANGED <<subject, importVars, pilotVars, bundleVars, registryVars>>
  \/ subject = "bundle" /\ BundleNext /\ UNCHANGED <<subject, importVars, pilotVars, emailVars, registryVars>>
  \/ subject = "registry" /\ RegistryNext /\ UNCHANGED <<subject, importVars, pilotVars, emailVars, bundleVars>>

MCSpec == MCInit /\ [][MCNext]_<<subject, importVars, pilotVars, emailVars, bundleVars, registryVars>>

-----------------------------------------------------------------------------
\* The bounds of each subject.

\* Overlapping runs are looked at without the office, and what the office or a
\* new listing changes with one run after another.
StagingSmall ==
  /\ overlapped => office = 0 /\ ~regrouped /\ runs <= 2
  /\ regrouped \/ office > 0 => runs <= 2

\* A second edit of the office is looked at beside a first and a second attempt,
\* and without the chat and late requests.
BundleSmall ==
  /\ edits = 2 => attempts <= 2 /\ late = NoRequest /\ ~overtaken /\ chat = NoChat /\ invoice.by # "chat"
  /\ edits > 0 /\ overtaken => attempts <= 2

\* Of a second pilot, a late request and the office, one meets a pilot at a time.
PilotsSmall == writes + Cardinality(Active) + (IF unanswered = NoneUnanswered THEN 0 ELSE 1) <= 2

MCSmall ==
  /\ subject = "staging" => StagingSmall
  /\ subject = "bundle" => BundleSmall
  /\ subject = "pilots" => PilotsSmall
==============================================================================
