--------------------------- MODULE StagingImports ---------------------------
(***************************************************************************)
(* The imports into the staging system: the tender folders of the Drive    *)
(* (services/drive_tender_import.py), the Fernie package                   *)
(* (fernie_staging_import.py), a fuel revision                             *)
(* (fuel_estimate_staging_import.py) and the Bennett estimates             *)
(* (bennett_strata_staging_import.py).  Each is a command that reads the   *)
(* tables, finds what it made before, and commits once; each has a lock    *)
(* file of its own, so that two of them may overlap, and the office works  *)
(* beside them.  A manifest maps the ids of folders to their name and      *)
(* files; folders of one tender are put together, and one that cannot be   *)
(* told apart is left for a person.                                        *)
(***************************************************************************)
EXTENDS Naturals, FiniteSets, SequencesExt, TLC

CONSTANTS
  Names,           \* normalised names of tenders, numbered in alphabetical order
  Files,           \* Drive files, numbered in the order of their names
  NoReference,
  NameReference,   \* [Names -> references]: the tender number in a name
  FileReference,   \* [Files -> references]
  Signature,       \* [Files -> names of files without case and punctuation]
  NameLength,
  Overlapping,     \* pairs of names that share three words, or two that matter
  Aliases,         \* pairs of names with two similar words
  Manifests,       \* the manifests that are checked in, one after the other
  Listings,        \* the manifests that the grouping is looked at for
  FernieFolders, FernieTitle,
  FuelName, FuelNumber, FuelFiles,   \* the estimate and its replacement
  BennettName,
  MaxRuns, MaxOffice

ASSUME FoldersAssumption == Names \subseteq Nat /\ Files \subseteq Nat

ASSUME ImportsAssumption ==
  /\ FernieFolders # {} /\ {FernieTitle, FuelName, BennettName} \subseteq Names
  /\ {MaxRuns, MaxOffice} \subseteq Nat

VARIABLES
  manifest,
  store,        \* the tables: functions from ids to rows; next: the next id
  run,          \* what each import has read and is about to commit
  runs, office, \* count what MaxRuns and MaxOffice bound
  regrouped,    \* history: a name changed, or a folder or a file was taken away
  overlapped,   \* history: two imports ran at a time
  settled       \* history: the last change was the commit of this import

importVars == <<manifest, store, run, runs, office, regrouped, overlapped, settled>>

Importers == {"drive", "fernie", "fuel", "bennett"}
Tables == {"projects", "documents", "tenders", "packages", "bids"}
NoRun == [at |-> "idle"]
NoRow == 0

NoRows == [id \in {} |-> 0]
EmptyStore == [t \in Tables |-> NoRows] @@ ("next" :> 1)

ImportsInit ==
  /\ manifest \in Manifests
  /\ store = EmptyStore
  /\ run = [k \in Importers |-> NoRun]
  /\ runs = 0 /\ office = 0
  /\ regrouped = FALSE /\ overlapped = FALSE
  /\ settled = "none"

Insert(s, table, row) == [s EXCEPT ![table] = (s.next :> row) @@ @, !.next = @ + 1]
SetRow(s, table, id, row) == [s EXCEPT ![table][id] = row]

\* One row is taken as it is; a new one gets the next id.
Upsert(s, table, ids, row) ==
  IF ids = {} THEN Insert(s, table, row) ELSE SetRow(s, table, CHOOSE i \in ids : TRUE, row)
Upserted(s, ids) == IF ids = {} THEN s.next ELSE CHOOSE i \in ids : TRUE

Done(s) == [ok |-> TRUE, store |-> s]
Refused(s) == [ok |-> FALSE, store |-> s]
DocumentsOf(s, x) == {i \in DOMAIN s.documents : s.documents[i].file = x}
Several(ids) == Cardinality(ids) > 1

----------------------------------------------------------------------------
\* What the Drive import makes of a manifest of tender folders

\* _folder_references
FolderReferences(m, f) ==
  ({NameReference[m[f].name]} \cup {FileReference[x] : x \in m[f].files}) \ {NoReference}

Signatures(m, f) == {Signature[x] : x \in m[f].files}

\* _strong_match
StrongMatch(m, f, g) ==
  \/ FolderReferences(m, f) \cap FolderReferences(m, g) # {}
  \/ {m[f].name, m[g].name} \in Overlapping
  \/ Cardinality(Signatures(m, f) \cap Signatures(m, g)) >= 2

\* _weak_alias
WeakAlias(m, f, g) == {m[f].name, m[g].name} \in Aliases

\* The groups that a folder belongs to become one group with it.
Joined(m, groups, f) ==
  LET matching == {g \in groups : \E h \in g : StrongMatch(m, f, h)}
  IN (groups \ matching) \cup {{f} \cup UNION matching}

Ascending(ids) == SetToSortSeq(ids, LAMBDA a, b : a < b)

\* plan_import: the folders are taken in the order of their ids.
Groups(m) == FoldLeft(LAMBDA groups, f : Joined(m, groups, f), {}, Ascending(DOMAIN m))

\* An empty folder on its own, whose name is like another one's.
Ambiguous(m, group, groups) ==
  /\ Cardinality(group) = 1 /\ \A f \in group : m[f].files = {}
  /\ \E other \in groups \ {group}, f \in group : \E h \in other : WeakAlias(m, f, h)

\* _canonical_rank: a reference in the name, its length, the number of files,
\* the name.
RanksBelow(m, f, g) ==
  LET referenced(h) == NameReference[m[h].name] # NoReference
      length(h) == NameLength[m[h].name]
  IN \/ ~referenced(f) /\ referenced(g)
     \/ referenced(f) = referenced(g) /\ length(f) < length(g)
     \/ /\ referenced(f) = referenced(g) /\ length(f) = length(g)
        /\ \/ Cardinality(m[f].files) < Cardinality(m[g].files)
           \/ /\ Cardinality(m[f].files) = Cardinality(m[g].files)
              /\ m[f].name < m[g].name

Canonical(m, group) ==
  LET best == {f \in group : \A g \in group : ~RanksBelow(m, f, g)} IN Ascending(best)[1]

\* _unique_files
UniqueFiles(m, group) == UNION {m[f].files : f \in group}

\* _canonical_reference: of the name, else of the other names, else of a file.
CanonicalReference(m, group) ==
  LET candidates == <<NameReference[m[Canonical(m, group)].name]>>
                    \o [i \in 1..Cardinality(group) |-> NameReference[m[Ascending(group)[i]].name]]
                    \o LET files == Ascending(UniqueFiles(m, group))
                       IN [i \in DOMAIN files |-> FileReference[files[i]]]
      found == {i \in DOMAIN candidates : candidates[i] # NoReference}
  IN IF found = {} THEN NoReference ELSE candidates[Ascending(found)[1]]

Decision(m, group) ==
  [name |-> m[Canonical(m, group)].name, reference |-> CanonicalReference(m, group),
   folders |-> group, files |-> UniqueFiles(m, group)]

\* The groups that are ambiguous are reported and take no part in the import.
Decisions(m) ==
  LET groups == Groups(m) IN {Decision(m, g) : g \in {g \in groups : ~Ambiguous(m, g, groups)}}

\* By name, then by the ids.
Plan(m) ==
  SetToSortSeq(Decisions(m), LAMBDA a, b :
    \/ a.name < b.name
    \/ a.name = b.name /\ Ascending(a.folders)[1] < Ascending(b.folders)[1])

----------------------------------------------------------------------------
\* The Drive import

\* _matching_projects
MatchingProjects(s, d) ==
  {p \in DOMAIN s.projects :
     \/ s.projects[p].meta.sources \cap d.folders # {}
     \/ d.reference # NoReference /\ s.projects[p].number = d.reference
     \/ s.projects[p].name = d.name}

\* _project_metadata
SourcesOf(d) == d.folders

\* A file whose document belongs to the project, or that has none yet.
Linked(s, p, x) ==
  IF DocumentsOf(s, x) = {}
  THEN Insert(s, "documents", [file |-> x, project |-> p, archived |-> FALSE, package |-> NoRow])
  ELSE s

\* One decision: the project is created or updated, then its files are linked.
\* More than one project is left to a person.
Decide(s, d) ==
  LET matches == MatchingProjects(s, d)
      p == Upserted(s, matches)
      old == IF matches = {}
             THEN [name |-> d.name, number |-> NoReference, status |-> "tendering",
                   meta |-> [sources |-> {}, marks |-> {}]]
             ELSE s.projects[p]
      new == [old EXCEPT !.number = IF @ = NoReference THEN d.reference ELSE @,
                         !.meta.sources = SourcesOf(d)]
  IN IF Several(matches) THEN s
     ELSE FoldLeft(LAMBDA t, x : Linked(t, p, x), Upsert(s, "projects", matches, new), Ascending(d.files))

\* import_drive_tenders
DriveImport(s, m) == FoldLeft(Decide, s, Plan(m))

----------------------------------------------------------------------------
\* The Fernie package

FernieProjects(s) ==
  {p \in DOMAIN s.projects :
     s.projects[p].meta.sources \cap FernieFolders # {} \/ s.projects[p].name = FernieTitle}

\* _find_tender: the project's only one, or the only one of the import.
FernieTenders(s, ps) ==
  LET own == {t \in DOMAIN s.tenders : s.tenders[t].project \in ps}
      sourced == {t \in own : s.tenders[t].source = "fernie"}
  IN IF Several(own) /\ Cardinality(sourced) = 1 THEN sourced ELSE own

\* _find_rfq_package: the tender's, or the import's.
FerniePackages(s, ps, ts) ==
  LET linked == {s.tenders[t].package : t \in ts} \ {NoRow} IN
  IF linked # {} THEN linked
  ELSE {k \in DOMAIN s.packages : s.packages[k].project \in ps /\ s.packages[k].source = "fernie"}

\* _find_bid: the import's, or the only one of the tender.
FernieBids(s, ps, ts) ==
  LET own == {b \in DOMAIN s.bids : s.bids[b].project \in ps}
      sourced == {b \in own : s.bids[b].source = "fernie"}
      linked == {b \in own : s.bids[b].tender \in ts}
  IN IF sourced # {} THEN sourced ELSE IF Several(linked) THEN {} ELSE linked

\* _upsert_rfq_package, _upsert_tender, _upsert_bid and _link_documents.
FernieRows(s, p, ts, m) ==
  LET ks == FerniePackages(s, {p}, ts)
      k == Upserted(s, ks)
      s1 == Upsert(s, "packages", ks, [project |-> IF ks = {} THEN p ELSE s.packages[k].project, source |-> "fernie"])
      us == FernieTenders(s1, {p})
      t == Upserted(s1, us)
      s2 == Upsert(s1, "tenders", us,
                   [project |-> p, package |-> k, source |-> "fernie",
                    number |-> IF us = {} THEN NoReference ELSE s1.tenders[t].number])
      bs == FernieBids(s2, {p}, {t})
      b == Upserted(s2, bs)
      s3 == Upsert(s2, "bids", bs,
                   [project |-> p, tender |-> t, source |-> "fernie",
                    sent |-> bs # {} /\ s2.bids[b].sent, edited |-> bs # {} /\ s2.bids[b].edited])
      mine == {i \in DOMAIN s3.documents :
                 /\ s3.documents[i].project = p
                 /\ s3.documents[i].file \in UniqueFiles(m, FernieFolders)}
  IN IF Several(ks) \/ Several(us) \/ Several(bs) THEN Refused(s)
     ELSE Done([s3 EXCEPT !.documents = [i \in DOMAIN @ |-> IF i \in mine THEN [@[i] EXCEPT !.package = k] ELSE @[i]]])

\* import_fernie_bid_package: what is found is checked before the folders are
\* imported, and the project once more after.
FernieImport(s, m) ==
  LET before == FernieProjects(s)
      ts == FernieTenders(s, before)
      s1 == DriveImport(s, [f \in FernieFolders |-> m[f]])
      ps == FernieProjects(s1)
      p == CHOOSE i \in ps : TRUE
      row == [s1.projects[p] EXCEPT !.name = FernieTitle, !.status = "opportunity"]
  IN IF \/ ~(FernieFolders \subseteq DOMAIN m) \/ Several(before) \/ Several(ts)
        \/ Several(FerniePackages(s, before, ts)) \/ Several(FernieBids(s, before, ts))
        \/ Cardinality(ps) # 1
     THEN Refused(s)
     ELSE FernieRows(SetRow(s1, "projects", p, row), p, ts, m)

----------------------------------------------------------------------------
\* A fuel revision

FuelProjects(s) ==
  {p \in DOMAIN s.projects :
     \/ s.projects[p].number = FuelNumber
     \/ s.projects[p].name = FuelName
     \/ "fuel" \in s.projects[p].meta.marks}

\* A tender with the number is taken, whatever project it belongs to.
FuelTenders(s, ps) ==
  {t \in DOMAIN s.tenders : s.tenders[t].number = FuelNumber \/ s.tenders[t].project \in ps}

\* Mutant of FuelBids: a draft is taken before the bid of the last run.
FuelBidsAny(s, ps, ts) ==
  {b \in DOMAIN s.bids : s.bids[b].project \in ps /\ ~s.bids[b].sent}

\* The bid of an earlier run, or a draft that was not sent.
FuelBids(s, ps, ts) ==
  LET own == {b \in DOMAIN s.bids : s.bids[b].project \in ps}
      sourced == {b \in own : s.bids[b].source = "fuel"}
      drafts == {b \in own : ~s.bids[b].sent /\ (ts = {} \/ s.bids[b].tender \in ts \cup {NoRow})}
  IN IF sourced # {} THEN sourced ELSE drafts

\* _upsert_document: the baseline is archived, its replacement registered.
FuelDocument(s, p, x) ==
  LET ids == DocumentsOf(s, x)
      package == IF ids = {} THEN NoRow ELSE s.documents[Upserted(s, ids)].package
  IN Upsert(s, "documents", ids,
            [file |-> x, project |-> p, archived |-> x = FuelFiles[1], package |-> package])

\* import_fuel_estimate_revisions; the closing date may have passed.
FuelImport(s, status) ==
  LET ps == FuelProjects(s)
      ts == FuelTenders(s, ps)
      bs == FuelBids(s, ps, ts)
      p == Upserted(s, ps)
      old == IF ps = {} THEN [sources |-> {}, marks |-> {}] ELSE s.projects[p].meta
      s1 == Upsert(s, "projects", ps,
                   [name |-> FuelName, number |-> FuelNumber, status |-> status,
                    meta |-> [old EXCEPT !.marks = @ \cup {"fuel"}]])
      t == Upserted(s1, ts)
      s2 == Upsert(s1, "tenders", ts,
                   [project |-> p, number |-> FuelNumber,
                    source |-> IF ts = {} THEN "fuel" ELSE s1.tenders[t].source,
                    package |-> IF ts = {} THEN NoRow ELSE s1.tenders[t].package])
      s3 == Upsert(s2, "bids", bs,
                   [project |-> p, tender |-> t, source |-> "fuel",
                    sent |-> bs # {} /\ s2.bids[Upserted(s2, bs)].sent,
                    edited |-> bs # {} /\ s2.bids[Upserted(s2, bs)].edited])
      elsewhere == {i \in DOMAIN s.documents :
                      s.documents[i].file \in {FuelFiles[1], FuelFiles[2]} /\ s.documents[i].project # p}
  IN IF \/ Several(ps) \/ Several(ts) \/ Several(bs) \/ (ps # {} /\ elsewhere # {})
        \/ \E n \in {1, 2} : Several(DocumentsOf(s, FuelFiles[n]))
     THEN Refused(s)
     ELSE Done(FuelDocument(FuelDocument(s3, p, FuelFiles[1]), p, FuelFiles[2]))

----------------------------------------------------------------------------
\* The Bennett estimates

BennettProjects(s) ==
  {p \in DOMAIN s.projects : "bennett" \in s.projects[p].meta.marks \/ s.projects[p].name = BennettName}

BennettBids(s, p, key) ==
  {b \in DOMAIN s.bids : s.bids[b].project = p /\ s.bids[b].source = key}

BennettBid(s, p, key) ==
  IF BennettBids(s, p, key) # {} THEN s
  ELSE Insert(s, "bids", [project |-> p, tender |-> NoRow, source |-> key,
                          sent |-> FALSE, edited |-> FALSE])

\* import_bennett_strata_estimates: the project must be an opportunity still,
\* and a workspace that was edited is left to a person.
BennettImport(s) ==
  LET ps == BennettProjects(s)
      p == Upserted(s, ps)
      old == IF ps = {} THEN [name |-> BennettName, number |-> NoReference, status |-> "opportunity",
                              meta |-> [sources |-> {}, marks |-> {}]]
             ELSE s.projects[p]
      s1 == Upsert(s, "projects", ps, [old EXCEPT !.name = BennettName, !.meta.marks = @ \cup {"bennett"}])
      found == BennettBids(s, p, "concrete") \cup BennettBids(s, p, "asphalt")
  IN IF \/ Several(ps) \/ old.status # "opportunity" \/ \E b \in found : s.bids[b].edited
        \/ \E key \in {"concrete", "asphalt"} : Several(BennettBids(s, p, key))
     THEN Refused(s)
     ELSE Done(BennettBid(BennettBid(s1, p, "concrete"), p, "asphalt"))

----------------------------------------------------------------------------
\* The commands

Results(k, s, m) ==
  CASE k = "drive" -> {Done(DriveImport(s, m))}
    [] k = "fernie" -> {FernieImport(s, m)}
    [] k = "fuel" -> {FuelImport(s, status) : status \in {"tendering", "opportunity"}}
    [] OTHER -> {BennettImport(s)}

\* _exclusive_import_lock: one run of a command at a time, which reads the
\* tables and may find them in a state that is left to a person.
BeginImport(k) ==
  /\ run[k] = NoRun /\ runs < MaxRuns
  /\ runs' = runs + 1
  /\ \E r \in Results(k, store, manifest) :
       /\ r.ok
       /\ run' = [run EXCEPT ![k] = [at |-> "commit", seen |-> store, new |-> r.store]]
       /\ store' = [store EXCEPT !.next = r.store.next]
  /\ overlapped' = (overlapped \/ \E j \in Importers : run[j] # NoRun)
  /\ UNCHANGED <<manifest, office, regrouped, settled>>

\* A row is written in the columns that the import has changed.
Written(row, seen, new) == [c \in DOMAIN row |-> IF new[c] = seen[c] THEN row[c] ELSE new[c]]

Merged(table, seen, new) ==
  [id \in DOMAIN table \cup DOMAIN new |->
     IF id \notin DOMAIN table THEN new[id]
     ELSE IF id \notin DOMAIN seen THEN table[id]
     ELSE Written(table[id], seen[id], new[id])]

CommitImport(k) ==
  /\ run[k] # NoRun
  /\ store' = [t \in Tables |-> Merged(store[t], run[k].seen[t], run[k].new[t])] @@ ("next" :> store.next)
  /\ run' = [run EXCEPT ![k] = NoRun]
  /\ settled' = IF \A t \in Tables : store[t] = run[k].seen[t] THEN k ELSE "none"
  /\ UNCHANGED <<manifest, runs, office, regrouped, overlapped>>

\* A dry run is rolled back, and so is a run whose process dies.
RollBack(k) ==
  /\ run[k] # NoRun
  /\ run' = [run EXCEPT ![k] = NoRun]
  /\ UNCHANGED <<manifest, store, runs, office, regrouped, overlapped, settled>>

----------------------------------------------------------------------------
\* The Drive and the office

Extends(m, old) ==
  \A f \in DOMAIN old :
    f \in DOMAIN m /\ m[f].name = old[f].name /\ old[f].files \subseteq m[f].files

\* The manifest is refreshed from the Drive and deployed, between the runs.
RefreshManifest ==
  /\ \A k \in Importers : run[k] = NoRun
  /\ \E m \in Manifests \ {manifest} :
       /\ manifest' = m
       /\ regrouped' = (regrouped \/ ~Extends(m, manifest))
  /\ settled' = "none"
  /\ UNCHANGED <<store, run, runs, office, overlapped>>

OfficeWrites(s) ==
  /\ office < MaxOffice /\ office' = office + 1
  /\ store' = s
  /\ settled' = "none"
  /\ UNCHANGED <<manifest, run, runs, overlapped>>

RenameProject ==
  /\ \E p \in DOMAIN store.projects, n \in Names :
       n # store.projects[p].name /\ OfficeWrites([store EXCEPT !.projects[p].name = n])
  /\ regrouped' = TRUE

AwardProject ==
  /\ \E p \in DOMAIN store.projects : OfficeWrites([store EXCEPT !.projects[p].status = "awarded"])
  /\ UNCHANGED regrouped

NewTender ==
  /\ \E p \in DOMAIN store.projects :
       OfficeWrites(Insert(store, "tenders", [project |-> p, number |-> NoReference, source |-> "office", package |-> NoRow]))
  /\ UNCHANGED regrouped

NewBid ==
  /\ \E p \in DOMAIN store.projects, t \in {NoRow} \cup DOMAIN store.tenders :
       /\ t # NoRow => store.tenders[t].project = p
       /\ OfficeWrites(Insert(store, "bids", [project |-> p, tender |-> t, source |-> "office", sent |-> FALSE, edited |-> FALSE]))
  /\ UNCHANGED regrouped

ChangeBid ==
  /\ \E b \in DOMAIN store.bids, c \in {"sent", "edited"} : OfficeWrites([store EXCEPT !.bids[b][c] = TRUE])
  /\ UNCHANGED regrouped

ImportsNext ==
  \/ \E k \in Importers : BeginImport(k) \/ CommitImport(k) \/ RollBack(k)
  \/ RefreshManifest
  \/ RenameProject \/ AwardProject \/ NewTender \/ NewBid \/ ChangeBid

ImportsSpec == ImportsInit /\ [][ImportsNext]_importVars

----------------------------------------------------------------------------
\* The rows refer to rows that exist, and no run commits what it has not read.
ImportsTypeOK ==
  /\ \A i \in DOMAIN store.documents : store.documents[i].project \in DOMAIN store.projects
  /\ \A t \in DOMAIN store.tenders :
       /\ store.tenders[t].project \in DOMAIN store.projects
       /\ store.tenders[t].package \in {NoRow} \cup DOMAIN store.packages
  /\ \A b \in DOMAIN store.bids : store.bids[b].tender \in {NoRow} \cup DOMAIN store.tenders

Sourced(table, k) == {i \in DOMAIN store[table] : store[table][i].source = k}

\* However often they are run, the imports make each thing once.
LinkedOnce == \A x \in Files : ~Several(DocumentsOf(store, x))

MadeOnce ==
  /\ Cardinality(Sourced("packages", "fernie")) <= 1
  /\ \A k \in {"fernie", "fuel"} : Cardinality(Sourced("tenders", k)) <= 1
  /\ \A k \in {"fernie", "fuel", "concrete", "asphalt"} : Cardinality(Sourced("bids", k)) <= 1

\* A run commits all of its rows or none.
MadeWhole ==
  /\ Sourced("bids", "concrete") # {} <=> Sourced("bids", "asphalt") # {}
  /\ Sourced("packages", "fernie") # {} => Sourced("bids", "fernie") # {}
  /\ Sourced("bids", "fuel") # {} =>
       \A n \in {1, 2} : \E i \in DOMAIN store.documents : store.documents[i].file = FuelFiles[n]

\* "After apply, run the command again in dry-run mode": it finds nothing to do
\* (docs/operations/drive-tender-import.md:42).
NothingToDo ==
  settled = "none" \/ \E r \in Results(settled, store, manifest) : r.ok /\ r.store = store

\* The groups of a manifest are its folders, put together by the strong matches
\* and by nothing else: no match leads out of a group, and no group falls apart.
GroupsAreComponents(m) ==
  LET groups == Groups(m) IN
  /\ UNION groups = DOMAIN m
  /\ \A g, h \in groups : g # h => g \cap h = {} /\ \A x \in g, y \in h : ~StrongMatch(m, x, y)
  /\ \A g \in groups : \A part \in (SUBSET g) \ {{}, g} :
       \E x \in part, y \in g \ part : StrongMatch(m, x, y)

ListingsAreGrouped == \A m \in Listings \cup Manifests : GroupsAreComponents(m)

\* The folders of one tender are one group.  Unless two imports overlap, a file
\* of the Drive is linked once; and while no name changes and no folder is taken
\* away, no import makes a thing twice or by halves, and one that is repeated
\* changes nothing.
ImportsHold ==
  /\ ImportsTypeOK
  /\ ListingsAreGrouped
  /\ ~overlapped => LinkedOnce
  /\ ~overlapped /\ ~regrouped => MadeOnce /\ MadeWhole /\ NothingToDo
=============================================================================
