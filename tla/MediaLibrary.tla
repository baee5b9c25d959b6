---------------------------- MODULE MediaLibrary ----------------------------
(***************************************************************************)
(* Documents, their stored files and the versions of one photo that is     *)
(* kept as evidence (services/documents.py, media.py, media_access.py and  *)
(* file_storage.py).  A file is stored before its document is committed,   *)
(* the document before the photo or the version that it belongs to, and    *)
(* none of it is locked: an edit is a read, perhaps an upload, and a       *)
(* commit.                                                                 *)
(***************************************************************************)
EXTENDS Naturals, Sequences, FiniteSets

CONSTANTS
  Editors,        \* concurrent requests
  Sites,          \* projects; each has one field record that photos link to
  MaxDocuments, MaxVersions

ASSUME LibraryAssumption == MaxDocuments \in Nat /\ MaxVersions \in Nat /\ Sites # {}

VARIABLES
  documents,   \* the rows, in order of creation: the columns edited since the upload
  asset,       \* the row of media_assets
  versions,    \* its media_versions, by version_number
  photoLinks,  \* its media_record_links: the site of each linked record
  editing,     \* the requests under way
  outOfDate    \* history: an edit was committed whose reads were out of date

libraryVars == <<documents, asset, versions, photoLinks, editing, outOfDate>>

Categories == {"job_photo", "incident"}
Controlled == {"incident"}
NoAsset == [original |-> 0, current |-> 0, site |-> CHOOSE s \in Sites : TRUE,
            kind |-> "job_photo", controlled |-> FALSE]
NotEditing == [at |-> "idle", outdated |-> FALSE]

LibraryInit ==
  /\ documents = <<>>
  /\ asset = NoAsset
  /\ versions = <<>>
  /\ photoLinks = {}
  /\ editing = [e \in Editors |-> NotEditing]
  /\ outOfDate = FALSE

Advance(e, state) == editing' = [editing EXCEPT ![e] = state]

\* The request ends, and the others under way have read what it has changed.
Committed(e) ==
  /\ editing' = [f \in Editors |-> IF f = e \/ editing[f] = NotEditing THEN NotEditing
                                ELSE [editing[f] EXCEPT !.outdated = TRUE]]
  /\ outOfDate' = (outOfDate \/ editing[e].outdated)

\* _is_media_evidence
Evidence(d) == asset.original = d \/ \E v \in DOMAIN versions : versions[v].document = d

----------------------------------------------------------------------------
\* Uploads

\* upload_document
BeginUpload(e) ==
  /\ editing[e] = NotEditing /\ Len(documents) < MaxDocuments
  /\ Advance(e, [NotEditing EXCEPT !.at = "store"])
  /\ UNCHANGED <<documents, asset, versions, photoLinks, outOfDate>>

Stored(e) == Len(documents) < MaxDocuments /\ documents' = Append(documents, {})

\* store_upload writes the file, and create_document commits the row before
\* anything refers to it.  create_assets goes on to register it.
StoreDocument(e) ==
  /\ editing[e].at = "store" /\ Stored(e)
  /\ \E next \in {NotEditing, [at |-> "register", outdated |-> FALSE, document |-> Len(documents')]} : Advance(e, next)
  /\ UNCHANGED <<asset, versions, photoLinks, outOfDate>>

\* The same for the file of a new version.
StoreVersion(e) ==
  /\ editing[e].at = "storeVersion" /\ Stored(e)
  /\ Advance(e, [editing[e] EXCEPT !.at = "version", !.document = Len(documents')])
  /\ UNCHANGED <<asset, versions, photoLinks, outOfDate>>

\* The file is too large or the storage unavailable: it is unlinked.
StoreFails(e) ==
  /\ editing[e].at \in {"store", "storeVersion"}
  /\ Advance(e, NotEditing)
  /\ UNCHANGED <<documents, asset, versions, photoLinks, outOfDate>>

\* register_document, for a document that was uploaded before
BeginRegister(e, d) ==
  /\ editing[e] = NotEditing /\ asset = NoAsset /\ d \in DOMAIN documents
  /\ Advance(e, [at |-> "register", outdated |-> FALSE, document |-> d])
  /\ UNCHANGED <<documents, asset, versions, photoLinks, outOfDate>>

\* The photo and its first version.
RegisterPhoto(e, site, kind) ==
  /\ editing[e].at = "register" /\ asset = NoAsset
  /\ LET d == editing[e].document IN
     /\ asset' = [original |-> d, current |-> 1, site |-> site, kind |-> kind,
                  controlled |-> kind \in Controlled]
     /\ versions' = <<[document |-> d, parent |-> 0, amends |-> FALSE, as |-> documents[d]]>>
  /\ Committed(e)
  /\ UNCHANGED <<documents, photoLinks>>

\* The document is a photo already, or becomes another one.
RegisterOther(e) ==
  /\ editing[e].at = "register" /\ asset # NoAsset
  /\ Advance(e, NotEditing)
  /\ UNCHANGED <<documents, asset, versions, photoLinks, outOfDate>>

----------------------------------------------------------------------------
\* Versions

\* Mutant of Changed: the row is kept as a whole.
ChangedRow(row) == row

\* The columns that a request has set, to be written by its next flush.
Changed(row) == [c \in {c \in DOMAIN asset : row[c] # asset[c]} |-> row[c]]

\* A request for a new version, made from the photo as it was read.
Revision(at, d, n, row) ==
  [at |-> at, outdated |-> FALSE, document |-> d, number |-> n, parent |-> asset.current,
   amends |-> asset.controlled, set |-> Changed(row)]

MayRevise(e) == editing[e] = NotEditing /\ asset # NoAsset /\ Len(versions) < MaxVersions

\* create_version: the number is read before the file is uploaded.
BeginVersion(e) ==
  /\ MayRevise(e)
  /\ Advance(e, Revision("storeVersion", 0, Len(versions) + 1, asset))
  /\ UNCHANGED <<documents, asset, versions, photoLinks, outOfDate>>

\* restore_version, of the file of an earlier version
BeginRestore(e, v) ==
  /\ MayRevise(e)
  /\ Advance(e, Revision("number", versions[v].document, 0, asset))
  /\ UNCHANGED <<documents, asset, versions, photoLinks, outOfDate>>

\* _validate_existing_link_projects
SameSites(site) == photoLinks \subseteq {site}

\* update_metadata: the project or the category is changed, as a version of the
\* current file.  What was controlled stays so.
BeginMetadata(e, site, kind) ==
  /\ MayRevise(e)
  /\ site # asset.site => SameSites(site)
  /\ Advance(e, Revision("number", versions[asset.current].document, 0,
                  [asset EXCEPT !.site = site, !.kind = kind, !.controlled = @ \/ kind \in Controlled]))
  /\ UNCHANGED <<documents, asset, versions, photoLinks, outOfDate>>

\* _next_version_number
ReadNumber(e) ==
  /\ editing[e].at = "number"
  /\ Advance(e, [editing[e] EXCEPT !.at = "version", !.number = Len(versions) + 1])
  /\ UNCHANGED <<documents, asset, versions, photoLinks, outOfDate>>

\* The flush writes the columns that were set.
WithColumns(row, set) == [c \in DOMAIN row |-> IF c \in DOMAIN set THEN set[c] ELSE row[c]]

\* The version is inserted under its number and becomes the current one.
InsertVersion(e) ==
  /\ editing[e].at = "version" /\ editing[e].number = Len(versions) + 1
  /\ LET d == editing[e].document IN
     versions' = Append(versions, [document |-> d, parent |-> editing[e].parent,
                                   amends |-> editing[e].amends, as |-> documents[d]])
  /\ asset' = WithColumns([asset EXCEPT !.current = editing[e].number], editing[e].set)
  /\ Committed(e)
  /\ UNCHANGED <<documents, photoLinks>>

\* The number was taken; an uploaded document stays, of no version.
VersionClashes(e) ==
  /\ editing[e].at = "version" /\ editing[e].number <= Len(versions)
  /\ Advance(e, NotEditing)
  /\ UNCHANGED <<documents, asset, versions, photoLinks, outOfDate>>

----------------------------------------------------------------------------
\* Links and documents

\* link_asset: record and photo belong to one project; a second link clashes.
BeginLink(e) ==
  /\ editing[e] = NotEditing /\ asset # NoAsset /\ asset.site \notin photoLinks
  /\ Advance(e, [at |-> "link", outdated |-> FALSE, site |-> asset.site])
  /\ UNCHANGED <<documents, asset, versions, photoLinks, outOfDate>>

CommitLink(e) ==
  /\ editing[e].at = "link"
  /\ photoLinks' = photoLinks \cup {editing[e].site}
  /\ Committed(e)
  /\ UNCHANGED <<documents, asset, versions>>

\* update_document: the file and the integrity metadata of evidence are refused;
\* the file that the metadata of a drawing name is not.
BeginPatch(e, d, part) ==
  /\ editing[e] = NotEditing /\ d \in DOMAIN documents
  /\ part \in {"file", "digest"} => ~Evidence(d)
  /\ Advance(e, [at |-> "patch", outdated |-> FALSE, document |-> d,
                 column |-> part])
  /\ UNCHANGED <<documents, asset, versions, photoLinks, outOfDate>>

CommitPatch(e) ==
  /\ editing[e].at = "patch"
  /\ documents' = [documents EXCEPT ![editing[e].document] = @ \cup {editing[e].column}]
  /\ Advance(e, NotEditing)
  /\ outOfDate' = (outOfDate \/ editing[e].outdated)
  /\ UNCHANGED <<asset, versions, photoLinks>>

\* The server dies: what was committed stays.
EditDies(e) ==
  /\ editing[e] # NotEditing /\ Advance(e, NotEditing)
  /\ UNCHANGED <<documents, asset, versions, photoLinks, outOfDate>>

EditStep(e) ==
  \/ BeginUpload(e) \/ StoreDocument(e) \/ StoreVersion(e) \/ StoreFails(e)
  \/ \E d \in DOMAIN documents : BeginRegister(e, d) \/ \E p \in {"file", "digest", "drawing"} : BeginPatch(e, d, p)
  \/ \E s \in Sites, k \in Categories : RegisterPhoto(e, s, k) \/ BeginMetadata(e, s, k)
  \/ RegisterOther(e) \/ BeginVersion(e) \/ \E v \in DOMAIN versions : BeginRestore(e, v)
  \/ ReadNumber(e) \/ InsertVersion(e) \/ VersionClashes(e)
  \/ BeginLink(e) \/ CommitLink(e) \/ CommitPatch(e) \/ EditDies(e)

LibraryNext == \E e \in Editors : EditStep(e)

LibrarySpec == LibraryInit /\ [][LibraryNext]_libraryVars

----------------------------------------------------------------------------
\* The rows have the values that the handlers give them.
LibraryTypeOK ==
  /\ \A d \in DOMAIN documents : documents[d] \subseteq {"file", "digest", "drawing"}
  /\ asset.site \in Sites /\ asset.kind \in Categories /\ photoLinks \subseteq Sites
  /\ \A v \in DOMAIN versions : versions[v].document \in DOMAIN documents

\* A column of a version's document is as it was when the version was made.
Keeps(v, column) == (column \in documents[versions[v].document]) = (column \in versions[v].as)

\* A photo's versions, whatever edits race (services/media.py): the current one
\* is the last, the first is the original upload, each was made from an earlier
\* one, and what is controlled stays so.  Unless an edit was committed over reads
\* that were out of date, each was made from the one before it, the photo is
\* linked to records of its own project, and no update of the document changes
\* the file or the integrity metadata of evidence (as a drawing's it may get
\* another file).
LibraryHolds ==
  /\ LibraryTypeOK
  /\ asset.current = Len(versions)
  /\ asset # NoAsset => versions[1].document = asset.original
  /\ \A v \in DOMAIN versions : versions[v].parent < v /\ (versions[v].amends => asset.controlled)
  /\ ~outOfDate =>
       /\ photoLinks \subseteq {asset.site}
       /\ asset.kind \in Controlled => asset.controlled
       /\ \A v \in DOMAIN versions : versions[v].parent = v - 1 /\ Keeps(v, "file") /\ Keeps(v, "digest")
=============================================================================
