----------------------------- MODULE DocumentViews -----------------------------
(***************************************************************************)
(* What people see of documents while others change them: lists, page by   *)
(* page, versions and their sources, jobs and their traces                 *)
(* (app/api/ingest_routes.py, the reads of metadata_store.py), with the    *)
(* rules of who may see and replace what (app/api/_common.py, access.py).  *)
(*                                                                         *)
(* An upload is two steps: what it finds, and the transaction that writes. *)
(* A reply is as many steps as the route has reads.  Documents are         *)
(* numbered by created_at, which is when their transaction began, so a     *)
(* number may be taken after a higher one.  What a publication makes of a  *)
(* document, its files and its vectors are in DocumentStore.               *)
(***************************************************************************)
EXTENDS Integers, Sequences, FiniteSets

CONSTANTS
    Principals,      \* [tenant, user, role] each
    Callers,         \* those of them whose lists and replies are followed
    PlatformTenant,  \* the tenant whose administrators may publish to everybody
    Uploads,         \* the uploads asked for
    Requests,        \* uploads under way
    Stock,           \* the documents there are at the start
    MaxSize,         \* max_upload_mb
    MaxLimit,        \* the 200 documents of a page
    Limits,          \* the page sizes asked for
    MaxDocuments,    \* bound: documents ever created
    MaxWrites,       \* bound: uploads, changes of access and deletions
    Omitted,         \* a form field left out, which "" is not
    NoDocument

Missing == "missing"

\* A row of documents.
Rows == [state : {"present"}, tenant : STRING, owner : STRING, sha : STRING \ {Missing}, name : STRING,
         visibility : {"private", "tenant", "shared"}, acl : SUBSET STRING, scope : {"tenant", "global"},
         version : Nat \ {0}, touched : Nat]

ASSUME DocumentViewsAssumption ==
    /\ MaxLimit \in Nat \ {0}
    /\ Limits \subseteq Int
    /\ MaxDocuments \in Nat /\ MaxWrites \in Nat
    /\ Len(Stock) \in 0..MaxDocuments
    /\ \A d \in 1..Len(Stock) : Stock[d].row \in Rows /\ Stock[d].row.version = 1
    /\ \A u \in Uploads : /\ {u.name, u.by.tenant, u.by.user} \subseteq STRING
                          /\ u.sha \in STRING \ {Missing}

VARIABLES
    documents,  \* documents rows, by created_at and id
    history,    \* document_versions rows
    queue,      \* ingestion_jobs rows, by created_at
    request,    \* what an upload found
    reader,     \* what one reader knows between reads, and is told
    writes,     \* bound
    contents,   \* history: the content of each version, by document
    had         \* history: the accesses a document had at its present version

tablesOfViews == <<documents, history, queue>>
viewsVars == <<tablesOfViews, request, reader, writes, contents, had>>

Ids == 1..MaxDocuments
NoUpload == [at |-> "idle"]
Unused == [state |-> "unused"]
Deleted == [state |-> "deleted"]

(***************************************************************************)
(* Who may see, and who may replace.                                       *)
(***************************************************************************)
MayView(row, p) ==
    \/ row.scope = "global"
    \/ p.role = "admin"
    \/ row.owner = p.user
    \/ row.visibility = "tenant"
    \/ row.visibility = "shared" /\ p.user \in row.acl

PresentIn(docs) == {d \in Ids : docs[d].state = "present"}

\* What get_document and list_documents select.
FetchableIn(docs, p) ==
    {d \in PresentIn(docs) : docs[d].tenant = p.tenant \/ docs[d].scope = "global"}

\* ... and _visible_or_404 lets through.
VisibleIn(docs, p) == {d \in FetchableIn(docs, p) : MayView(docs[d], p)}

Fetchable(p) == FetchableIn(documents, p)
Visible(p) == VisibleIn(documents, p)

\* _owned_or_404
Owned(p) == {d \in PresentIn(documents) : documents[d].tenant = p.tenant}

\* An explicit document_id, or 404.
MayReplace(p, d) ==
    /\ d \in Visible(p) \cap Owned(p)
    /\ documents[d].owner = p.user \/ p.role = "admin"

MayIngest(p) == p.role \in {"admin", "member"}
MayRemove(p) == p.role = "admin"

PlatformAdmin(p) == p.tenant = PlatformTenant /\ p.role = "admin"

(***************************************************************************)
(* Uploads.                                                                *)
(***************************************************************************)
\* ingest: what is wrong with the form itself is refused before anything is read.
Accepted(u) ==
    /\ MayIngest(u.by)
    /\ u.visibility \in {Omitted, "private", "tenant"}
    /\ u.scope \in {Omitted, "tenant", "global"}
    /\ u.known
    /\ u.size \in 1..MaxSize

OwnersWith(p, sha) == {d \in Owned(p) : documents[d].owner = p.user /\ documents[d].sha = sha}

\* get_document_by_filename: only the caller's own, and of those the newest.
Newest(p, name) ==
    LET named == {d \in Owned(p) : documents[d].owner = p.user /\ documents[d].name = name}
    IN  {d \in named : \A e \in named : e <= d}

\* _resolve_target_document: the document the upload is a version of, if any.
Target(u) == IF u.document = NoDocument THEN Newest(u.by, u.name) ELSE {u.document}

Given(value, inherited) == IF value = Omitted THEN inherited ELSE value

Active(d) == {j \in DOMAIN queue : queue[j].document = d /\ queue[j].status = "queued"}

\* The access of a new document, or of the next version of one.
AccessOf(u, target) ==
    IF target = {} THEN [visibility |-> Given(u.visibility, "private"), scope |-> Given(u.scope, "tenant")]
    ELSE LET d == CHOOSE t \in target : TRUE
         IN  [visibility |-> Given(u.visibility, documents[d].visibility),
              scope |-> Given(u.scope, documents[d].scope)]

\* Elsewhere: the owner of d has these bytes in another document.
Elsewhere(d, sha) ==
    \E e \in PresentIn(documents) \ {d} :
        /\ documents[e].tenant = documents[d].tenant /\ documents[e].owner = documents[d].owner
        /\ documents[e].sha = sha

\* What _accept_upload finds to do.  The upload that finds nothing to do, or is
\* refused (403, 404, 409), leaves everything as it is.
Found(u, target, access) ==
    IF target = {}
    THEN IF OwnersWith(u.by, u.sha) = {} THEN {[at |-> "create", upload |-> u, access |-> access]} ELSE {}
    ELSE LET d == CHOOSE t \in target : TRUE
             changed == documents[d].visibility # access.visibility \/ documents[d].scope # access.scope
         IN  IF documents[d].sha = u.sha
             THEN IF changed THEN {[at |-> "access", upload |-> u, document |-> d, access |-> access]} ELSE {}
             ELSE IF Active(d) = {} /\ ~Elsewhere(d, u.sha)
                  THEN {[at |-> "update", upload |-> u, document |-> d, access |-> access,
                         version |-> documents[d].version]}
                  ELSE {}

Write == writes < MaxWrites /\ writes' = writes + 1

Resolve(r, u) ==
    /\ request[r] = NoUpload
    /\ Write
    /\ Accepted(u)
    /\ u.document # NoDocument => MayReplace(u.by, u.document)
    /\ u.scope = "global" => PlatformAdmin(u.by)
    /\ \E found \in Found(u, Target(u), AccessOf(u, Target(u))) :
           request' = [request EXCEPT ![r] = found]
    /\ UNCHANGED <<tablesOfViews, reader, contents, had>>

\* A reader who pages through a list: what stayed, whether anything left or joined.
Watched(docs) ==
    IF reader.at # "listing" THEN reader
    ELSE [reader EXCEPT
            !.steady = @ \cap VisibleIn(docs, reader.who),
            !.left = @ \/ ~(Fetchable(reader.who) \subseteq FetchableIn(docs, reader.who)),
            !.joined = @ \/ ~(FetchableIn(docs, reader.who) \subseteq Fetchable(reader.who))]

Changes(docs) == documents' = docs /\ reader' = Watched(docs)

Answered(r) == request' = [request EXCEPT ![r] = NoUpload]

NewJob(d, tenant) ==
    Append(queue, [document |-> d, tenant |-> tenant, status |-> "queued"])

VersionOf(d, version, u) ==
    [document |-> d, version |-> version, sha |-> u.sha, by |-> u.by.user, job |-> Len(queue) + 1]

\* create_document_with_job: refused when the owner has the name or the bytes by now.
CommitNew(r) ==
    /\ request[r].at = "create"
    /\ LET u == request[r].upload
           access == request[r].access
       IN  /\ OwnersWith(u.by, u.sha) = {}
           /\ Newest(u.by, u.name) = {}
           /\ \E d \in Ids :
                /\ documents[d] = Unused
                /\ Changes([documents EXCEPT ![d] =
                     [state |-> "present", tenant |-> u.by.tenant, owner |-> u.by.user, sha |-> u.sha,
                      name |-> u.name, visibility |-> access.visibility, acl |-> {},
                      scope |-> access.scope, version |-> 1, touched |-> writes]])
                /\ history' = history \cup {VersionOf(d, 1, u)}
                /\ queue' = NewJob(d, u.by.tenant)
                /\ contents' = [contents EXCEPT ![d] = <<u.sha>>]
                /\ had' = [had EXCEPT ![d] = {access}]
    /\ Answered(r)
    /\ UNCHANGED writes

Accesses(row) == [visibility |-> row.visibility, scope |-> row.scope]

\* update_document_content_and_queue: refused when the document is gone or busy,
\* has another version by now, or its owner has the bytes elsewhere.
CommitVersion(r) ==
    /\ request[r].at = "update"
    /\ LET d == request[r].document
           u == request[r].upload
           access == request[r].access
       IN  /\ d \in Owned(u.by)
           /\ Active(d) = {}
           /\ documents[d].version = request[r].version
           /\ ~Elsewhere(d, u.sha)
           /\ Changes([documents EXCEPT ![d] =
                [documents[d] EXCEPT !.sha = u.sha, !.name = u.name, !.visibility = access.visibility,
                                     !.scope = access.scope, !.version = documents[d].version + 1,
                                     !.touched = writes]])
           /\ history' = history \cup {VersionOf(d, documents[d].version + 1, u)}
           /\ queue' = NewJob(d, documents[d].tenant)
           /\ contents' = [contents EXCEPT ![d] = Append(@, u.sha)]
           /\ had' = [had EXCEPT ![d] = {access}]
    /\ Answered(r)
    /\ UNCHANGED writes

\* update_document_access: the version stays what it is.
CommitAccess(r) ==
    /\ request[r].at = "access"
    /\ LET d == request[r].document
           access == request[r].access
       IN  /\ d \in Owned(request[r].upload.by)
           /\ Changes([documents EXCEPT ![d] =
                [documents[d] EXCEPT !.visibility = access.visibility, !.scope = access.scope,
                                     !.touched = writes]])
           /\ had' = [had EXCEPT ![d] = @ \cup {access}]
    /\ Answered(r)
    /\ UNCHANGED <<history, queue, writes, contents>>

\* A refusal, an error or a crash.
GiveUp(r) ==
    /\ request[r] # NoUpload
    /\ Answered(r)
    /\ UNCHANGED <<tablesOfViews, reader, writes, contents, had>>

\* scripts/set_visibility.py: some documents of a tenant, or all of them.
SetVisibility(tenant, visibility, chosen) ==
    /\ Write
    /\ LET changing == {d \in PresentIn(documents) :
               d \in chosen /\ documents[d].tenant = tenant /\ documents[d].visibility # visibility}
           changed == [d \in Ids |-> IF d \in changing THEN [documents[d] EXCEPT !.visibility = visibility]
                                     ELSE documents[d]]
       IN  /\ changing # {}
           /\ Changes(changed)
           /\ had' = [d \in Ids |-> IF d \in changing THEN had[d] \cup {Accesses(changed[d])} ELSE had[d]]
    /\ UNCHANGED <<history, queue, request, contents>>

\* delete_document, the rows: versions and jobs go with the document.
DeleteDocument(p, d) ==
    /\ Write
    /\ MayRemove(p)
    /\ d \in Fetchable(p) \cap Owned(p)
    /\ Changes([documents EXCEPT ![d] = Deleted])
    /\ history' = {v \in history : v.document # d}
    /\ queue' = [j \in DOMAIN queue |->
                   IF queue[j].document = d THEN [queue[j] EXCEPT !.status = "deleted"] ELSE queue[j]]
    /\ UNCHANGED <<request, contents, had>>

(***************************************************************************)
(* Runs: only that they end (JobQueue, JobTrace).                          *)
(***************************************************************************)
SettleJob(j) ==
    /\ queue[j].status = "queued"
    /\ queue' = [queue EXCEPT ![j].status = "settled"]
    /\ UNCHANGED <<documents, history, request, reader, writes, contents, had>>

(***************************************************************************)
(* Readers.                                                                *)
(***************************************************************************)
\* Defect: the list is ordered by updated_at.
PageByUpdate(p, limit, offset) ==
    LET Later(d) == {e \in Fetchable(p) :
            \/ documents[e].touched > documents[d].touched
            \/ documents[e].touched = documents[d].touched /\ e > d}
    IN  {d \in Fetchable(p) : Cardinality(Later(d)) \in offset..(offset + limit - 1)}

\* Those that a list has before d: the newer ones.
Before(p, d) == {e \in Fetchable(p) : e > d}

\* metadata.list_documents, without the jobs it joins: LIMIT and OFFSET count what the
\* caller may not see, too.  A page is a set, whose rows are told newest first.
Page(p, limit, offset) ==
    {d \in Fetchable(p) : Cardinality(Before(p, d)) \in offset..(offset + limit - 1)}

\* The route's own page, filtered by can_view.
ListDocuments(p, limit, offset) == Page(p, limit, offset) \cap Visible(p)

PageSize(limit) == IF limit < 1 THEN 1 ELSE IF limit > MaxLimit THEN MaxLimit ELSE limit

ReaderStays == UNCHANGED <<tablesOfViews, request, writes, contents, had>>

OpenList(p, limit) ==
    /\ reader.at = "none"
    /\ reader' = [at |-> "listing", who |-> p, limit |-> PageSize(limit), offset |-> 0, seen |-> <<>>,
                  steady |-> Visible(p), left |-> FALSE, joined |-> FALSE]
    /\ ReaderStays

\* A page may be short or empty before the end: the caller asks on.
NextPage ==
    /\ reader.at = "listing"
    /\ reader' =
         IF reader.offset >= Cardinality(Fetchable(reader.who)) THEN [reader EXCEPT !.at = "listed"]
         ELSE [reader EXCEPT !.seen = Append(@, ListDocuments(reader.who, reader.limit, reader.offset)),
                             !.offset = @ + reader.limit]
    /\ ReaderStays

\* The first read of every route about one document.
OpenDocument(p, d) ==
    /\ reader.at = "none"
    /\ d \in Visible(p)
    /\ reader' = [at |-> "document", who |-> p, document |-> d, row |-> documents[d]]
    /\ ReaderStays

\* _source_version: no version asked for, or 0, is the one of the row read.
SourceVersion(version) ==
    /\ reader.at = "document"
    /\ LET selected == IF version = 0 THEN reader.row.version ELSE version
           items == {v \in history : v.document = reader.document /\ v.version = selected}
       IN  reader' = [at |-> "source", document |-> reader.document, row |-> reader.row,
                      selected |-> selected,
                      sha |-> IF items # {} THEN (CHOOSE v \in items : TRUE).sha
                              ELSE IF selected = reader.row.version THEN reader.row.sha ELSE Missing]
    /\ ReaderStays

\* list_document_versions: current are all versions with the bytes of the row read.
ListVersionsOf ==
    /\ reader.at = "document"
    /\ LET rows == {v \in history : v.document = reader.document}
       IN  reader' = [at |-> "versions", document |-> reader.document, row |-> reader.row,
                      entries |-> [v \in {h.version : h \in rows} |->
                          [sha |-> (CHOOSE h \in rows : h.version = v).sha,
                           current |-> (CHOOSE h \in rows : h.version = v).sha = reader.row.sha]]]
    /\ ReaderStays

\* get_job and get_job_trace: the job, of the caller's own tenant ...
OpenJob(p, j) ==
    /\ reader.at = "none"
    /\ queue[j].tenant = p.tenant /\ queue[j].status # "deleted"
    /\ reader' = [at |-> "job", who |-> p, job |-> j, row |-> queue[j]]
    /\ ReaderStays

\* ... its document, which must be there and visible ...
JobDocument ==
    /\ reader.at = "job"
    /\ reader' = IF reader.row.document \in Visible(reader.who) THEN [at |-> "told", row |-> reader.row]
                 ELSE [at |-> "refused"]
    /\ ReaderStays

(***************************************************************************)
(* Behaviours.                                                             *)
(***************************************************************************)
StockIds == 1..Len(Stock)

StockVersions ==
    {[document |-> d, version |-> Stock[d].row.version, sha |-> Stock[d].row.sha,
      by |-> Stock[d].row.owner, job |-> 0] : d \in {s \in StockIds : Stock[s].versioned}}

ViewsInit ==
    /\ documents = [d \in Ids |-> IF d \in StockIds THEN Stock[d].row ELSE Unused]
    /\ history = StockVersions
    /\ queue = <<>>
    /\ request = [r \in Requests |-> NoUpload]
    /\ reader = [at |-> "none"]
    /\ writes = 0
    /\ contents = [d \in Ids |-> IF d \in StockIds THEN <<Stock[d].row.sha>> ELSE <<>>]
    /\ had = [d \in Ids |-> IF d \in StockIds THEN {Accesses(Stock[d].row)} ELSE {}]

UploadStep(r) ==
    \/ \E u \in Uploads : Resolve(r, u)
    \/ CommitNew(r) \/ CommitVersion(r) \/ CommitAccess(r) \/ GiveUp(r)

ReaderStep ==
    \/ \E p \in Callers, limit \in Limits : OpenList(p, limit)
    \/ NextPage
    \/ \E p \in Callers, d \in Ids : OpenDocument(p, d)
    \/ \E version \in 0..2 : SourceVersion(version)
    \/ ListVersionsOf
    \/ \E p \in Callers, j \in DOMAIN queue : OpenJob(p, j)
    \/ JobDocument

ViewsNext ==
    \/ \E r \in Requests : UploadStep(r)
    \/ \E p \in Principals, visibility \in {"private", "tenant"}, chosen \in {{d} : d \in Ids} \cup {Ids} :
           SetVisibility(p.tenant, visibility, chosen)
    \/ \E p \in Principals, d \in Ids : DeleteDocument(p, d)
    \/ \E j \in DOMAIN queue : SettleJob(j)
    \/ ReaderStep

(***************************************************************************)
(* Properties                                                              *)
(***************************************************************************)
\* Type invariant.
ViewsTypeOK ==
    /\ \A d \in Ids : documents[d] \in Rows \cup {Unused, Deleted}
    /\ \A v \in history : v.document \in Ids /\ v.version \in Nat \ {0} /\ v.sha \in STRING
    /\ \A j \in DOMAIN queue :
         queue[j].document \in Ids /\ queue[j].status \in {"queued", "settled", "deleted"}
    /\ writes \in 0..MaxWrites

\* A list read page by page has every document its reader could see all the while
\* if none left the list, and each once, newest first, if none joined it, although
\* documents are changed, renamed, shared and hidden between the pages.
ListedWhole ==
    reader.at = "listed" =>
        /\ ~reader.left => reader.steady \subseteq UNION {reader.seen[n] : n \in DOMAIN reader.seen}
        /\ ~reader.joined => \A m, n \in DOMAIN reader.seen :
             m < n => \A d \in reader.seen[m], e \in reader.seen[n] : d > e

\* A source is the content its version had; it is missing only if the document
\* was deleted, never had that version, or replaced it before versions were kept.
SourceExact ==
    reader.at = "source" =>
        LET of == contents[reader.document]
            n == reader.selected
        IN  IF reader.sha # Missing THEN n \in DOMAIN of /\ reader.sha = of[n]
            ELSE \/ documents[reader.document].state = "deleted"
                 \/ n \notin DOMAIN of
                 \/ n > reader.row.version
                 \/ reader.document \in StockIds /\ ~Stock[reader.document].versioned /\ n = 1

\* The versions of a document have the contents they had, and the one its row named
\* is among them and marked as the current one, unless it is from before versions
\* were kept or the document is gone.
VersionsTruthful ==
    reader.at = "versions" =>
        /\ \A n \in DOMAIN reader.entries : reader.entries[n].sha = contents[reader.document][n]
        /\ \/ reader.row.version \in DOMAIN reader.entries /\ reader.entries[reader.row.version].current
           \/ documents[reader.document].state = "deleted"
           \/ reader.document \in StockIds /\ ~Stock[reader.document].versioned /\ reader.row.version = 1

\* An update that would be accepted and names no access has one its document had
\* at the version it replaces, not that of another version: the most that the check
\* of the version gives, since a change of access leaves the version as it is.
AccessOfVersion ==
    \A r \in Requests :
        LET found == request[r] IN
        found.at = "update" /\ documents[found.document].state = "present"
          /\ documents[found.document].version = found.version =>
            /\ found.upload.visibility = Omitted =>
                 \E access \in had[found.document] : access.visibility = found.access.visibility
            /\ found.upload.scope = Omitted =>
                 \E access \in had[found.document] : access.scope = found.access.scope

\* "On an update, both default to the document's CURRENT values": a new version that
\* names no access leaves the access its document has when it is written.
AccessInherited ==
    [][\A r \in Requests : CommitVersion(r) =>
         LET d == request[r].document
             upload == request[r].upload
         IN  /\ upload.visibility = Omitted => documents'[d].visibility = documents[d].visibility
             /\ upload.scope = Omitted => documents'[d].scope = documents[d].scope]_viewsVars

\* What people are shown is what there was.
ViewsTruthful ==
    /\ ListedWhole
    /\ SourceExact
    /\ VersionsTruthful
    /\ AccessOfVersion
================================================================================
