----------------------------- MODULE DocumentStore -----------------------------
(***************************************************************************)
(* The life of documents between the API, the blob store, the metadata     *)
(* tables and the vector table:                                            *)
(*   app/api/ingest_routes.py                     upload, reprocess, delete *)
(*   app/shared/adapters/postgres/metadata_store.py   the transactions     *)
(*   app/ingest/pipeline/runner.py, adapters/publication.py   a job's run  *)
(*   app/shared/adapters/pgvector/{vector_store,profile}.py   what readers *)
(*                                                            can retrieve *)
(*   app/ingest/adapters/localfs/blob_store.py    the files                *)
(*                                                                         *)
(* A request is a sequence of transactions and file operations, each one   *)
(* action; requests of several clients and the runs of jobs interleave     *)
(* between them, and a request may end after any of them (a crash, an      *)
(* error, or one of the route's early refusals, which write nothing).      *)
(*                                                                         *)
(* Jobs are those of JobQueue, reduced to what it is proved to give: one   *)
(* run per job has any effect, it publishes at most once, and a run that   *)
(* fails, is lost or is reaped leaves the job queued or dead.  So the job  *)
(* also names the generation its run publishes.                            *)
(*                                                                         *)
(* One tenant owns the documents.  Its members read all of them, the       *)
(* readers of other tenants those of scope global.                         *)
(***************************************************************************)
EXTENDS Naturals, FiniteSets

CONSTANTS
    Documents,     \* document ids
    Contents,      \* file contents; a blob's path is the hash of its content
    Users,         \* owners of documents
    Clients,       \* requests in flight, of whatever user
    Scopes,        \* {"tenant", "global"}, or the first alone
    NumJobs,       \* bound: ingestion jobs ever created
    EpochModulus,  \* bound: revisions are counted modulo this number
    NoDocument

ASSUME DocumentStoreAssumption ==
    /\ NumJobs \in Nat
    /\ EpochModulus \in Nat \ {0, 1}
    /\ Scopes \subseteq {"tenant", "global"}
    /\ NoDocument \notin Documents

Jobs == 1..NumJobs
NoGeneration == 0
Readers == {"member", "outsider"}

VARIABLES
    docs,          \* documents rows
    versions,      \* document_versions rows
    jobs,          \* ingestion_jobs rows
    run,           \* run[j]: how far the run of job j has come
    parent,        \* parent[j]: the active generation its run read at the start
    generations,   \* ingestion_generations rows
    vectors,       \* vectors[j]: the vector rows of generation j
    chunks,        \* chunks[d]: the generation whose chunks the chunks table holds
    tombstones,    \* deleted_documents rows
    epoch,         \* corpus_epochs rows, of the tenant and of "global"
    blobs,         \* files of the blob store
    req            \* req[c]: the request of client c

tables == <<docs, versions, jobs, generations, vectors, chunks, tombstones, epoch>>
runs == <<run, parent>>
vars == <<tables, runs, blobs, req>>

NoRow == [present |-> FALSE]
NoJobRow == [status |-> "unused"]
Idle == [at |-> "idle"]

Present(d) == docs[d].present
Active == {"queued", "running"}
ActiveJobs(d) == {j \in Jobs : jobs[j].status \in Active /\ jobs[j].doc = d}
UnusedJobs == {j \in Jobs : jobs[j].status = "unused"}

DocRow == [present: {TRUE}, owner: Users, content: Contents, version: Nat,
           scope: Scopes, active: Jobs \cup {NoGeneration}, indexed: Nat]
VersionRow == [doc: Documents, version: Nat, content: Contents, job: Jobs]
JobRow == [status: {"queued", "running", "done", "dead", "deleted"},
           doc: Documents, content: Contents, version: Nat]
GenerationRow == [present: {TRUE}, doc: Documents, content: Contents, version: Nat,
                  parent: Jobs \cup {NoGeneration}]
Request ==
    [at: {"put", "commit"}, doc: {NoDocument}, user: Users, content: Contents, scope: Scopes]
    \cup [at: {"put", "commit"}, doc: Documents, content: Contents, scope: Scopes, version: Nat]
    \cup [at: {"access"}, doc: Documents, scope: Scopes]
    \cup [at: {"requeue"}, doc: Documents, content: Contents, version: Nat]
    \cup [at: {"vectors", "list"}, doc: Documents, content: Contents]
    \cup [at: {"row", "count"}, doc: Documents, paths: SUBSET Contents]
    \cup [at: {"unlink"}, doc: Documents, paths: SUBSET Contents, path: Contents]

TypeOK ==
    /\ docs \in [Documents -> DocRow \cup {NoRow}]
    /\ versions \subseteq VersionRow
    /\ jobs \in [Jobs -> JobRow \cup {NoJobRow}]
    /\ run \in [Jobs -> {"none", "claimed", "snapped", "loaded"}]
    /\ parent \in [Jobs -> Jobs \cup {NoGeneration}]
    /\ generations \in [Jobs -> GenerationRow \cup {NoRow}]
    /\ vectors \in [Jobs -> {"none", "live", "deleted"}]
    /\ chunks \in [Documents -> Jobs \cup {NoGeneration}]
    /\ tombstones \subseteq Documents
    /\ epoch \in [{"tenant", "global"} -> 0..EpochModulus - 1]
    /\ blobs \subseteq Contents
    /\ req \in [Clients -> Request \cup {Idle}]

Init ==
    /\ docs = [d \in Documents |-> NoRow]
    /\ versions = {}
    /\ jobs = [j \in Jobs |-> NoJobRow]
    /\ run = [j \in Jobs |-> "none"]
    /\ parent = [j \in Jobs |-> NoGeneration]
    /\ generations = [j \in Jobs |-> NoRow]
    /\ vectors = [j \in Jobs |-> "none"]
    /\ chunks = [d \in Documents |-> NoGeneration]
    /\ tombstones = {}
    /\ epoch = [s \in {"tenant", "global"} |-> 0]
    /\ blobs = {}
    /\ req = [c \in Clients |-> Idle]

(***************************************************************************)
(* What readers see.                                                       *)
(***************************************************************************)

\* The rows of the retrieval view that are not deleted: vectors of the active
\* generation of a document without a tombstone, under the document's scope.
Retrievable(reader) ==
    {j \in Jobs :
        /\ vectors[j] = "live"
        /\ LET d == jobs[j].doc IN
            /\ Present(d)
            /\ docs[d].active = j
            /\ d \notin tombstones
            /\ reader = "member" \/ docs[d].scope = "global"}

\* corpus_epoch: the revisions a reader's answers are stamped with.
EpochOf(reader) ==
    IF reader = "member" THEN <<epoch["tenant"], epoch["global"]>> ELSE <<0, epoch["global"]>>

\* Only whether a revision moved is compared, so the count may wrap.
Bump(key) == epoch' = [epoch EXCEPT ![key] = (@ + 1) % EpochModulus]

\* Defect: only the new scope decides who must notice.
EpochKeyOfNew(s, t) == t

\* The key of a change from scope s to scope t, the same in the transactions
\* and in the trigger document_authorization_epoch: "global" when either is.
EpochKey(s, t) == IF "global" \in {s, t} THEN "global" ELSE "tenant"

(***************************************************************************)
(* Requests.                                                               *)
(***************************************************************************)
Answer(c) == req' = [req EXCEPT ![c] = Idle]
Step(c, place) == req' = [req EXCEPT ![c].at = place]

\* The process dies, a call raises, or the route refuses (409, 404).
Abandon(c) ==
    /\ req[c].at # "idle"
    /\ Answer(c)
    /\ UNCHANGED <<tables, runs, blobs>>

\* _accept_upload with a target, read by id or by filename.
UploadTo(c, d, content, scope) ==
    /\ req[c].at = "idle"
    /\ Present(d)
    /\ docs[d].content # content
    /\ req' = [req EXCEPT ![c] = [at |-> "put", doc |-> d, content |-> content,
                                  scope |-> scope, version |-> docs[d].version]]
    /\ UNCHANGED <<tables, runs, blobs>>

\* The same with the bytes the document has: nothing is stored, but the access
\* asked for is applied by a transaction of its own.
UploadSame(c, d, scope) ==
    /\ req[c].at = "idle"
    /\ Present(d)
    /\ docs[d].scope # scope
    /\ req' = [req EXCEPT ![c] = [at |-> "access", doc |-> d, scope |-> scope]]
    /\ UNCHANGED <<tables, runs, blobs>>

\* The upload, without a target, that the route answers "identical content
\* already ingested" and that changes nothing.
Deduplicates(u, content, d) ==
    Present(d) /\ docs[d].owner = u /\ docs[d].content = content

\* No target and no document of the user with these bytes.
UploadNew(c, u, content, scope) ==
    /\ req[c].at = "idle"
    /\ ~\E d \in Documents : Deduplicates(u, content, d)
    /\ req' = [req EXCEPT ![c] = [at |-> "put", doc |-> NoDocument, user |-> u,
                                  content |-> content, scope |-> scope]]
    /\ UNCHANGED <<tables, runs, blobs>>

\* blob.put: an intact file of that name is kept, anything else is replaced.
PutBlob(c) ==
    /\ req[c].at = "put"
    /\ blobs' = blobs \cup {req[c].content}
    /\ Step(c, "commit")
    /\ UNCHANGED <<tables, runs>>

\* The id of the next job.
NextJob(j) == j \in UnusedJobs /\ \A i \in UnusedJobs : j <= i

\* The queue row both kinds of upload, and reprocess, insert.
QueueJob(j, d, content, version) ==
    jobs' = [jobs EXCEPT ![j] = [status |-> "queued", doc |-> d, content |-> content,
                                 version |-> version]]

AddVersion(j, d, version, content) ==
    versions' = versions \cup
        {[doc |-> d, version |-> version, content |-> content, job |-> j]}

\* Defect: the owner's documents are not looked at again.
CommitCreateUnchecked(c) ==
    /\ req[c].at = "commit"
    /\ req[c].doc = NoDocument
    /\ \E d \in Documents \ tombstones, j \in Jobs :
        /\ ~Present(d)
        /\ NextJob(j)
        /\ docs' = [docs EXCEPT ![d] =
                [present |-> TRUE, owner |-> req[c].user, content |-> req[c].content,
                 version |-> 1, scope |-> req[c].scope, active |-> NoGeneration,
                 indexed |-> 0]]
        /\ QueueJob(j, d, req[c].content, 1)
        /\ AddVersion(j, d, 1, req[c].content)
    /\ Answer(c)
    /\ UNCHANGED <<generations, vectors, chunks, tombstones, epoch, runs, blobs>>

\* create_document_with_job: refused when the owner already has the content.
CommitCreate(c) ==
    /\ req[c].at = "commit"
    /\ req[c].doc = NoDocument
    /\ ~\E d \in Documents : Deduplicates(req[c].user, req[c].content, d)
    /\ \E d \in Documents \ tombstones, j \in Jobs :
        /\ ~Present(d)
        /\ NextJob(j)
        /\ docs' = [docs EXCEPT ![d] =
                [present |-> TRUE, owner |-> req[c].user, content |-> req[c].content,
                 version |-> 1, scope |-> req[c].scope, active |-> NoGeneration,
                 indexed |-> 0]]
        /\ QueueJob(j, d, req[c].content, 1)
        /\ AddVersion(j, d, 1, req[c].content)
    /\ Answer(c)
    /\ UNCHANGED <<generations, vectors, chunks, tombstones, epoch, runs, blobs>>

\* _lock_idle_document
IdleDocument(d) == Present(d) /\ ActiveJobs(d) = {}

\* Defect: nothing is checked again, and the version is counted from the one read.
CommitUpdateBlind(c) ==
    /\ req[c].at = "commit"
    /\ req[c].doc # NoDocument
    /\ \E d \in {req[c].doc}, j \in Jobs :
        /\ NextJob(j)
        /\ Present(d)
        /\ docs' = [docs EXCEPT ![d].content = req[c].content, ![d].scope = req[c].scope,
                                ![d].version = req[c].version + 1]
        /\ QueueJob(j, d, req[c].content, req[c].version + 1)
        /\ AddVersion(j, d, req[c].version + 1, req[c].content)
        /\ Bump(EpochKey(docs[d].scope, req[c].scope))
    /\ Answer(c)
    /\ UNCHANGED <<generations, vectors, chunks, tombstones, runs, blobs>>

\* update_document_content_and_queue: refused when the document has an active
\* job, has moved on since it was read, or its owner has the content elsewhere.
CommitUpdate(c) ==
    /\ req[c].at = "commit"
    /\ req[c].doc # NoDocument
    /\ \E d \in {req[c].doc}, j \in Jobs :
        /\ NextJob(j)
        /\ IdleDocument(d)
        /\ docs[d].version = req[c].version
        /\ ~\E e \in Documents \ {d} :
            Present(e) /\ docs[e].owner = docs[d].owner /\ docs[e].content = req[c].content
        /\ docs' = [docs EXCEPT ![d].content = req[c].content, ![d].scope = req[c].scope,
                                ![d].version = @ + 1]
        /\ QueueJob(j, d, req[c].content, docs[d].version + 1)
        /\ AddVersion(j, d, docs[d].version + 1, req[c].content)
        /\ Bump(EpochKey(docs[d].scope, req[c].scope))
    /\ Answer(c)
    /\ UNCHANGED <<generations, vectors, chunks, tombstones, runs, blobs>>

\* update_document_access
ChangeAccess(c) ==
    /\ req[c].at = "access"
    /\ LET d == req[c].doc IN
        /\ Present(d)
        /\ docs' = [docs EXCEPT ![d].scope = req[c].scope]
        /\ Bump(EpochKey(docs[d].scope, req[c].scope))
    /\ Answer(c)
    /\ UNCHANGED <<versions, jobs, generations, vectors, chunks, tombstones, runs, blobs>>

\* reprocess pins the content and version it read ...
StartReprocess(c, d) ==
    /\ req[c].at = "idle"
    /\ Present(d)
    /\ req' = [req EXCEPT ![c] = [at |-> "requeue", doc |-> d,
                                  content |-> docs[d].content, version |-> docs[d].version]]
    /\ UNCHANGED <<tables, runs, blobs>>

\* Defect: the document is not looked at again when the job is inserted.
CommitReprocessUnlocked(c) ==
    /\ req[c].at = "requeue"
    /\ \E j \in Jobs : NextJob(j) /\ QueueJob(j, req[c].doc, req[c].content, req[c].version)
    /\ Answer(c)
    /\ UNCHANGED <<docs, versions, generations, vectors, chunks, tombstones, epoch, runs,
                   blobs>>

\* ... and create_job inserts the job they are pinned to, on an idle document.
CommitReprocess(c) ==
    /\ req[c].at = "requeue"
    /\ IdleDocument(req[c].doc)
    /\ \E j \in Jobs : NextJob(j) /\ QueueJob(j, req[c].doc, req[c].content, req[c].version)
    /\ Answer(c)
    /\ UNCHANGED <<docs, versions, generations, vectors, chunks, tombstones, epoch, runs,
                   blobs>>

(***************************************************************************)
(* Deletion: six kinds of step, of which one transaction is the row.       *)
(***************************************************************************)
StartDelete(c, d) ==
    /\ req[c].at = "idle"
    /\ Present(d)
    /\ req' = [req EXCEPT ![c] = [at |-> "vectors", doc |-> d, content |-> docs[d].content]]
    /\ UNCHANGED <<tables, runs, blobs>>

\* vectors.delete_by_document marks the rows there are, and moves no epoch.
DeleteVectors(c) ==
    /\ req[c].at = "vectors"
    /\ vectors' = [j \in Jobs |->
            IF vectors[j] = "live" /\ jobs[j].doc = req[c].doc THEN "deleted" ELSE vectors[j]]
    /\ Step(c, "list")
    /\ UNCHANGED <<docs, versions, jobs, generations, chunks, tombstones, epoch, runs, blobs>>

\* The blobs to look at: of the row as first read, and of the versions now.
ListVersions(c) ==
    /\ req[c].at = "list"
    /\ LET paths == {req[c].content} \cup {v.content : v \in {u \in versions : u.doc = req[c].doc}}
       IN  req' = [req EXCEPT ![c] = [at |-> "row", doc |-> req[c].doc, paths |-> paths]]
    /\ UNCHANGED <<tables, runs, blobs>>

\* metadata.delete_document; generations go with the row (ON DELETE CASCADE).
\* Nothing happens when another request deleted the document already.
DeleteRow(c) ==
    /\ req[c].at = "row"
    /\ LET d == req[c].doc IN
        IF Present(d)
        THEN /\ tombstones' = tombstones \cup {d}
             /\ Bump(docs[d].scope)
             /\ chunks' = [chunks EXCEPT ![d] = NoGeneration]
             /\ jobs' = [j \in Jobs |->
                    IF jobs[j].status # "unused" /\ jobs[j].doc = d
                    THEN [jobs[j] EXCEPT !.status = "deleted"] ELSE jobs[j]]
             /\ versions' = {v \in versions : v.doc # d}
             /\ generations' = [j \in Jobs |->
                    IF generations[j].present /\ generations[j].doc = d
                    THEN NoRow ELSE generations[j]]
             /\ docs' = [docs EXCEPT ![d] = NoRow]
             /\ UNCHANGED vectors
        ELSE UNCHANGED tables
    /\ Step(c, "count")
    /\ UNCHANGED <<runs, blobs>>

\* count_blob_references(path, excluding d)
References(content, d) ==
    {e \in Documents \ {d} : Present(e) /\ docs[e].content = content}
        \cup {v.doc : v \in {u \in versions : u.doc # d /\ u.content = content}}

\* _delete_blob_if_unreferenced, first half; the route ends when no path is left.
CountReferences(c) ==
    /\ req[c].at = "count"
    /\ IF req[c].paths = {} THEN Answer(c)
       ELSE \E path \in req[c].paths :
            IF References(path, req[c].doc) = {}
            THEN req' = [req EXCEPT ![c] = [at |-> "unlink", doc |-> req[c].doc,
                                            paths |-> req[c].paths, path |-> path]]
            ELSE req' = [req EXCEPT ![c].paths = @ \ {path}]
    /\ UNCHANGED <<tables, runs, blobs>>

\* ... and second half.
UnlinkBlob(c) ==
    /\ req[c].at = "unlink"
    /\ blobs' = blobs \ {req[c].path}
    /\ req' = [req EXCEPT ![c] = [at |-> "count", doc |-> req[c].doc,
                                  paths |-> req[c].paths \ {req[c].path}]]
    /\ UNCHANGED <<tables, runs>>

(***************************************************************************)
(* The run of a job.                                                       *)
(***************************************************************************)
SetJob(j, status) == jobs' = [jobs EXCEPT ![j].status = status]

Claim(j) ==
    /\ jobs[j].status = "queued"
    /\ SetJob(j, "running")
    /\ run' = [run EXCEPT ![j] = "claimed"]
    /\ UNCHANGED <<docs, versions, generations, vectors, chunks, tombstones, epoch, parent,
                   blobs, req>>

\* get_document; content and version are the ones pinned to the job, the active
\* generation is the one read now.
ReadDocument(j) ==
    /\ jobs[j].status = "running" /\ run[j] = "claimed"
    /\ Present(jobs[j].doc)
    /\ run' = [run EXCEPT ![j] = "snapped"]
    /\ parent' = [parent EXCEPT ![j] = docs[jobs[j].doc].active]
    /\ UNCHANGED <<tables, blobs, req>>

\* blob.get, which verifies the hash; then the stages up to the last.
ReadBlob(j) ==
    /\ jobs[j].status = "running" /\ run[j] = "snapped"
    /\ jobs[j].content \in blobs
    /\ run' = [run EXCEPT ![j] = "loaded"]
    /\ UNCHANGED <<tables, parent, blobs, req>>

\* Defect: a failed run gets a status that no query knows.
FailRunUnknown(j) ==
    /\ jobs[j].status = "running"
    /\ SetJob(j, "failed")
    /\ run' = [run EXCEPT ![j] = "none"]
    /\ parent' = [parent EXCEPT ![j] = NoGeneration]
    /\ UNCHANGED <<docs, versions, generations, vectors, chunks, tombstones, epoch, blobs,
                   req>>

\* The run fails, is lost or goes stale, and the job is retried or given up.
FailRun(j) ==
    /\ jobs[j].status = "running"
    /\ \E status \in {"queued", "dead"} : SetJob(j, status)
    /\ run' = [run EXCEPT ![j] = "none"]
    /\ parent' = [parent EXCEPT ![j] = NoGeneration]
    /\ UNCHANGED <<docs, versions, generations, vectors, chunks, tombstones, epoch, blobs,
                   req>>

\* Defect: the chunk rows of the parent generation stay.
PublishRowsKeepingChunks(j) ==
    LET d == jobs[j].doc IN
    /\ generations' = [generations EXCEPT ![j] =
            [present |-> TRUE, doc |-> d, content |-> jobs[j].content,
             version |-> jobs[j].version, parent |-> docs[d].active]]
    /\ vectors' = [vectors EXCEPT ![j] = "live"]
    /\ chunks' = [chunks EXCEPT ![d] = IF chunks[d] = NoGeneration THEN j ELSE chunks[d]]
    /\ docs' = [docs EXCEPT ![d].active = j, ![d].indexed = jobs[j].version]
    /\ SetJob(j, "done")
    /\ run' = [run EXCEPT ![j] = "none"]
    /\ parent' = [parent EXCEPT ![j] = NoGeneration]
    /\ UNCHANGED <<versions, tombstones, blobs, req>>

\* What publish writes once its checks passed.
PublishRows(j) ==
    LET d == jobs[j].doc IN
    /\ generations' = [generations EXCEPT ![j] =
            [present |-> TRUE, doc |-> d, content |-> jobs[j].content,
             version |-> jobs[j].version, parent |-> docs[d].active]]
    /\ vectors' = [vectors EXCEPT ![j] = "live"]
    /\ chunks' = [chunks EXCEPT ![d] = j]
    /\ docs' = [docs EXCEPT ![d].active = j, ![d].indexed = jobs[j].version]
    /\ SetJob(j, "done")
    /\ run' = [run EXCEPT ![j] = "none"]
    /\ parent' = [parent EXCEPT ![j] = NoGeneration]
    /\ UNCHANGED <<versions, tombstones, blobs, req>>

\* Defect: what is superseded is not asked.
PublishSuperseded(j) ==
    /\ jobs[j].status = "running" /\ run[j] = "loaded"
    /\ Present(jobs[j].doc)
    /\ PublishRows(j)
    /\ Bump(docs[jobs[j].doc].scope)

\* publish: one transaction that holds the document and the job.
Publish(j) ==
    LET d == jobs[j].doc IN
    /\ jobs[j].status = "running" /\ run[j] = "loaded"
    /\ Present(d)
    /\ docs[d].version = jobs[j].version
    /\ docs[d].content = jobs[j].content
    /\ docs[d].active = parent[j]
    /\ PublishRows(j)
    /\ Bump(docs[d].scope)

ClientStep(c) ==
    \/ Abandon(c)
    \/ \E d \in Documents, content \in Contents, scope \in Scopes : UploadTo(c, d, content, scope)
    \/ \E d \in Documents, scope \in Scopes : UploadSame(c, d, scope)
    \/ \E u \in Users, content \in Contents, scope \in Scopes : UploadNew(c, u, content, scope)
    \/ PutBlob(c) \/ CommitCreate(c) \/ CommitUpdate(c) \/ ChangeAccess(c)
    \/ \E d \in Documents : StartReprocess(c, d) \/ StartDelete(c, d)
    \/ CommitReprocess(c)
    \/ DeleteVectors(c) \/ ListVersions(c) \/ DeleteRow(c)
    \/ CountReferences(c) \/ UnlinkBlob(c)

JobStep(j) == Claim(j) \/ ReadDocument(j) \/ ReadBlob(j) \/ FailRun(j) \/ Publish(j)

Next == (\E c \in Clients : ClientStep(c)) \/ (\E j \in Jobs : JobStep(j))

Spec == Init /\ [][Next]_vars

-------------------------------------------------------------------------------
(***************************************************************************)
(* Properties.                                                             *)
(***************************************************************************)
JobsOf(d) == {j \in Jobs : jobs[j].status # "unused" /\ jobs[j].doc = d}

(* The version history of a document has one row for each version from 1   *)
(* to the current one, and the newest row names the current content, with  *)
(* concurrent uploads racing for the next number.                          *)
HistoryComplete ==
    \A d \in Documents : Present(d) =>
        /\ \A n \in 1..docs[d].version :
            Cardinality({v \in versions : v.doc = d /\ v.version = n}) = 1
        /\ \A v \in versions : v.doc = d => v.version \in 1..docs[d].version
        /\ \E v \in versions :
            v.doc = d /\ v.version = docs[d].version /\ v.content = docs[d].content

(* What a document serves is one whole published generation of one of its  *)
(* versions: the active generation, the chunks table, the indexed version  *)
(* and the history agree, and its vectors are there unless a deletion      *)
(* began.                                                                  *)
ActiveGenerationWhole ==
    \A d \in Documents : (Present(d) /\ docs[d].active # NoGeneration) =>
        LET g == generations[docs[d].active] IN
        /\ g.present /\ g.doc = d
        /\ docs[d].indexed = g.version
        /\ chunks[d] = docs[d].active
        /\ \E v \in versions : v.doc = d /\ v.version = g.version /\ v.content = g.content
        /\ vectors[docs[d].active] # "none"

(* A job that is done and was the last one of its document left the        *)
(* document serving its current version: nothing that was superseded while *)
(* the job ran is what readers get.                                        *)
SettledServesCurrent ==
    \A d \in Documents : Present(d) =>
        \A j \in JobsOf(d) :
            (jobs[j].status = "done" /\ \A i \in JobsOf(d) : i <= j)
                => docs[d].active = j /\ docs[d].indexed = docs[d].version

(* One queued or running job per document at most, whatever uploads and    *)
(* reprocess requests race (idx_one_active_document_job).                  *)
OneActiveJob == \A d \in Documents : Cardinality(ActiveJobs(d)) <= 1

(* No two documents of an owner hold the same content, with several uploads *)
(* of the owner under way at once: a request is refused by the transaction  *)
(* and never runs into the unique index.                                    *)
OwnerContentUnique ==
    \A d, e \in Documents :
        (Present(d) /\ Present(e) /\ d # e /\ docs[d].owner = docs[e].owner)
            => docs[d].content # docs[e].content

(* Readers are never taken back to an older version of a document.         *)
NoRollback ==
    [][\A d \in Documents :
        (Present(d) /\ Present(d)') =>
            docs'[d].indexed >= docs[d].indexed /\ docs'[d].version >= docs[d].version]_vars

(* Whenever something becomes retrievable for a reader, or stops being so  *)
(* while its vectors live on, the epoch in that reader's answers moves: an *)
(* answer stamped with the present epoch was not made from less than the   *)
(* reader may see now.  (Vectors marked deleted move no epoch; an answer   *)
(* that rests on them is caught by validate_sources.)                      *)
EpochCoversRetrieval ==
    [][\A r \in Readers :
        \/ EpochOf(r)' # EpochOf(r)
        \/ Retrievable(r)' = {j \in Retrievable(r) : vectors'[j] = "live"}]_vars

(* A deleted document leaves no row behind and gets none again, although   *)
(* uploads, reprocess requests and runs that began before the deletion     *)
(* commit after it.                                                        *)
DeletionComplete ==
    \A d \in Documents : ~Present(d) =>
        /\ ActiveJobs(d) = {}
        /\ ~\E v \in versions : v.doc = d
        /\ ~\E j \in Jobs : generations[j].present /\ generations[j].doc = d
        /\ chunks[d] = NoGeneration

(* Every file a document row names is in the blob store (the comment of    *)
(* _delete_blob_if_unreferenced: a failure "leaks a file rather than       *)
(* corrupting state").                                                     *)
SourcesStored == \A d \in Documents : Present(d) => docs[d].content \in blobs

===============================================================================
