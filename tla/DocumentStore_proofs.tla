-------------------------- MODULE DocumentStore_proofs --------------------------
(***************************************************************************)
(* Proofs about DocumentStore, for any number of documents, contents,      *)
(* owners, requests at once and jobs.                                      *)
(*                                                                         *)
(* Two facts carry the rest.  A queued or running job is the newest of its *)
(* document (NewestInv): a new one is inserted on an idle document only,   *)
(* so whatever a run publishes has not been overtaken.  And the history    *)
(* names the current version and content of its document (HistoryInv), so  *)
(* a run that finds both unchanged publishes a row of the history.         *)
(***************************************************************************)
EXTENDS DocumentStore, FiniteSetTheorems, TLAPS

Used(j) == jobs[j].status # "unused"

\* Ids of jobs are handed out in order.
PrefixInv == \A i, j \in Jobs : Used(j) /\ i <= j => Used(i)

\* A job that may still run has its document, and is the newest one of it.
NewestInv ==
    \A j \in Jobs : jobs[j].status \in Active =>
        /\ Present(jobs[j].doc)
        /\ \A i \in Jobs : Used(i) /\ jobs[i].doc = jobs[j].doc => i <= j

\* Nothing is left of a document that is not there.
GoneInv ==
    \A d \in Documents : ~Present(d) =>
        /\ \A v \in versions : v.doc # d
        /\ \A j \in Jobs : generations[j].present => generations[j].doc # d
        /\ chunks[d] = NoGeneration

IndexedInv == \A d \in Documents : Present(d) => docs[d].indexed <= docs[d].version

\* The history has the versions up to the current one, each once.
HistoryInv ==
    /\ \A v, w \in versions : v.doc = w.doc /\ v.version = w.version => v = w
    /\ \A d \in Documents : Present(d) =>
        /\ docs[d].version >= 1
        /\ \A n \in 1..docs[d].version : \E v \in versions : v.doc = d /\ v.version = n
        /\ \A v \in versions : v.doc = d => v.version \in 1..docs[d].version
        /\ \E v \in versions : v.doc = d /\ v.version = docs[d].version /\ v.content = docs[d].content

\* What document d serves, if it serves anything.
Serves(d) ==
    docs[d].active # NoGeneration =>
        /\ jobs[docs[d].active].status = "done"
        /\ jobs[docs[d].active].doc = d
        /\ generations[docs[d].active].present
        /\ generations[docs[d].active].doc = d
        /\ docs[d].indexed = generations[docs[d].active].version
        /\ chunks[d] = docs[d].active
        /\ vectors[docs[d].active] # "none"
        /\ \E v \in versions : /\ v.doc = d
                               /\ v.version = generations[docs[d].active].version
                               /\ v.content = generations[docs[d].active].content

ServesInv == \A d \in Documents : Present(d) => Serves(d)

VectorsInv == \A j \in Jobs : vectors[j] # "none" => Used(j)

IndInv ==
    /\ TypeOK /\ PrefixInv /\ NewestInv /\ GoneInv /\ IndexedInv /\ HistoryInv
    /\ ServesInv /\ VectorsInv /\ SettledServesCurrent /\ OwnerContentUnique

-------------------------------------------------------------------------------
(***************************************************************************)
(* Rows and their types.                                                   *)
(***************************************************************************)

(* A document that is present has a row. *)
LEMMA RowOf ==
  ASSUME TypeOK, NEW d \in Documents, Present(d)
  PROVE  /\ docs[d] \in DocRow
         /\ docs[d].owner \in Users /\ docs[d].content \in Contents /\ docs[d].version \in Nat
         /\ docs[d].scope \in Scopes /\ docs[d].active \in Jobs \cup {NoGeneration}
         /\ docs[d].indexed \in Nat
  <1>1. docs[d] # NoRow
    BY DEF Present, NoRow
  <1>2. docs[d] \in DocRow
    BY <1>1 DEF TypeOK
  <1> QED
    BY <1>2 DEF DocRow

(* A job that was ever created has a row. *)
LEMMA JobRowOf ==
  ASSUME TypeOK, NEW j \in Jobs, Used(j)
  PROVE  /\ jobs[j] \in JobRow
         /\ jobs[j].doc \in Documents /\ jobs[j].content \in Contents /\ jobs[j].version \in Nat
  <1>1. jobs[j] # NoJobRow
    BY DEF Used, NoJobRow
  <1>2. jobs[j] \in JobRow
    BY <1>1 DEF TypeOK
  <1> QED
    BY <1>2 DEF JobRow

\* The documents row r after an update, a change of access, a publication.
WithAccess(r, content, scope, version) ==
    [r EXCEPT !.content = content, !.scope = scope, !.version = version]
WithScope(r, scope) == [r EXCEPT !.scope = scope]
WithGeneration(r, j, version) == [r EXCEPT !.active = j, !.indexed = version]

LEMMA RowWithAccess ==
  ASSUME NEW r \in DocRow, NEW content \in Contents, NEW scope \in Scopes, NEW version \in Nat
  PROVE  LET n == WithAccess(r, content, scope, version)
         IN  /\ n \in DocRow
             /\ n.present /\ n.owner = r.owner /\ n.active = r.active /\ n.indexed = r.indexed
             /\ n.content = content /\ n.scope = scope /\ n.version = version
  <1> DEFINE n1 == [r EXCEPT !.content = content]
             n2 == [n1 EXCEPT !.scope = scope]
             n3 == [n2 EXCEPT !.version = version]
             n  == [r EXCEPT !.content = content, !.scope = scope, !.version = version]
  <1>1. n1 \in DocRow
    BY DEF DocRow
  <1>2. n2 \in DocRow
    BY <1>1 DEF DocRow
  <1>3. n3 \in DocRow
    BY <1>2 DEF DocRow
  <1>4. n = n3
    OBVIOUS
  <1>5. /\ n.present = r.present /\ n.owner = r.owner /\ n.active = r.active /\ n.indexed = r.indexed
        /\ n.content = content /\ n.scope = scope /\ n.version = version
    BY DEF DocRow
  <1>6. r.present = TRUE
    BY DEF DocRow
  <1> QED
    BY <1>3, <1>4, <1>5, <1>6 DEF WithAccess

LEMMA RowWithScope ==
  ASSUME NEW r \in DocRow, NEW scope \in Scopes
  PROVE  LET n == WithScope(r, scope)
         IN  /\ n \in DocRow
             /\ n.present /\ n.owner = r.owner /\ n.active = r.active /\ n.indexed = r.indexed
             /\ n.content = r.content /\ n.scope = scope /\ n.version = r.version
  BY DEF DocRow, WithScope

LEMMA RowWithGeneration ==
  ASSUME NEW r \in DocRow, NEW j \in Jobs, NEW version \in Nat
  PROVE  LET n == WithGeneration(r, j, version)
         IN  /\ n \in DocRow
             /\ n.present /\ n.owner = r.owner /\ n.active = j /\ n.indexed = version
             /\ n.content = r.content /\ n.scope = r.scope /\ n.version = r.version
  <1> DEFINE n1 == [r EXCEPT !.active = j]
             n2 == [n1 EXCEPT !.indexed = version]
             n  == [r EXCEPT !.active = j, !.indexed = version]
  <1>1. n1 \in DocRow
    BY DEF DocRow
  <1>2. n2 \in DocRow
    BY <1>1 DEF DocRow
  <1>3. n = n2
    OBVIOUS
  <1>4. /\ n.present = r.present /\ n.owner = r.owner /\ n.active = j /\ n.indexed = version
        /\ n.content = r.content /\ n.scope = r.scope /\ n.version = r.version
    BY DEF DocRow
  <1>5. r.present = TRUE
    BY DEF DocRow
  <1> QED
    BY <1>2, <1>3, <1>4, <1>5 DEF WithGeneration

(* A revision, counted on, is another one. *)
LEMMA NextRevision ==
  ASSUME NEW x \in 0..EpochModulus - 1
  PROVE  /\ (x + 1) % EpochModulus \in 0..EpochModulus - 1
         /\ (x + 1) % EpochModulus # x
  BY DocumentStoreAssumption

LEMMA BumpFacts ==
  ASSUME TypeOK, NEW key \in {"tenant", "global"}, Bump(key)
  PROVE  /\ epoch' \in [{"tenant", "global"} -> 0..EpochModulus - 1]
         /\ epoch'[key] # epoch[key]
  <1>1. epoch \in [{"tenant", "global"} -> 0..EpochModulus - 1]
    BY DEF TypeOK
  <1>2. epoch[key] \in 0..EpochModulus - 1
    BY <1>1
  <1>3. /\ (epoch[key] + 1) % EpochModulus \in 0..EpochModulus - 1
        /\ (epoch[key] + 1) % EpochModulus # epoch[key]
    BY <1>2, NextRevision
  <1>4. epoch' = [epoch EXCEPT ![key] = (epoch[key] + 1) % EpochModulus]
    BY DEF Bump
  <1> QED
    BY <1>1, <1>3, <1>4

LEMMA KeyIsScope ==
  ASSUME NEW s \in Scopes, NEW t \in Scopes
  PROVE  EpochKey(s, t) \in {"tenant", "global"}
  BY DEF EpochKey

-------------------------------------------------------------------------------
(***************************************************************************)
(* Steps that leave the tables alone.                                      *)
(***************************************************************************)

(* What holds of the tables goes on holding while they stay as they are.   *)
LEMMA TablesStay ==
  ASSUME IndInv, TypeOK', UNCHANGED tables
  PROVE  IndInv'
  <1> USE DEF tables, IndInv
  <1>1. PrefixInv' /\ NewestInv' /\ VectorsInv'
    BY DEF PrefixInv, NewestInv, VectorsInv, Used, Present
  <1>2. GoneInv' /\ IndexedInv' /\ HistoryInv' /\ OwnerContentUnique'
    BY DEF GoneInv, IndexedInv, HistoryInv, OwnerContentUnique, Present
  <1>3. ServesInv'
    BY DEF ServesInv, Serves, Present
  <1>4. SettledServesCurrent'
    BY DEF SettledServesCurrent, JobsOf, Present
  <1> QED
    BY <1>1, <1>2, <1>3, <1>4

(* A request becomes another, and perhaps the files change. *)
LEMMA RequestStays ==
  ASSUME IndInv, NEW c \in Clients, NEW r \in Request \cup {Idle},
         req' = [req EXCEPT ![c] = r], blobs' \subseteq Contents,
         UNCHANGED <<tables, runs>>
  PROVE  IndInv'
  <1>1. TypeOK'
    <2>1. req' \in [Clients -> Request \cup {Idle}]
      BY DEF IndInv, TypeOK
    <2> QED
      BY <2>1 DEF IndInv, TypeOK, tables, runs
  <1> QED
    BY <1>1, TablesStay

(* What a request is, by the place it has reached. *)
LEMMA RequestOf ==
  ASSUME TypeOK, NEW c \in Clients
  PROVE  /\ req[c].at \in {"put", "commit"} =>
              /\ req[c].content \in Contents /\ req[c].scope \in Scopes
              /\ req[c].doc = NoDocument => req[c].user \in Users
              /\ req[c].doc # NoDocument => req[c].doc \in Documents /\ req[c].version \in Nat
         /\ req[c].at = "access" => req[c].doc \in Documents /\ req[c].scope \in Scopes
         /\ req[c].at = "requeue" => req[c].doc \in Documents /\ req[c].content \in Contents
                                                               /\ req[c].version \in Nat
         /\ req[c].at \in {"vectors", "list"} => req[c].doc \in Documents /\ req[c].content \in Contents
         /\ req[c].at \in {"row", "count"} => req[c].doc \in Documents /\ req[c].paths \in SUBSET Contents
         /\ req[c].at = "unlink" => /\ req[c].doc \in Documents /\ req[c].paths \in SUBSET Contents
                                    /\ req[c].path \in Contents
  <1>1. req[c] \in Request \cup {Idle}
    BY DEF TypeOK
  <1> QED
    BY <1>1, DocumentStoreAssumption DEF Request, Idle

LEMMA AbandonKeeps ==
  ASSUME IndInv, NEW c \in Clients, Abandon(c)
  PROVE  IndInv'
  <1>1. req' = [req EXCEPT ![c] = Idle] /\ UNCHANGED <<tables, runs>> /\ blobs' = blobs
    BY DEF Abandon, Answer
  <1>2. blobs' \subseteq Contents
    BY <1>1 DEF IndInv, TypeOK
  <1>3. Idle \in Request \cup {Idle}
    OBVIOUS
  <1> HIDE DEF Idle
  <1> QED
    BY <1>1, <1>2, <1>3, RequestStays

LEMMA UploadKeeps ==
  ASSUME IndInv, NEW c \in Clients, NEW content \in Contents, NEW scope \in Scopes,
         \/ \E d \in Documents : UploadTo(c, d, content, scope)
         \/ \E u \in Users : UploadNew(c, u, content, scope)
  PROVE  IndInv'
  <1>1. CASE \E d \in Documents : UploadTo(c, d, content, scope)
    <2>1. PICK d \in Documents : UploadTo(c, d, content, scope)
      BY <1>1
    <2> DEFINE r == [at |-> "put", doc |-> d, content |-> content, scope |-> scope,
                     version |-> docs[d].version]
    <2>2. Present(d) /\ req' = [req EXCEPT ![c] = r] /\ UNCHANGED <<tables, runs>> /\ blobs' = blobs
      BY <2>1 DEF UploadTo
    <2>3. docs[d].version \in Nat
      BY <2>2, RowOf DEF IndInv
    <2>4. r \in Request
      BY <2>3 DEF Request
    <2>5. blobs' \subseteq Contents
      BY <2>2 DEF IndInv, TypeOK
    <2> HIDE DEF r
    <2> QED
      BY <2>2, <2>4, <2>5, RequestStays
  <1>2. CASE \E u \in Users : UploadNew(c, u, content, scope)
    <2>1. PICK u \in Users : UploadNew(c, u, content, scope)
      BY <1>2
    <2> DEFINE r == [at |-> "put", doc |-> NoDocument, user |-> u, content |-> content,
                     scope |-> scope]
    <2>2. req' = [req EXCEPT ![c] = r] /\ UNCHANGED <<tables, runs>> /\ blobs' = blobs
      BY <2>1 DEF UploadNew
    <2>3. r \in Request
      BY DEF Request
    <2>4. blobs' \subseteq Contents
      BY <2>2 DEF IndInv, TypeOK
    <2> HIDE DEF r
    <2> QED
      BY <2>2, <2>3, <2>4, RequestStays
  <1> QED
    BY <1>1, <1>2

LEMMA UploadSameKeeps ==
  ASSUME IndInv, NEW c \in Clients, NEW d \in Documents, NEW scope \in Scopes, UploadSame(c, d, scope)
  PROVE  IndInv'
  <1> DEFINE r == [at |-> "access", doc |-> d, scope |-> scope]
  <1>1. req' = [req EXCEPT ![c] = r] /\ UNCHANGED <<tables, runs>> /\ blobs' = blobs
    BY DEF UploadSame
  <1>2. r \in Request
    BY DEF Request
  <1>3. blobs' \subseteq Contents
    BY <1>1 DEF IndInv, TypeOK
  <1> HIDE DEF r
  <1> QED
    BY <1>1, <1>2, <1>3, RequestStays

LEMMA PutBlobKeeps ==
  ASSUME IndInv, NEW c \in Clients, PutBlob(c)
  PROVE  IndInv'
  <1> DEFINE r == [req[c] EXCEPT !.at = "commit"]
  <1>1. req[c].at = "put" /\ UNCHANGED <<tables, runs>> /\ blobs' = blobs \cup {req[c].content}
        /\ req' = [req EXCEPT ![c] = r]
    BY DEF PutBlob, Step
  <1>2. req[c] \in Request
    BY <1>1 DEF IndInv, TypeOK, Idle
  <1>3. r \in Request
    BY <1>1, <1>2 DEF Request
  <1>4. req[c].content \in Contents
    BY <1>1, RequestOf DEF IndInv
  <1>5. blobs' \subseteq Contents
    BY <1>1, <1>4 DEF IndInv, TypeOK
  <1> HIDE DEF r
  <1> QED
    BY <1>1, <1>3, <1>5, RequestStays

LEMMA StartReprocessKeeps ==
  ASSUME IndInv, NEW c \in Clients, NEW d \in Documents, StartReprocess(c, d)
  PROVE  IndInv'
  <1> DEFINE r == [at |-> "requeue", doc |-> d, content |-> docs[d].content,
                   version |-> docs[d].version]
  <1>1. Present(d) /\ req' = [req EXCEPT ![c] = r] /\ UNCHANGED <<tables, runs>> /\ blobs' = blobs
    BY DEF StartReprocess
  <1>2. docs[d].content \in Contents /\ docs[d].version \in Nat
    BY <1>1, RowOf DEF IndInv
  <1>3. r \in Request
    BY <1>2 DEF Request
  <1>4. blobs' \subseteq Contents
    BY <1>1 DEF IndInv, TypeOK
  <1> HIDE DEF r
  <1> QED
    BY <1>1, <1>3, <1>4, RequestStays

LEMMA StartDeleteKeeps ==
  ASSUME IndInv, NEW c \in Clients, NEW d \in Documents, StartDelete(c, d)
  PROVE  IndInv'
  <1> DEFINE r == [at |-> "vectors", doc |-> d, content |-> docs[d].content]
  <1>1. Present(d) /\ req' = [req EXCEPT ![c] = r] /\ UNCHANGED <<tables, runs>> /\ blobs' = blobs
    BY DEF StartDelete
  <1>2. docs[d].content \in Contents
    BY <1>1, RowOf DEF IndInv
  <1>3. r \in Request
    BY <1>2 DEF Request
  <1>4. blobs' \subseteq Contents
    BY <1>1 DEF IndInv, TypeOK
  <1> HIDE DEF r
  <1> QED
    BY <1>1, <1>3, <1>4, RequestStays

LEMMA ListVersionsKeeps ==
  ASSUME IndInv, NEW c \in Clients, ListVersions(c)
  PROVE  IndInv'
  <1> DEFINE paths == {req[c].content} \cup {v.content : v \in {u \in versions : u.doc = req[c].doc}}
             r == [at |-> "row", doc |-> req[c].doc, paths |-> paths]
  <1>1. req[c].at = "list" /\ req' = [req EXCEPT ![c] = r] /\ UNCHANGED <<tables, runs>> /\ blobs' = blobs
    BY DEF ListVersions
  <1>2. req[c].doc \in Documents /\ req[c].content \in Contents
    BY <1>1, RequestOf DEF IndInv
  <1>3. \A v \in versions : v.content \in Contents
    BY DEF IndInv, TypeOK, VersionRow
  <1>4. paths \in SUBSET Contents
    BY <1>2, <1>3
  <1> HIDE DEF paths
  <1>5. r \in Request
    BY <1>2, <1>4 DEF Request
  <1>6. blobs' \subseteq Contents
    BY <1>1 DEF IndInv, TypeOK
  <1> HIDE DEF r
  <1> QED
    BY <1>1, <1>5, <1>6, RequestStays

LEMMA CountReferencesKeeps ==
  ASSUME IndInv, NEW c \in Clients, CountReferences(c)
  PROVE  IndInv'
  <1>1. req[c].at = "count" /\ UNCHANGED <<tables, runs>> /\ blobs' = blobs
    BY DEF CountReferences
  <1>2. req[c].doc \in Documents /\ req[c].paths \in SUBSET Contents
    BY <1>1, RequestOf DEF IndInv
  <1>3. blobs' \subseteq Contents
    BY <1>1 DEF IndInv, TypeOK
  <1>4. req[c] \in Request
    BY <1>1 DEF IndInv, TypeOK, Idle
  <1>5. CASE Answer(c)
    <2>1. req' = [req EXCEPT ![c] = Idle] /\ Idle \in Request \cup {Idle}
      BY <1>5 DEF Answer
    <2> HIDE DEF Idle
    <2> QED
      BY <1>1, <1>3, <2>1, RequestStays
  <1>6. ASSUME NEW path \in req[c].paths,
               req' = [req EXCEPT ![c] = [at |-> "unlink", doc |-> req[c].doc,
                                          paths |-> req[c].paths, path |-> path]]
        PROVE  IndInv'
    <2> DEFINE r == [at |-> "unlink", doc |-> req[c].doc, paths |-> req[c].paths, path |-> path]
    <2>1. r \in Request
      BY <1>2 DEF Request
    <2>2. req' = [req EXCEPT ![c] = r]
      BY <1>6
    <2> HIDE DEF r
    <2> QED
      BY <1>1, <1>3, <2>1, <2>2, RequestStays
  <1>7. ASSUME NEW path \in req[c].paths, req' = [req EXCEPT ![c].paths = @ \ {path}]
        PROVE  IndInv'
    <2> DEFINE r == [req[c] EXCEPT !.paths = req[c].paths \ {path}]
    <2>1. req[c].paths \ {path} \in SUBSET Contents
      BY <1>2
    <2>2. req[c] \in [at: {"row", "count"}, doc: Documents, paths: SUBSET Contents]
      BY <1>1, <1>4 DEF Request
    <2>3. r \in [at: {"row", "count"}, doc: Documents, paths: SUBSET Contents]
      BY <2>1, <2>2
    <2>4. r \in Request
      BY <2>3 DEF Request
    <2>5. req' = [req EXCEPT ![c] = r]
      BY <1>7
    <2> HIDE DEF r
    <2> QED
      BY <1>1, <1>3, <2>4, <2>5, RequestStays
  <1>8. \/ Answer(c)
        \/ \E path \in req[c].paths :
             req' = [req EXCEPT ![c] = [at |-> "unlink", doc |-> req[c].doc,
                                        paths |-> req[c].paths, path |-> path]]
        \/ \E path \in req[c].paths : req' = [req EXCEPT ![c].paths = @ \ {path}]
    BY DEF CountReferences
  <1> QED
    BY <1>5, <1>6, <1>7, <1>8

LEMMA UnlinkBlobKeeps ==
  ASSUME IndInv, NEW c \in Clients, UnlinkBlob(c)
  PROVE  IndInv'
  <1> DEFINE r == [at |-> "count", doc |-> req[c].doc, paths |-> req[c].paths \ {req[c].path}]
  <1>1. /\ req[c].at = "unlink" /\ blobs' = blobs \ {req[c].path}
        /\ req' = [req EXCEPT ![c] = r] /\ UNCHANGED <<tables, runs>>
    BY DEF UnlinkBlob
  <1>2. req[c].doc \in Documents /\ req[c].paths \in SUBSET Contents
    BY <1>1, RequestOf DEF IndInv
  <1>3. r \in Request
    BY <1>2 DEF Request
  <1>4. blobs' \subseteq Contents
    BY <1>1 DEF IndInv, TypeOK
  <1> HIDE DEF r
  <1> QED
    BY <1>1, <1>3, <1>4, RequestStays

(* A run reads the document, then the file. *)
LEMMA ReadsKeep ==
  ASSUME IndInv, NEW j \in Jobs, ReadDocument(j) \/ ReadBlob(j)
  PROVE  IndInv'
  <1>1. UNCHANGED <<tables, blobs, req>>
    BY DEF ReadDocument, ReadBlob
  <1>2. run' \in [Jobs -> {"none", "claimed", "snapped", "loaded"}]
    BY DEF ReadDocument, ReadBlob, IndInv, TypeOK
  <1>3. parent' \in [Jobs -> Jobs \cup {NoGeneration}]
    <2>1. CASE ReadBlob(j)
      BY <2>1 DEF ReadBlob, IndInv, TypeOK
    <2>2. CASE ReadDocument(j)
      <3>1. jobs[j].status = "running" /\ Present(jobs[j].doc)
            /\ parent' = [parent EXCEPT ![j] = docs[jobs[j].doc].active]
        BY <2>2 DEF ReadDocument
      <3>2. jobs[j].doc \in Documents
        BY <3>1, JobRowOf DEF IndInv, Used
      <3>3. docs[jobs[j].doc].active \in Jobs \cup {NoGeneration}
        BY <3>1, <3>2, RowOf DEF IndInv
      <3> QED
        BY <3>1, <3>3 DEF IndInv, TypeOK
    <2> QED
      BY <2>1, <2>2
  <1>4. TypeOK'
    BY <1>1, <1>2, <1>3 DEF IndInv, TypeOK, tables
  <1>5. UNCHANGED tables
    BY <1>1
  <1> QED
    BY <1>4, <1>5, TablesStay

-------------------------------------------------------------------------------
(***************************************************************************)
(* Jobs.                                                                   *)
(***************************************************************************)

(* The next job is newer than all there are. *)
LEMMA NextJobIsNewest ==
  ASSUME PrefixInv, NEW j \in Jobs, NextJob(j)
  PROVE  ~Used(j) /\ \A i \in Jobs : Used(i) => i < j
  <1>1. ~Used(j)
    BY DEF NextJob, UnusedJobs, Used
  <1>2. ASSUME NEW i \in Jobs, Used(i)
        PROVE  i < j
    <2>1. i \in Nat /\ j \in Nat
      BY DocumentStoreAssumption DEF Jobs
    <2>2. ~(j <= i)
      BY <1>1, <1>2 DEF PrefixInv
    <2> QED
      BY <2>1, <2>2
  <1> QED
    BY <1>1, <1>2

(* What a new row does to the jobs table. *)
LEMMA QueueFacts ==
  ASSUME TypeOK, PrefixInv, NEW j \in Jobs, NextJob(j), NEW d \in Documents,
         NEW content \in Contents, NEW version \in Nat, QueueJob(j, d, content, version)
  PROVE  /\ jobs' \in [Jobs -> JobRow \cup {NoJobRow}]
         /\ jobs'[j].status = "queued" /\ jobs'[j].doc = d
         /\ jobs'[j].content = content /\ jobs'[j].version = version
         /\ \A i \in Jobs \ {j} : jobs'[i] = jobs[i]
         /\ Used(j)'
         /\ PrefixInv'
  <1> DEFINE r == [status |-> "queued", doc |-> d, content |-> content, version |-> version]
  <1>1. jobs \in [Jobs -> JobRow \cup {NoJobRow}]
    BY DEF TypeOK
  <1>2. jobs' = [jobs EXCEPT ![j] = r]
    BY DEF QueueJob
  <1>3. r \in JobRow /\ r.status = "queued" /\ r.doc = d /\ r.content = content /\ r.version = version
    BY DEF JobRow
  <1> HIDE DEF r
  <1>4. /\ jobs' \in [Jobs -> JobRow \cup {NoJobRow}]
        /\ jobs'[j] = r
        /\ \A i \in Jobs \ {j} : jobs'[i] = jobs[i]
    BY <1>1, <1>2, <1>3
  <1>5. Used(j)' /\ \A i \in Jobs \ {j} : Used(i)' <=> Used(i)
    BY <1>3, <1>4 DEF Used
  <1>6. ASSUME NEW i \in Jobs, NEW k \in Jobs, Used(k)', i <= k
        PROVE  Used(i)'
    <2>1. CASE i = j
      BY <1>5, <2>1
    <2>2. CASE i # j /\ k = j
      <3>1. i \in Nat /\ j \in Nat /\ i < j
        BY <1>6, <2>2, DocumentStoreAssumption DEF Jobs
      <3>2. Used(i)
        BY <3>1 DEF NextJob, UnusedJobs, Used
      <3> QED
        BY <1>5, <2>2, <3>2
    <2>3. CASE i # j /\ k # j
      BY <1>5, <1>6, <2>3 DEF PrefixInv
    <2> QED
      BY <2>1, <2>2, <2>3
  <1>7. PrefixInv'
    BY <1>6 DEF PrefixInv
  <1> QED
    BY <1>3, <1>4, <1>5, <1>7

(* A job is inserted for document d, which has no other that may run, in a *)
(* transaction that leaves the rows of other documents as they are.        *)
LEMMA QueueKeeps ==
  ASSUME IndInv, NEW j \in Jobs, NextJob(j), NEW d \in Documents,
         NEW content \in Contents, NEW version \in Nat, QueueJob(j, d, content, version),
         \A i \in Jobs : jobs[i].status \in Active => jobs[i].doc # d,
         Present(d)', \A e \in Documents \ {d} : docs'[e] = docs[e], vectors' = vectors
  PROVE  /\ NewestInv' /\ VectorsInv' /\ SettledServesCurrent'
         /\ \A a \in Jobs : jobs[a].status = "done" => jobs'[a] = jobs[a]
  <1> USE DEF IndInv
  <1>1. /\ jobs'[j].status = "queued" /\ jobs'[j].doc = d
        /\ \A i \in Jobs \ {j} : jobs'[i] = jobs[i]
    BY QueueFacts
  <1>2. ~Used(j) /\ \A i \in Jobs : Used(i) => i < j
    BY NextJobIsNewest
  <1>3. \A i \in Jobs \ {j} : Used(i)' <=> Used(i)
    BY <1>1 DEF Used
  <1>4. \A i \in Jobs : i \in Int
    BY DocumentStoreAssumption DEF Jobs
  <1>5. \A i \in Jobs : Used(i)' => i <= j
    BY <1>2, <1>3, <1>4
  <1>6. NewestInv'
    <2> SUFFICES ASSUME NEW k \in Jobs, jobs'[k].status \in Active
                 PROVE  /\ Present(jobs[k].doc)'
                        /\ \A i \in Jobs : Used(i)' /\ jobs'[i].doc = jobs'[k].doc => i <= k
      BY DEF NewestInv
    <2>1. CASE k = j
      BY <1>1, <1>5, <2>1
    <2>2. CASE k # j
      <3>1. jobs'[k] = jobs[k] /\ jobs[k].status \in Active /\ jobs[k].doc # d
        BY <1>1, <2>2
      <3>2. Used(k)
        BY <3>1 DEF Used, Active
      <3>3. jobs[k].doc \in Documents \ {d}
        BY <3>1, <3>2, JobRowOf
      <3>4. Present(jobs[k].doc)
        BY <3>1 DEF NewestInv
      <3>5. Present(jobs[k].doc)'
        BY <3>1, <3>3, <3>4 DEF Present
      <3>6. ASSUME NEW i \in Jobs, Used(i)', jobs'[i].doc = jobs'[k].doc
            PROVE  i <= k
        <4>1. i # j
          BY <1>1, <3>1, <3>6
        <4>2. Used(i) /\ jobs[i].doc = jobs[k].doc
          BY <1>1, <1>3, <3>1, <3>6, <4>1
        <4> QED
          BY <3>1, <4>2 DEF NewestInv
      <3> QED
        BY <3>5, <3>6
    <2> QED
      BY <2>1, <2>2
  <1>7. VectorsInv'
    <2>1. \A i \in Jobs : vectors'[i] # "none" => Used(i)
      BY DEF VectorsInv
    <2> QED
      BY <1>2, <1>3, <2>1 DEF VectorsInv
  <1>8. SettledServesCurrent'
    <2> SUFFICES ASSUME NEW e \in Documents, Present(e)', NEW k \in JobsOf(e)',
                        jobs'[k].status = "done", \A i \in JobsOf(e)' : i <= k
                 PROVE  docs'[e].active = k /\ docs'[e].indexed = docs'[e].version
      BY DEF SettledServesCurrent
    <2>1. k \in Jobs /\ k # j /\ jobs'[k] = jobs[k] /\ Used(k) /\ jobs[k].doc = e
      BY <1>1, <1>3 DEF JobsOf, Used
    <2>2. e # d
      <3>1. SUFFICES ASSUME e = d PROVE FALSE
        OBVIOUS
      <3>2. j \in JobsOf(e)'
        BY <1>1, <3>1 DEF JobsOf
      <3>3. j <= k /\ k < j
        BY <1>2, <2>1, <3>2
      <3> QED
        BY <1>4, <2>1, <3>3
    <2>3. JobsOf(e)' = JobsOf(e)
      BY <1>1, <1>2, <2>2 DEF JobsOf, Used
    <2>4. Present(e) /\ docs'[e] = docs[e]
      BY <2>2 DEF Present
    <2> QED
      BY <2>1, <2>3, <2>4 DEF SettledServesCurrent
  <1>9. \A a \in Jobs : jobs[a].status = "done" => jobs'[a] = jobs[a]
    BY <1>1, <1>2 DEF Used
  <1> QED
    BY <1>6, <1>7, <1>8, <1>9

(* What document d serves goes on being served, when what it rests on is   *)
(* left alone.                                                             *)
LEMMA ServesStay ==
  ASSUME TypeOK, NEW d \in Documents, Present(d), Serves(d),
         docs'[d].active = docs[d].active, docs'[d].indexed = docs[d].indexed,
         chunks'[d] = chunks[d],
         docs[d].active # NoGeneration =>
             /\ jobs'[docs[d].active].status = jobs[docs[d].active].status
             /\ jobs'[docs[d].active].doc = jobs[docs[d].active].doc
             /\ generations'[docs[d].active] = generations[docs[d].active]
             /\ vectors[docs[d].active] # "none" => vectors'[docs[d].active] # "none",
         \A v \in versions : v.doc = d => v \in versions'
  PROVE  Serves(d)'
  <1> SUFFICES ASSUME docs[d].active # NoGeneration
               PROVE  Serves(d)'
    BY DEF Serves
  <1> DEFINE a == docs[d].active
  <1>1. /\ jobs[a].status = "done" /\ jobs[a].doc = d
        /\ generations[a].present /\ generations[a].doc = d
        /\ docs[d].indexed = generations[a].version
        /\ chunks[d] = a /\ vectors[a] # "none"
    BY DEF Serves
  <1>2. PICK v \in versions : v.doc = d /\ v.version = generations[a].version
                                        /\ v.content = generations[a].content
    BY DEF Serves
  <1>3. v \in versions' /\ v.doc = d /\ v.version = generations'[a].version
                        /\ v.content = generations'[a].content
    BY <1>2
  <1>4. /\ docs'[d].active = a
        /\ jobs'[a].status = "done" /\ jobs'[a].doc = d
        /\ generations'[a].present /\ generations'[a].doc = d
        /\ docs'[d].indexed = generations'[a].version
        /\ chunks'[d] = a /\ vectors'[a] # "none"
    BY <1>1
  <1> HIDE DEF a
  <1> QED
    BY <1>3, <1>4 DEF Serves

-------------------------------------------------------------------------------
(***************************************************************************)
(* Transactions that insert a job.                                         *)
(***************************************************************************)

(* A version is added to the history of document d, whose current version  *)
(* and content it is, and which had the versions before it.                *)
LEMMA AddVersionKeepsHistory ==
  ASSUME TypeOK, HistoryInv, NEW d \in Documents, NEW j \in Jobs, NEW content \in Contents,
         NEW version \in Nat, version >= 1,
         AddVersion(j, d, version, content),
         \A v \in versions : v.doc = d => v.version \in 1..version - 1,
         \A n \in 1..version - 1 : \E v \in versions : v.doc = d /\ v.version = n,
         docs'[d].version = version, docs'[d].content = content,
         \A e \in Documents \ {d} : docs'[e] = docs[e]
  PROVE  versions' \subseteq VersionRow /\ HistoryInv'
  <1> DEFINE new == [doc |-> d, version |-> version, content |-> content, job |-> j]
  <1>1. versions' = versions \cup {new}
    BY DEF AddVersion
  <1>2. new \in VersionRow /\ new.doc = d /\ new.version = version /\ new.content = content
    BY DEF VersionRow
  <1> HIDE DEF new
  <1>3. \A v \in versions : v \in VersionRow /\ v.doc \in Documents /\ v.version \in Nat
    BY DEF TypeOK, VersionRow
  <1>4. ASSUME NEW v \in versions', NEW w \in versions', v.doc = w.doc, v.version = w.version
        PROVE  v = w
    <2>1. \A u \in versions : ~(u.doc = d /\ u.version = version)
      OBVIOUS
    <2>2. CASE v \in versions /\ w \in versions
      BY <1>4, <2>2 DEF HistoryInv
    <2>3. CASE v = new \/ w = new
      BY <1>1, <1>2, <1>4, <2>1, <2>3
    <2> QED
      BY <1>1, <2>2, <2>3
  <1>5. ASSUME NEW e \in Documents, Present(e)', e # d
        PROVE  /\ docs'[e].version >= 1
               /\ \A n \in 1..docs'[e].version : \E v \in versions' : v.doc = e /\ v.version = n
               /\ \A v \in versions' : v.doc = e => v.version \in 1..docs'[e].version
               /\ \E v \in versions' : v.doc = e /\ v.version = docs'[e].version
                                                 /\ v.content = docs'[e].content
    <2>1. docs'[e] = docs[e] /\ Present(e)
      BY <1>5 DEF Present
    <2>2. /\ docs[e].version >= 1
          /\ \A n \in 1..docs[e].version : \E v \in versions : v.doc = e /\ v.version = n
          /\ \A v \in versions : v.doc = e => v.version \in 1..docs[e].version
          /\ \E v \in versions : v.doc = e /\ v.version = docs[e].version /\ v.content = docs[e].content
      BY <2>1 DEF HistoryInv
    <2> QED
      BY <1>1, <1>2, <1>5, <2>1, <2>2
  <1>6. /\ \A n \in 1..version : \E v \in versions' : v.doc = d /\ v.version = n
        /\ \A v \in versions' : v.doc = d => v.version \in 1..version
        /\ \E v \in versions' : v.doc = d /\ v.version = version /\ v.content = content
    <2>1. ASSUME NEW n \in 1..version
          PROVE  \E v \in versions' : v.doc = d /\ v.version = n
      <3>1. CASE n = version
        BY <1>1, <1>2, <3>1
      <3>2. CASE n # version
        <4>1. n \in 1..version - 1
          BY <3>2
        <4> QED
          BY <1>1, <4>1
      <3> QED
        BY <3>1, <3>2
    <2>2. ASSUME NEW v \in versions', v.doc = d
          PROVE  v.version \in 1..version
      BY <1>1, <1>2, <2>2
    <2> QED
      BY <1>1, <1>2, <2>1, <2>2
  <1>7. versions' \subseteq VersionRow
    BY <1>1, <1>2, <1>3
  <1>8. HistoryInv'
    BY <1>4, <1>5, <1>6 DEF HistoryInv
  <1> QED
    BY <1>7, <1>8

LEMMA CommitCreateKeeps ==
  ASSUME IndInv, NEW c \in Clients, CommitCreate(c)
  PROVE  IndInv'
  <1> USE DEF IndInv
  <1>1. /\ req[c].at = "commit" /\ req[c].doc = NoDocument
        /\ ~\E d \in Documents : Deduplicates(req[c].user, req[c].content, d)
        /\ req' = [req EXCEPT ![c] = Idle]
        /\ UNCHANGED <<generations, vectors, chunks, tombstones, epoch, runs, blobs>>
    BY DEF CommitCreate, Answer
  <1>2. PICK d \in Documents \ tombstones, j \in Jobs :
          /\ ~Present(d)
          /\ NextJob(j)
          /\ docs' = [docs EXCEPT ![d] =
                  [present |-> TRUE, owner |-> req[c].user, content |-> req[c].content,
                   version |-> 1, scope |-> req[c].scope, active |-> NoGeneration,
                   indexed |-> 0]]
          /\ QueueJob(j, d, req[c].content, 1)
          /\ AddVersion(j, d, 1, req[c].content)
    BY DEF CommitCreate
  <1>3. req[c].user \in Users /\ req[c].content \in Contents /\ req[c].scope \in Scopes
    BY <1>1, RequestOf
  <1> DEFINE row == [present |-> TRUE, owner |-> req[c].user, content |-> req[c].content,
                     version |-> 1, scope |-> req[c].scope, active |-> NoGeneration, indexed |-> 0]
  <1>4. /\ row \in DocRow /\ row.present /\ row.owner = req[c].user /\ row.content = req[c].content
        /\ row.version = 1 /\ row.active = NoGeneration /\ row.indexed = 0
    BY <1>3 DEF DocRow
  <1>5. docs' = [docs EXCEPT ![d] = row]
    BY <1>2
  <1> HIDE DEF row
  <1>6. /\ docs' \in [Documents -> DocRow \cup {NoRow}]
        /\ docs'[d] = row
        /\ \A e \in Documents \ {d} : docs'[e] = docs[e]
    BY <1>4, <1>5 DEF TypeOK
  <1>7. Present(d)' /\ \A e \in Documents \ {d} : Present(e)' <=> Present(e)
    BY <1>4, <1>6 DEF Present
  <1>8. \A i \in Jobs : jobs[i].status \in Active => jobs[i].doc # d
    BY <1>2 DEF NewestInv
  <1>9. /\ jobs' \in [Jobs -> JobRow \cup {NoJobRow}]
        /\ PrefixInv'
    BY <1>2, <1>3, QueueFacts
  <1>10. /\ NewestInv' /\ VectorsInv' /\ SettledServesCurrent'
         /\ \A a \in Jobs : jobs[a].status = "done" => jobs'[a] = jobs[a]
    BY <1>1, <1>2, <1>3, <1>6, <1>7, <1>8, QueueKeeps
  <1>11. versions' \subseteq VersionRow /\ HistoryInv'
    <2>1. \A v \in versions : v.doc # d
      BY <1>2 DEF GoneInv
    <2>2. \A n \in 1..1 - 1 : \E v \in versions : v.doc = d /\ v.version = n
      OBVIOUS
    <2> QED
      BY <1>2, <1>3, <1>4, <1>6, <2>1, <2>2, AddVersionKeepsHistory
  <1>12. TypeOK'
    <2>1. req' \in [Clients -> Request \cup {Idle}]
      BY <1>1 DEF TypeOK
    <2> QED
      BY <1>1, <1>6, <1>9, <1>11, <2>1 DEF TypeOK, runs
  <1>13. GoneInv'
    <2>1. \A v \in versions' : v \in versions \/ v.doc = d
      BY <1>2 DEF AddVersion
    <2> QED
      BY <1>1, <1>7, <2>1 DEF GoneInv
  <1>14. IndexedInv'
    BY <1>4, <1>6, <1>7 DEF IndexedInv
  <1>15. ServesInv'
    <2> SUFFICES ASSUME NEW e \in Documents, Present(e)'
                 PROVE  Serves(e)'
      BY DEF ServesInv
    <2>1. CASE e = d
      BY <1>4, <1>6, <2>1 DEF Serves
    <2>2. CASE e # d
      <3>1. Present(e) /\ docs'[e] = docs[e] /\ Serves(e)
        BY <1>6, <1>7, <2>2 DEF ServesInv
      <3>2. \A v \in versions : v \in versions'
        BY <1>2 DEF AddVersion
      <3>3. docs[e].active \in Jobs \cup {NoGeneration}
        BY <3>1, RowOf
      <3>4. docs[e].active # NoGeneration => jobs'[docs[e].active] = jobs[docs[e].active]
        BY <1>10, <3>1, <3>3 DEF Serves
      <3> QED
        BY <1>1, <3>1, <3>2, <3>4, ServesStay
    <2> QED
      BY <2>1, <2>2
  <1>16. OwnerContentUnique'
    <2>1. \A e \in Documents : Present(e) /\ docs[e].owner = req[c].user => docs[e].content # req[c].content
      BY <1>1 DEF Deduplicates
    <2> QED
      BY <1>4, <1>6, <1>7, <2>1 DEF OwnerContentUnique
  <1> QED
    BY <1>9, <1>10, <1>11, <1>12, <1>13, <1>14, <1>15, <1>16

\* What an update of request c does to document d, with job j, in the tables.
Updates(c, d, j) ==
    /\ NextJob(j)
    /\ Present(d) /\ (\A i \in Jobs : jobs[i].status \in Active => jobs[i].doc # d)
    /\ ~\E e \in Documents \ {d} :
        Present(e) /\ docs[e].owner = docs[d].owner /\ docs[e].content = req[c].content
    /\ req[c].content \in Contents /\ req[c].scope \in Scopes
    /\ docs[d].version \in Nat /\ docs[d].indexed \in Nat /\ docs[d].scope \in Scopes
    /\ docs' \in [Documents -> DocRow \cup {NoRow}]
    /\ \A e \in Documents \ {d} : docs'[e] = docs[e]
    /\ \A e \in Documents : Present(e)' <=> Present(e)
    /\ docs'[d].owner = docs[d].owner /\ docs'[d].content = req[c].content
    /\ docs'[d].active = docs[d].active /\ docs'[d].indexed = docs[d].indexed
    /\ docs'[d].version = docs[d].version + 1 /\ docs'[d].scope = req[c].scope
    /\ QueueJob(j, d, req[c].content, docs[d].version + 1)
    /\ AddVersion(j, d, docs[d].version + 1, req[c].content)
    /\ Bump(EpochKey(docs[d].scope, req[c].scope))

LEMMA UpdateFacts ==
  ASSUME IndInv, NEW c \in Clients, CommitUpdate(c)
  PROVE  \E d \in Documents, j \in Jobs : Updates(c, d, j)
  <1> USE DEF IndInv
  <1>0. req[c].at = "commit" /\ req[c].doc # NoDocument
    BY DEF CommitUpdate
  <1>3. PICK d \in Documents : d = req[c].doc /\ req[c].content \in Contents /\ req[c].scope \in Scopes
    BY <1>0, RequestOf
  <1> DEFINE row == WithAccess(docs[d], req[c].content, req[c].scope, docs[d].version + 1)
  <1>1. /\ req' = [req EXCEPT ![c] = Idle]
        /\ UNCHANGED <<generations, vectors, chunks, tombstones, runs, blobs>>
    BY DEF CommitUpdate, Answer
  <1>2. PICK j \in Jobs :
          /\ NextJob(j)
          /\ IdleDocument(d)
          /\ ~\E e \in Documents \ {d} :
              Present(e) /\ docs[e].owner = docs[d].owner /\ docs[e].content = req[c].content
          /\ docs' = [docs EXCEPT ![d] = row]
          /\ QueueJob(j, d, req[c].content, docs[d].version + 1)
          /\ AddVersion(j, d, docs[d].version + 1, req[c].content)
          /\ Bump(EpochKey(docs[d].scope, req[c].scope))
    BY <1>3, ZenonT(30) DEF CommitUpdate, WithAccess
  <1>4. Present(d) /\ \A i \in Jobs : jobs[i].status \in Active => jobs[i].doc # d
    BY <1>2 DEF IdleDocument, ActiveJobs
  <1>5. /\ docs[d] \in DocRow /\ docs[d].version \in Nat /\ docs[d].indexed \in Nat
        /\ docs[d].scope \in Scopes
    BY <1>3, <1>4, RowOf
  <1>6. docs[d].version + 1 \in Nat
    BY <1>5
  <1>7. /\ row \in DocRow /\ row.present /\ row.owner = docs[d].owner
        /\ row.active = docs[d].active /\ row.indexed = docs[d].indexed
        /\ row.content = req[c].content /\ row.version = docs[d].version + 1
        /\ row.scope = req[c].scope
    <2> DEFINE content == req[c].content
               scope   == req[c].scope
               version == docs[d].version + 1
    <2>1. content \in Contents /\ scope \in Scopes /\ version \in Nat
      BY <1>3, <1>6
    <2> HIDE DEF content, scope, version
    <2>2. LET n == WithAccess(docs[d], content, scope, version)
          IN  /\ n \in DocRow
              /\ n.present /\ n.owner = docs[d].owner /\ n.active = docs[d].active
              /\ n.indexed = docs[d].indexed /\ n.content = content /\ n.scope = scope
              /\ n.version = version
      BY <1>5, <2>1, RowWithAccess
    <2> QED
      BY <2>2 DEF content, scope, version
  <1> HIDE DEF row
  <1>8. /\ docs' \in [Documents -> DocRow \cup {NoRow}]
        /\ docs'[d] = row
        /\ \A e \in Documents \ {d} : docs'[e] = docs[e]
    BY <1>2, <1>3, <1>7 DEF TypeOK
  <1>9. Present(d)' /\ \A e \in Documents : Present(e)' <=> Present(e)
    BY <1>4, <1>7, <1>8 DEF Present
  <1> QED
    BY <1>2, <1>3, <1>4, <1>5, <1>7, <1>8, <1>9 DEF Updates

LEMMA CommitUpdateKeeps ==
  ASSUME IndInv, NEW c \in Clients, CommitUpdate(c)
  PROVE  IndInv'
  <1> USE DEF IndInv
  <1>1. /\ req' = [req EXCEPT ![c] = Idle]
        /\ UNCHANGED <<generations, vectors, chunks, tombstones, runs, blobs>>
    BY DEF CommitUpdate, Answer
  <1>2. PICK d \in Documents, j \in Jobs : Updates(c, d, j)
    BY UpdateFacts
  <1> USE DEF Updates
  <1>3. docs[d].version + 1 \in Nat
    BY <1>2
  <1>10. /\ jobs' \in [Jobs -> JobRow \cup {NoJobRow}]
         /\ PrefixInv'
    BY <1>2, <1>3, QueueFacts
  <1>11. /\ NewestInv' /\ VectorsInv' /\ SettledServesCurrent'
         /\ \A a \in Jobs : jobs[a].status = "done" => jobs'[a] = jobs[a]
    BY <1>1, <1>2, <1>3, QueueKeeps
  <1>12. versions' \subseteq VersionRow /\ HistoryInv'
    <2>1. /\ \A n \in 1..docs[d].version : \E v \in versions : v.doc = d /\ v.version = n
          /\ \A v \in versions : v.doc = d => v.version \in 1..docs[d].version
      BY <1>3, <1>2 DEF HistoryInv
    <2>2. (docs[d].version + 1) - 1 = docs[d].version /\ docs[d].version + 1 >= 1
      BY <1>2
    <2> QED
      BY <1>2, <1>3, <2>1, <2>2, AddVersionKeepsHistory
  <1>13. TypeOK'
    <2>1. req' \in [Clients -> Request \cup {Idle}]
      BY <1>1 DEF TypeOK
    <2>2. epoch' \in [{"tenant", "global"} -> 0..EpochModulus - 1]
      BY <1>2, <1>3, KeyIsScope, BumpFacts
    <2> QED
      BY <1>1, <1>2, <1>10, <1>12, <2>1, <2>2 DEF TypeOK, runs
  <1>14. GoneInv'
    <2>1. \A v \in versions' : v \in versions \/ v.doc = d
      BY <1>2 DEF AddVersion
    <2> QED
      BY <1>1, <1>2, <2>1 DEF GoneInv
  <1>15. IndexedInv'
    <2>1. docs[d].indexed <= docs[d].version + 1
      BY <1>3, <1>2 DEF IndexedInv
    <2> QED
      BY <1>2, <2>1 DEF IndexedInv
  <1>16. ServesInv'
    <2> SUFFICES ASSUME NEW e \in Documents, Present(e)'
                 PROVE  Serves(e)'
      BY DEF ServesInv
    <2>1. Present(e) /\ Serves(e)
      BY <1>2 DEF ServesInv
    <2>2. docs'[e].active = docs[e].active /\ docs'[e].indexed = docs[e].indexed
      BY <1>2
    <2>3. \A v \in versions : v \in versions'
      BY <1>2 DEF AddVersion
    <2>4. docs[e].active \in Jobs \cup {NoGeneration}
      BY <2>1, RowOf
    <2>5. docs[e].active # NoGeneration => jobs'[docs[e].active] = jobs[docs[e].active]
      BY <1>11, <2>1, <2>4 DEF Serves
    <2> QED
      BY <1>1, <2>1, <2>2, <2>3, <2>5, ServesStay
  <1>17. OwnerContentUnique'
    BY <1>2, <1>3 DEF OwnerContentUnique
  <1> QED
    BY <1>10, <1>11, <1>12, <1>13, <1>14, <1>15, <1>16, <1>17

\* What a change of access, by request c, does to document d in the tables.
Rescopes(c, d) ==
    /\ Present(d) /\ docs[d].scope \in Scopes /\ req[c].scope \in Scopes
    /\ Bump(EpochKey(docs[d].scope, req[c].scope))
    /\ docs' \in [Documents -> DocRow \cup {NoRow}]
    /\ \A e \in Documents \ {d} : docs'[e] = docs[e]
    /\ docs'[d].scope = req[c].scope
    /\ \A e \in Documents : /\ Present(e)' <=> Present(e)
                            /\ docs'[e].owner = docs[e].owner /\ docs'[e].content = docs[e].content
                            /\ docs'[e].active = docs[e].active
                            /\ docs'[e].indexed = docs[e].indexed
                            /\ docs'[e].version = docs[e].version
    /\ UNCHANGED <<versions, jobs, generations, vectors, chunks, tombstones, runs, blobs>>

LEMMA AccessFacts ==
  ASSUME IndInv, NEW c \in Clients, ChangeAccess(c)
  PROVE  \E d \in Documents : Rescopes(c, d)
  <1> USE DEF IndInv
  <1>0. req[c].at = "access"
    BY DEF ChangeAccess
  <1>2. PICK d \in Documents : d = req[c].doc /\ req[c].scope \in Scopes
    BY <1>0, RequestOf
  <1> DEFINE row == WithScope(docs[d], req[c].scope)
  <1>1. /\ Present(d) /\ docs' = [docs EXCEPT ![d] = row]
        /\ Bump(EpochKey(docs[d].scope, req[c].scope))
        /\ req' = [req EXCEPT ![c] = Idle]
        /\ UNCHANGED <<versions, jobs, generations, vectors, chunks, tombstones, runs, blobs>>
    BY <1>2 DEF ChangeAccess, Answer, WithScope
  <1>3. docs[d] \in DocRow /\ docs[d].scope \in Scopes
    BY <1>1, <1>2, RowOf
  <1>4. /\ row \in DocRow /\ row.present /\ row.owner = docs[d].owner
        /\ row.active = docs[d].active /\ row.indexed = docs[d].indexed
        /\ row.content = docs[d].content /\ row.version = docs[d].version
        /\ row.scope = req[c].scope
    BY <1>2, <1>3, RowWithScope
  <1> HIDE DEF row
  <1>5. /\ docs' \in [Documents -> DocRow \cup {NoRow}]
        /\ docs'[d] = row
        /\ \A e \in Documents \ {d} : docs'[e] = docs[e]
    BY <1>1, <1>2, <1>4 DEF TypeOK
  <1>6. \A e \in Documents : Present(e)' <=> Present(e)
    BY <1>1, <1>4, <1>5 DEF Present
  <1>7. \A e \in Documents : /\ docs'[e].owner = docs[e].owner /\ docs'[e].content = docs[e].content
                             /\ docs'[e].active = docs[e].active
                             /\ docs'[e].indexed = docs[e].indexed
                             /\ docs'[e].version = docs[e].version
    BY <1>4, <1>5
  <1> QED
    BY <1>1, <1>2, <1>3, <1>4, <1>5, <1>6, <1>7 DEF Rescopes

(* A change of access leaves everything but the scope alone. *)
LEMMA ChangeAccessKeeps ==
  ASSUME IndInv, NEW c \in Clients, ChangeAccess(c)
  PROVE  IndInv'
  <1> USE DEF IndInv
  <1>1. req' = [req EXCEPT ![c] = Idle]
    BY DEF ChangeAccess, Answer
  <1>2. PICK d \in Documents : Rescopes(c, d)
    BY AccessFacts
  <1> USE DEF Rescopes
  <1>8. TypeOK'
    <2>1. req' \in [Clients -> Request \cup {Idle}]
      BY <1>1 DEF TypeOK
    <2>2. epoch' \in [{"tenant", "global"} -> 0..EpochModulus - 1]
      BY <1>1, <1>2, KeyIsScope, BumpFacts
    <2> QED
      BY <1>1, <1>2, <2>1, <2>2 DEF TypeOK, runs
  <1>9. PrefixInv' /\ VectorsInv'
    BY <1>2 DEF PrefixInv, VectorsInv, Used
  <1>10. NewestInv'
    <2>1. \A j \in Jobs : jobs[j].status \in Active => jobs[j].doc \in Documents
      BY JobRowOf DEF Used, Active
    <2> QED
      BY <1>1, <1>2, <2>1 DEF NewestInv, Used
  <1>11. GoneInv'
    BY <1>1, <1>2 DEF GoneInv
  <1>12. IndexedInv' /\ OwnerContentUnique'
    BY <1>2 DEF IndexedInv, OwnerContentUnique
  <1>13. HistoryInv'
    BY <1>1, <1>2 DEF HistoryInv
  <1>14. ServesInv'
    <2> SUFFICES ASSUME NEW e \in Documents, Present(e)'
                 PROVE  Serves(e)'
      BY DEF ServesInv
    <2>1. Present(e) /\ Serves(e)
      BY <1>2 DEF ServesInv
    <2> QED
      BY <1>1, <1>2, <2>1, ServesStay
  <1>15. SettledServesCurrent'
    BY <1>1, <1>2 DEF SettledServesCurrent, JobsOf
  <1> QED
    BY <1>8, <1>9, <1>10, <1>11, <1>12, <1>13, <1>14, <1>15

LEMMA CommitReprocessKeeps ==
  ASSUME IndInv, NEW c \in Clients, CommitReprocess(c)
  PROVE  IndInv'
  <1> USE DEF IndInv
  <1>0. req[c].at = "requeue"
    BY DEF CommitReprocess
  <1>3. PICK d \in Documents : d = req[c].doc /\ req[c].content \in Contents /\ req[c].version \in Nat
    BY <1>0, RequestOf
  <1>1. /\ IdleDocument(d)
        /\ req' = [req EXCEPT ![c] = Idle]
        /\ UNCHANGED <<docs, versions, generations, vectors, chunks, tombstones, epoch, runs, blobs>>
    BY <1>3 DEF CommitReprocess, Answer
  <1>2. PICK j \in Jobs : NextJob(j) /\ QueueJob(j, d, req[c].content, req[c].version)
    BY <1>3 DEF CommitReprocess
  <1>4. Present(d) /\ \A i \in Jobs : jobs[i].status \in Active => jobs[i].doc # d
    BY <1>1 DEF IdleDocument, ActiveJobs
  <1>5. Present(d)' /\ (\A e \in Documents : Present(e)' <=> Present(e))
        /\ \A e \in Documents \ {d} : docs'[e] = docs[e]
    BY <1>1, <1>4 DEF Present
  <1>6. /\ jobs' \in [Jobs -> JobRow \cup {NoJobRow}]
        /\ PrefixInv'
    BY <1>2, <1>3, QueueFacts
  <1>7. /\ NewestInv' /\ VectorsInv' /\ SettledServesCurrent'
        /\ \A a \in Jobs : jobs[a].status = "done" => jobs'[a] = jobs[a]
    BY <1>1, <1>2, <1>3, <1>4, <1>5, QueueKeeps
  <1>8. TypeOK'
    <2>1. req' \in [Clients -> Request \cup {Idle}]
      BY <1>1 DEF TypeOK
    <2> QED
      BY <1>1, <1>6, <2>1 DEF TypeOK, runs
  <1>9. GoneInv' /\ IndexedInv' /\ HistoryInv' /\ OwnerContentUnique'
    BY <1>1, <1>5 DEF GoneInv, IndexedInv, HistoryInv, OwnerContentUnique
  <1>10. ServesInv'
    <2> SUFFICES ASSUME NEW e \in Documents, Present(e)'
                 PROVE  Serves(e)'
      BY DEF ServesInv
    <2>1. Present(e) /\ Serves(e)
      BY <1>5 DEF ServesInv
    <2>2. docs[e].active \in Jobs \cup {NoGeneration}
      BY <2>1, RowOf
    <2>3. docs[e].active # NoGeneration => jobs'[docs[e].active] = jobs[docs[e].active]
      BY <1>7, <2>1, <2>2 DEF Serves
    <2> QED
      BY <1>1, <2>1, <2>3, ServesStay
  <1> QED
    BY <1>6, <1>7, <1>8, <1>9, <1>10

-------------------------------------------------------------------------------
(***************************************************************************)
(* Deletion.                                                               *)
(***************************************************************************)

LEMMA DeleteVectorsKeeps ==
  ASSUME IndInv, NEW c \in Clients, DeleteVectors(c)
  PROVE  IndInv'
  <1> USE DEF IndInv
  <1> DEFINE r == [req[c] EXCEPT !.at = "list"]
  <1>1. /\ req[c].at = "vectors" /\ req' = [req EXCEPT ![c] = r]
        /\ vectors' = [j \in Jobs |->
             IF vectors[j] = "live" /\ jobs[j].doc = req[c].doc THEN "deleted" ELSE vectors[j]]
        /\ UNCHANGED <<docs, versions, jobs, generations, chunks, tombstones, epoch, runs, blobs>>
    BY DEF DeleteVectors, Step
  <1>2. req[c] \in Request
    BY <1>1 DEF TypeOK, Idle
  <1>3. r \in Request
    BY <1>1, <1>2 DEF Request
  <1> HIDE DEF r
  <1>4. /\ vectors' \in [Jobs -> {"none", "live", "deleted"}]
        /\ \A j \in Jobs : vectors'[j] = "none" <=> vectors[j] = "none"
    BY <1>1 DEF TypeOK
  <1>5. TypeOK'
    <2>1. req' \in [Clients -> Request \cup {Idle}]
      BY <1>1, <1>3 DEF TypeOK
    <2> QED
      BY <1>1, <1>4, <2>1 DEF TypeOK, runs
  <1>6. PrefixInv' /\ NewestInv' /\ VectorsInv'
    BY <1>1, <1>4 DEF PrefixInv, NewestInv, VectorsInv, Used, Present
  <1>7. GoneInv' /\ IndexedInv' /\ HistoryInv' /\ OwnerContentUnique'
    BY <1>1 DEF GoneInv, IndexedInv, HistoryInv, OwnerContentUnique, Present
  <1>8. ServesInv'
    <2> SUFFICES ASSUME NEW e \in Documents, Present(e)'
                 PROVE  Serves(e)'
      BY DEF ServesInv
    <2>1. Present(e) /\ Serves(e)
      BY <1>1 DEF ServesInv, Present
    <2>2. docs[e].active \in Jobs \cup {NoGeneration}
      BY <2>1, RowOf
    <2> QED
      BY <1>1, <1>4, <2>1, <2>2, ServesStay
  <1>9. SettledServesCurrent'
    BY <1>1 DEF SettledServesCurrent, JobsOf, Present
  <1> QED
    BY <1>5, <1>6, <1>7, <1>8, <1>9

(* The row goes, and with it the versions, the generations, the chunks and *)
(* every claim of its jobs; what other documents have stays.               *)
LEMMA DeleteRowKeeps ==
  ASSUME IndInv, NEW c \in Clients, DeleteRow(c)
  PROVE  IndInv'
  <1> USE DEF IndInv
  <1>0. req[c].at = "row"
    BY DEF DeleteRow
  <1>3. PICK d \in Documents : d = req[c].doc
    BY <1>0, RequestOf
  <1> DEFINE r == [req[c] EXCEPT !.at = "count"]
  <1>1. req[c].at = "row" /\ req' = [req EXCEPT ![c] = r] /\ UNCHANGED <<runs, blobs>>
    BY DEF DeleteRow, Step
  <1>2. req[c] \in Request
    BY <1>1 DEF TypeOK, Idle
  <1>6. r \in Request
    BY <1>1, <1>2 DEF Request
  <1>4. CASE ~Present(d)
    <2>1. UNCHANGED tables
      BY <1>3, <1>4 DEF DeleteRow
    <2>2. blobs' \subseteq Contents
      BY <1>1 DEF TypeOK
    <2> HIDE DEF r
    <2> QED
      BY <1>1, <1>6, <2>1, <2>2, RequestStays
  <1>5. CASE Present(d)
    <2>1. /\ tombstones' = tombstones \cup {d}
          /\ Bump(docs[d].scope)
          /\ chunks' = [chunks EXCEPT ![d] = NoGeneration]
          /\ jobs' = [j \in Jobs |->
                 IF jobs[j].status # "unused" /\ jobs[j].doc = d
                 THEN [jobs[j] EXCEPT !.status = "deleted"] ELSE jobs[j]]
          /\ versions' = {v \in versions : v.doc # d}
          /\ generations' = [j \in Jobs |->
                 IF generations[j].present /\ generations[j].doc = d
                 THEN NoRow ELSE generations[j]]
          /\ docs' = [docs EXCEPT ![d] = NoRow]
          /\ vectors' = vectors
      BY <1>3, <1>5 DEF DeleteRow
    <2> HIDE DEF r
    <2>2. /\ docs' \in [Documents -> DocRow \cup {NoRow}]
          /\ ~Present(d)'
          /\ \A e \in Documents \ {d} : docs'[e] = docs[e] /\ (Present(e)' <=> Present(e))
      BY <1>3, <2>1 DEF TypeOK, Present, NoRow
    <2>3. ASSUME NEW j \in Jobs
          PROVE  /\ Used(j)' <=> Used(j)
                 /\ Used(j) => jobs'[j] \in JobRow /\ jobs'[j].doc = jobs[j].doc
                 /\ ~Used(j) => jobs'[j] = jobs[j]
                 /\ Used(j) /\ jobs[j].doc # d => jobs'[j] = jobs[j]
                 /\ Used(j) /\ jobs[j].doc = d => jobs'[j].status = "deleted"
      <3>1. CASE ~Used(j)
        BY <2>1, <3>1 DEF Used
      <3>2. CASE Used(j)
        <4>1. jobs[j] \in JobRow
          BY <3>2, JobRowOf
        <4>2. CASE jobs[j].doc = d
          <5>1. jobs'[j] = [jobs[j] EXCEPT !.status = "deleted"]
            BY <2>1, <3>2, <4>2 DEF Used
          <5>2. /\ [jobs[j] EXCEPT !.status = "deleted"] \in JobRow
                /\ [jobs[j] EXCEPT !.status = "deleted"].doc = jobs[j].doc
                /\ [jobs[j] EXCEPT !.status = "deleted"].status = "deleted"
            BY <4>1 DEF JobRow
          <5> QED
            BY <3>2, <4>2, <5>1, <5>2 DEF Used
        <4>3. CASE jobs[j].doc # d
          BY <2>1, <3>2, <4>1, <4>3 DEF Used
        <4> QED
          BY <4>2, <4>3
      <3> QED
        BY <3>1, <3>2
    <2>4. jobs' \in [Jobs -> JobRow \cup {NoJobRow}]
      <3>1. \A j \in Jobs : jobs'[j] \in JobRow \cup {NoJobRow}
        BY <2>3 DEF TypeOK
      <3>2. jobs' = [j \in Jobs |-> jobs'[j]]
        BY <2>1
      <3> QED
        BY <3>1, <3>2
    <2>5. TypeOK'
      <3>1. req' \in [Clients -> Request \cup {Idle}]
        BY <1>1, <1>6 DEF TypeOK
      <3>2. docs[d].scope \in {"tenant", "global"}
        BY <1>3, <1>5, RowOf, DocumentStoreAssumption
      <3>3. epoch' \in [{"tenant", "global"} -> 0..EpochModulus - 1]
        BY <2>1, <3>2, BumpFacts
      <3>4. generations' \in [Jobs -> GenerationRow \cup {NoRow}]
        BY <2>1 DEF TypeOK
      <3>5. chunks' \in [Documents -> Jobs \cup {NoGeneration}] /\ tombstones' \subseteq Documents
            /\ versions' \subseteq VersionRow
        BY <1>3, <2>1 DEF TypeOK
      <3>6. UNCHANGED <<run, parent, blobs, vectors>>
        BY <1>1, <2>1 DEF runs
      <3> QED
        BY <2>2, <2>4, <3>1, <3>3, <3>4, <3>5, <3>6 DEF TypeOK
    <2>6. PrefixInv'
      BY <2>3 DEF PrefixInv
    <2>7. NewestInv'
      <3> SUFFICES ASSUME NEW j \in Jobs, jobs'[j].status \in Active
                   PROVE  /\ Present(jobs[j].doc)'
                          /\ \A i \in Jobs : Used(i)' /\ jobs'[i].doc = jobs'[j].doc => i <= j
        BY DEF NewestInv
      <3>1. Used(j) /\ jobs[j].doc # d /\ jobs'[j] = jobs[j]
        <4>1. Used(j)'
          BY DEF Used, Active
        <4> QED
          BY <2>3, <4>1 DEF Active
      <3>2. jobs[j].doc \in Documents \ {d}
        BY <3>1, JobRowOf
      <3>3. Present(jobs[j].doc) /\ \A i \in Jobs : Used(i) /\ jobs[i].doc = jobs[j].doc => i <= j
        BY <3>1 DEF NewestInv
      <3>4. Present(jobs[j].doc)'
        BY <2>2, <3>1, <3>2, <3>3 DEF Present
      <3> QED
        BY <2>3, <3>1, <3>3, <3>4
    <2>8. GoneInv'
      <3> SUFFICES ASSUME NEW e \in Documents, ~Present(e)'
                   PROVE  /\ \A v \in versions' : v.doc # e
                          /\ \A j \in Jobs : generations'[j].present => generations'[j].doc # e
                          /\ chunks'[e] = NoGeneration
        BY DEF GoneInv
      <3>1. CASE e = d
        <4>1. \A j \in Jobs : generations'[j].present => generations'[j].doc # d
          BY <2>1 DEF NoRow
        <4>2. chunks'[d] = NoGeneration
          BY <1>3, <2>1 DEF TypeOK
        <4> QED
          BY <2>1, <3>1, <4>1, <4>2
      <3>2. CASE e # d
        <4>1. ~Present(e)
          BY <2>2, <3>2
        <4>2. \A j \in Jobs : generations'[j].present => generations'[j].doc # e
          BY <2>1, <4>1 DEF GoneInv, NoRow
        <4>3. chunks'[e] = NoGeneration
          BY <1>3, <2>1, <3>2, <4>1 DEF GoneInv, TypeOK
        <4> QED
          BY <2>1, <4>1, <4>2, <4>3 DEF GoneInv
      <3> QED
        BY <3>1, <3>2
    <2>9. IndexedInv' /\ OwnerContentUnique'
      BY <2>2 DEF IndexedInv, OwnerContentUnique
    <2>10. HistoryInv'
      <3>1. \A v, w \in versions' : v.doc = w.doc /\ v.version = w.version => v = w
        BY <2>1 DEF HistoryInv
      <3>2. ASSUME NEW e \in Documents, Present(e)'
            PROVE  /\ docs'[e].version >= 1
                   /\ \A n \in 1..docs'[e].version : \E v \in versions' : v.doc = e /\ v.version = n
                   /\ \A v \in versions' : v.doc = e => v.version \in 1..docs'[e].version
                   /\ \E v \in versions' : v.doc = e /\ v.version = docs'[e].version
                                                     /\ v.content = docs'[e].content
        <4>1. e # d /\ docs'[e] = docs[e] /\ Present(e)
          BY <2>2, <3>2
        <4>2. /\ docs[e].version >= 1
              /\ \A n \in 1..docs[e].version : \E v \in versions : v.doc = e /\ v.version = n
              /\ \A v \in versions : v.doc = e => v.version \in 1..docs[e].version
              /\ \E v \in versions : v.doc = e /\ v.version = docs[e].version /\ v.content = docs[e].content
          BY <4>1 DEF HistoryInv
        <4> QED
          BY <2>1, <4>1, <4>2
      <3> QED
        BY <3>1, <3>2 DEF HistoryInv
    <2>11. ServesInv'
      <3> SUFFICES ASSUME NEW e \in Documents, Present(e)'
                   PROVE  Serves(e)'
        BY DEF ServesInv
      <3>1. e # d /\ docs'[e] = docs[e] /\ Present(e) /\ Serves(e)
        BY <2>2 DEF ServesInv
      <3>2. docs[e].active \in Jobs \cup {NoGeneration}
        BY <3>1, RowOf
      <3>3. ASSUME docs[e].active # NoGeneration
            PROVE  /\ jobs'[docs[e].active] = jobs[docs[e].active]
                   /\ generations'[docs[e].active] = generations[docs[e].active]
        <4>1. /\ docs[e].active \in Jobs
              /\ jobs[docs[e].active].status = "done" /\ jobs[docs[e].active].doc = e
              /\ generations[docs[e].active].doc = e
          BY <3>1, <3>2, <3>3 DEF Serves
        <4>2. Used(docs[e].active)
          BY <4>1 DEF Used
        <4> QED
          BY <2>1, <2>3, <3>1, <4>1, <4>2
      <3>4. chunks'[e] = chunks[e] /\ vectors' = vectors
        BY <1>3, <2>1, <3>1 DEF TypeOK
      <3>5. \A v \in versions : v.doc = e => v \in versions'
        BY <2>1, <3>1
      <3> QED
        BY <3>1, <3>3, <3>4, <3>5, ServesStay
    <2>12. VectorsInv'
      BY <2>1, <2>3 DEF VectorsInv
    <2>13. SettledServesCurrent'
      <3> SUFFICES ASSUME NEW e \in Documents, Present(e)', NEW k \in JobsOf(e)',
                          jobs'[k].status = "done", \A i \in JobsOf(e)' : i <= k
                   PROVE  docs'[e].active = k /\ docs'[e].indexed = docs'[e].version
        BY DEF SettledServesCurrent
      <3>1. e # d /\ docs'[e] = docs[e] /\ Present(e)
        BY <2>2
      <3>2. JobsOf(e)' = JobsOf(e)
        <4>1. \A j \in Jobs : j \in JobsOf(e)' <=> j \in JobsOf(e)
          BY <2>3, <3>1 DEF JobsOf, Used
        <4> QED
          BY <4>1 DEF JobsOf
      <3>3. k \in JobsOf(e) /\ jobs[k].status = "done"
        BY <2>3, <3>1, <3>2 DEF JobsOf, Used
      <3> QED
        BY <3>1, <3>2, <3>3 DEF SettledServesCurrent
    <2> QED
      BY <2>5, <2>6, <2>7, <2>8, <2>9, <2>10, <2>11, <2>12, <2>13
  <1> QED
    BY <1>4, <1>5

-------------------------------------------------------------------------------
(***************************************************************************)
(* Runs.                                                                   *)
(***************************************************************************)

(* A job whose status is set stays the job it is. *)
LEMMA SetJobFacts ==
  ASSUME TypeOK, NEW j \in Jobs, Used(j),
         NEW status \in {"queued", "running", "done", "dead"}, SetJob(j, status)
  PROVE  /\ jobs' \in [Jobs -> JobRow \cup {NoJobRow}]
         /\ jobs'[j].status = status /\ jobs'[j].doc = jobs[j].doc
         /\ \A i \in Jobs \ {j} : jobs'[i] = jobs[i]
         /\ \A i \in Jobs : /\ Used(i)' <=> Used(i)
                            /\ Used(i) => jobs'[i].doc = jobs[i].doc
         /\ PrefixInv <=> PrefixInv'
  <1> DEFINE r == [jobs[j] EXCEPT !.status = status]
  <1>1. jobs \in [Jobs -> JobRow \cup {NoJobRow}] /\ jobs[j] \in JobRow
    BY JobRowOf DEF TypeOK
  <1>2. jobs' = [jobs EXCEPT ![j] = r]
    BY DEF SetJob
  <1>3. r \in JobRow /\ r.status = status /\ r.doc = jobs[j].doc
    BY <1>1 DEF JobRow
  <1> HIDE DEF r
  <1>4. /\ jobs' \in [Jobs -> JobRow \cup {NoJobRow}]
        /\ jobs'[j] = r
        /\ \A i \in Jobs \ {j} : jobs'[i] = jobs[i]
    BY <1>1, <1>2, <1>3
  <1>5. \A i \in Jobs : /\ Used(i)' <=> Used(i)
                        /\ Used(i) => jobs'[i].doc = jobs[i].doc
    BY <1>3, <1>4 DEF Used
  <1> QED
    BY <1>3, <1>4, <1>5 DEF PrefixInv

(* A job that may still run is claimed, queued again or given up. *)
LEMMA StatusKeeps ==
  ASSUME IndInv, NEW j \in Jobs, jobs[j].status \in Active,
         NEW status \in {"queued", "running", "dead"}, SetJob(j, status),
         run' \in [Jobs -> {"none", "claimed", "snapped", "loaded"}],
         parent' \in [Jobs -> Jobs \cup {NoGeneration}],
         UNCHANGED <<docs, versions, generations, vectors, chunks, tombstones, epoch, blobs, req>>
  PROVE  IndInv'
  <1> USE DEF IndInv
  <1>1. Used(j)
    BY DEF Used, Active
  <1>2. /\ jobs' \in [Jobs -> JobRow \cup {NoJobRow}]
        /\ jobs'[j].status = status /\ jobs'[j].doc = jobs[j].doc
        /\ \A i \in Jobs \ {j} : jobs'[i] = jobs[i]
        /\ PrefixInv'
    BY <1>1, SetJobFacts
  <1>3. \A i \in Jobs : /\ Used(i)' <=> Used(i)
                        /\ Used(i) => jobs'[i].doc = jobs[i].doc
    BY <1>1, SetJobFacts
  <1>4. \A i \in Jobs : (jobs'[i].status \in Active => jobs[i].status \in Active)
    BY <1>2
  <1>5. \A i \in Jobs : jobs[i].status = "done" <=> jobs'[i].status = "done"
    BY <1>2 DEF Active
  <1>6. \A i \in Jobs : jobs[i].status \in Active => Used(i)
    BY DEF Used, Active
  <1>7. \A d \in Documents : Present(d)' <=> Present(d)
    BY DEF Present
  <1>8. TypeOK'
    BY <1>2 DEF TypeOK
  <1>9. NewestInv'
    <2> SUFFICES ASSUME NEW k \in Jobs, jobs'[k].status \in Active
                 PROVE  /\ Present(jobs[k].doc)'
                        /\ \A i \in Jobs : Used(i)' /\ jobs'[i].doc = jobs'[k].doc => i <= k
      BY DEF NewestInv
    <2>1. jobs[k].status \in Active /\ Used(k) /\ jobs'[k].doc = jobs[k].doc
      BY <1>3, <1>4, <1>6
    <2>2. Present(jobs[k].doc) /\ \A i \in Jobs : Used(i) /\ jobs[i].doc = jobs[k].doc => i <= k
      BY <2>1 DEF NewestInv
    <2>3. Present(jobs[k].doc)'
      BY <2>1, <2>2 DEF Present
    <2> QED
      BY <1>3, <2>1, <2>2, <2>3
  <1>10. GoneInv' /\ IndexedInv' /\ HistoryInv' /\ OwnerContentUnique'
    BY DEF GoneInv, IndexedInv, HistoryInv, OwnerContentUnique, Present
  <1>11. ServesInv'
    <2> SUFFICES ASSUME NEW e \in Documents, Present(e)'
                 PROVE  Serves(e)'
      BY DEF ServesInv
    <2>1. Present(e) /\ Serves(e)
      BY <1>7 DEF ServesInv
    <2>2. docs[e].active \in Jobs \cup {NoGeneration}
      BY <2>1, RowOf
    <2>3. docs[e].active # NoGeneration => docs[e].active \in Jobs \ {j}
      BY <2>1, <2>2 DEF Serves, Active
    <2>4. docs[e].active # NoGeneration => jobs'[docs[e].active] = jobs[docs[e].active]
      BY <1>2, <2>3
    <2> QED
      BY <2>1, <2>4, ServesStay
  <1>12. VectorsInv'
    BY <1>3 DEF VectorsInv
  <1>13. SettledServesCurrent'
    <2> SUFFICES ASSUME NEW e \in Documents, Present(e)', NEW k \in JobsOf(e)',
                        jobs'[k].status = "done", \A i \in JobsOf(e)' : i <= k
                 PROVE  docs'[e].active = k /\ docs'[e].indexed = docs'[e].version
      BY DEF SettledServesCurrent
    <2>1. JobsOf(e)' = JobsOf(e)
      BY <1>3 DEF JobsOf, Used
    <2>2. k \in JobsOf(e) /\ jobs[k].status = "done"
      BY <1>5, <2>1 DEF JobsOf
    <2>3. Present(e)
      BY <1>7
    <2> QED
      BY <2>1, <2>2, <2>3 DEF SettledServesCurrent
  <1> QED
    BY <1>2, <1>8, <1>9, <1>10, <1>11, <1>12, <1>13

LEMMA ClaimKeeps ==
  ASSUME IndInv, NEW j \in Jobs, Claim(j)
  PROVE  IndInv'
  <1>1. /\ jobs[j].status \in Active /\ SetJob(j, "running")
        /\ run' = [run EXCEPT ![j] = "claimed"]
        /\ UNCHANGED <<docs, versions, generations, vectors, chunks, tombstones, epoch, parent,
                       blobs, req>>
    BY DEF Claim, Active
  <1>2. /\ run' \in [Jobs -> {"none", "claimed", "snapped", "loaded"}]
        /\ parent' \in [Jobs -> Jobs \cup {NoGeneration}]
    BY <1>1 DEF IndInv, TypeOK
  <1> QED
    BY <1>1, <1>2, StatusKeeps

LEMMA FailRunKeeps ==
  ASSUME IndInv, NEW j \in Jobs, FailRun(j)
  PROVE  IndInv'
  <1>1. /\ jobs[j].status \in Active
        /\ run' = [run EXCEPT ![j] = "none"] /\ parent' = [parent EXCEPT ![j] = NoGeneration]
        /\ UNCHANGED <<docs, versions, generations, vectors, chunks, tombstones, epoch, blobs, req>>
    BY DEF FailRun, Active
  <1>2. PICK status \in {"queued", "dead"} : SetJob(j, status)
    BY DEF FailRun
  <1>3. /\ run' \in [Jobs -> {"none", "claimed", "snapped", "loaded"}]
        /\ parent' \in [Jobs -> Jobs \cup {NoGeneration}]
    BY <1>1 DEF IndInv, TypeOK
  <1> QED
    BY <1>1, <1>2, <1>3, StatusKeeps

\* What a publication of job j does to document d in the tables.
Publishes(j, d) ==
    /\ d = jobs[j].doc /\ Present(d) /\ docs[d].version = jobs[j].version
    /\ docs[d].content = jobs[j].content /\ docs[d].version \in Nat
    /\ jobs[j].status = "running" /\ Used(j)
    /\ SetJob(j, "done") /\ Bump(docs[d].scope)
    /\ docs' \in [Documents -> DocRow \cup {NoRow}]
    /\ \A e \in Documents : /\ Present(e)' <=> Present(e)
                            /\ docs'[e].version = docs[e].version
                            /\ docs'[e].content = docs[e].content
                            /\ docs'[e].owner = docs[e].owner
                            /\ docs'[e].scope = docs[e].scope
    /\ docs'[d].active = j /\ docs'[d].indexed = docs[d].version
    /\ \A e \in Documents \ {d} : docs'[e] = docs[e] /\ chunks'[e] = chunks[e]
    /\ generations' \in [Jobs -> GenerationRow \cup {NoRow}]
    /\ generations'[j].present /\ generations'[j].doc = d
    /\ generations'[j].version = docs[d].version
    /\ generations'[j].content = docs[d].content
    /\ \A i \in Jobs \ {j} : generations'[i] = generations[i] /\ vectors'[i] = vectors[i]
    /\ vectors' \in [Jobs -> {"none", "live", "deleted"}] /\ vectors'[j] = "live"
    /\ chunks' \in [Documents -> Jobs \cup {NoGeneration}] /\ chunks'[d] = j
    /\ run' = [run EXCEPT ![j] = "none"] /\ parent' = [parent EXCEPT ![j] = NoGeneration]
    /\ UNCHANGED <<versions, tombstones, blobs, req>>

LEMMA PublishFacts ==
  ASSUME IndInv, NEW j \in Jobs, Publish(j)
  PROVE  \E d \in Documents : Publishes(j, d)
  <1> USE DEF IndInv
  <1>1. jobs[j].status = "running" /\ Used(j)
    BY DEF Publish, Used
  <1>2. PICK d \in Documents : /\ d = jobs[j].doc
                               /\ jobs[j].version \in Nat /\ jobs[j].content \in Contents
    BY <1>1, JobRowOf
  <1> DEFINE row == WithGeneration(docs[d], j, jobs[j].version)
             g   == [present |-> TRUE, doc |-> d, content |-> jobs[j].content,
                     version |-> jobs[j].version, parent |-> docs[d].active]
  <1>3. /\ Present(d) /\ docs[d].version = jobs[j].version /\ docs[d].content = jobs[j].content
        /\ PublishRows(j) /\ Bump(docs[d].scope)
    BY <1>2 DEF Publish
  <1>4. /\ generations' = [generations EXCEPT ![j] = g]
        /\ vectors' = [vectors EXCEPT ![j] = "live"]
        /\ chunks' = [chunks EXCEPT ![d] = j]
        /\ docs' = [docs EXCEPT ![d] = row]
        /\ SetJob(j, "done")
        /\ run' = [run EXCEPT ![j] = "none"] /\ parent' = [parent EXCEPT ![j] = NoGeneration]
        /\ UNCHANGED <<versions, tombstones, blobs, req>>
    BY <1>2, <1>3 DEF PublishRows, WithGeneration
  <1>5. docs[d] \in DocRow /\ docs[d].version \in Nat /\ docs[d].active \in Jobs \cup {NoGeneration}
    BY <1>3, RowOf
  <1>6. /\ row \in DocRow /\ row.present /\ row.owner = docs[d].owner /\ row.active = j
        /\ row.indexed = jobs[j].version /\ row.content = docs[d].content
        /\ row.scope = docs[d].scope /\ row.version = docs[d].version
    <2> DEFINE version == jobs[j].version
    <2>1. version \in Nat /\ docs[d] \in DocRow
      BY <1>2, <1>5
    <2> HIDE DEF version
    <2>2. LET n == WithGeneration(docs[d], j, version)
          IN  /\ n \in DocRow
              /\ n.present /\ n.owner = docs[d].owner /\ n.active = j /\ n.indexed = version
              /\ n.content = docs[d].content /\ n.scope = docs[d].scope
              /\ n.version = docs[d].version
      BY <2>1, RowWithGeneration
    <2> QED
      BY <2>2 DEF version
  <1>7. /\ g \in GenerationRow /\ g.present /\ g.doc = d /\ g.content = docs[d].content
        /\ g.version = docs[d].version
    BY <1>2, <1>3, <1>5 DEF GenerationRow
  <1> HIDE DEF row, g
  <1>8. /\ docs' \in [Documents -> DocRow \cup {NoRow}]
        /\ docs'[d] = row
        /\ \A e \in Documents \ {d} : docs'[e] = docs[e]
    BY <1>4, <1>6 DEF TypeOK
  <1>9. /\ generations' \in [Jobs -> GenerationRow \cup {NoRow}]
        /\ generations'[j] = g
        /\ \A i \in Jobs \ {j} : generations'[i] = generations[i]
    BY <1>4, <1>7 DEF TypeOK
  <1>10. /\ vectors' \in [Jobs -> {"none", "live", "deleted"}] /\ vectors'[j] = "live"
         /\ \A i \in Jobs \ {j} : vectors'[i] = vectors[i]
    BY <1>4 DEF TypeOK
  <1>11. /\ chunks' \in [Documents -> Jobs \cup {NoGeneration}] /\ chunks'[d] = j
         /\ \A e \in Documents \ {d} : chunks'[e] = chunks[e]
    BY <1>4 DEF TypeOK
  <1>12. \A e \in Documents : Present(e)' <=> Present(e)
    BY <1>3, <1>6, <1>8 DEF Present
  <1>13. \A e \in Documents : /\ docs'[e].version = docs[e].version
                              /\ docs'[e].content = docs[e].content
                              /\ docs'[e].owner = docs[e].owner
                              /\ docs'[e].scope = docs[e].scope
    BY <1>6, <1>8
  <1> QED
    BY <1>1, <1>2, <1>3, <1>4, <1>5, <1>6, <1>7, <1>8, <1>9, <1>10, <1>11, <1>12, <1>13
    DEF Publishes

LEMMA PublishKeeps ==
  ASSUME IndInv, NEW j \in Jobs, Publish(j)
  PROVE  IndInv'
  <1> USE DEF IndInv
  <1>1. PICK d \in Documents : Publishes(j, d)
    BY PublishFacts
  <1> USE DEF Publishes
  <1>2. /\ jobs' \in [Jobs -> JobRow \cup {NoJobRow}]
        /\ jobs'[j].status = "done" /\ jobs'[j].doc = jobs[j].doc
        /\ \A i \in Jobs \ {j} : jobs'[i] = jobs[i]
        /\ PrefixInv'
    BY <1>1, SetJobFacts
  <1>3. \A i \in Jobs : /\ Used(i)' <=> Used(i)
                        /\ Used(i) => jobs'[i].doc = jobs[i].doc
    BY <1>1, SetJobFacts
  <1>4. TypeOK'
    <2>1. /\ run' \in [Jobs -> {"none", "claimed", "snapped", "loaded"}]
          /\ parent' \in [Jobs -> Jobs \cup {NoGeneration}]
      BY <1>1 DEF TypeOK
    <2>2. docs[d].scope \in {"tenant", "global"}
      BY <1>1, RowOf, DocumentStoreAssumption
    <2>3. epoch' \in [{"tenant", "global"} -> 0..EpochModulus - 1]
      BY <1>1, <2>2, BumpFacts
    <2> QED
      BY <1>1, <1>2, <2>1, <2>3 DEF TypeOK
  <1>5. NewestInv'
    <2> SUFFICES ASSUME NEW k \in Jobs, jobs'[k].status \in Active
                 PROVE  /\ Present(jobs[k].doc)'
                        /\ \A i \in Jobs : Used(i)' /\ jobs'[i].doc = jobs'[k].doc => i <= k
      BY DEF NewestInv
    <2>1. k # j /\ jobs'[k] = jobs[k]
      BY <1>2 DEF Active
    <2>2. Used(k)
      BY <2>1 DEF Used, Active
    <2>3. Present(jobs[k].doc) /\ \A i \in Jobs : Used(i) /\ jobs[i].doc = jobs[k].doc => i <= k
      BY <2>1 DEF NewestInv
    <2>4. jobs[k].doc \in Documents
      BY <2>2, JobRowOf
    <2>5. Present(jobs[k].doc)'
      BY <1>1, <2>1, <2>3, <2>4 DEF Present
    <2> QED
      BY <1>3, <2>1, <2>3, <2>5
  <1>6. GoneInv'
    <2> SUFFICES ASSUME NEW e \in Documents, ~Present(e)'
                 PROVE  /\ \A v \in versions' : v.doc # e
                        /\ \A i \in Jobs : generations'[i].present => generations'[i].doc # e
                        /\ chunks'[e] = NoGeneration
      BY DEF GoneInv
    <2>1. ~Present(e) /\ e # d
      BY <1>1
    <2> QED
      BY <1>1, <2>1 DEF GoneInv
  <1>7. IndexedInv'
    <2>1. \A e \in Documents : Present(e)' => docs'[e].indexed <= docs'[e].version
      BY <1>1 DEF IndexedInv
    <2> QED
      BY <2>1 DEF IndexedInv
  <1>8. HistoryInv'
    BY <1>1 DEF HistoryInv
  <1>9. ServesInv'
    <2> SUFFICES ASSUME NEW e \in Documents, Present(e)'
                 PROVE  Serves(e)'
      BY DEF ServesInv
    <2>1. CASE e = d
      <3>1. \E v \in versions : v.doc = d /\ v.version = docs[d].version /\ v.content = docs[d].content
        BY <1>1 DEF HistoryInv
      <3>2. /\ docs'[d].active = j /\ docs'[d].indexed = docs[d].version
            /\ jobs'[j].status = "done" /\ jobs'[j].doc = d
            /\ generations'[j].present /\ generations'[j].doc = d
            /\ generations'[j].version = docs[d].version /\ generations'[j].content = docs[d].content
            /\ chunks'[d] = j /\ vectors'[j] # "none" /\ versions' = versions
        BY <1>1, <1>2
      <3> QED
        BY <2>1, <3>1, <3>2 DEF Serves
    <2>2. CASE e # d
      <3>1. Present(e) /\ Serves(e) /\ docs'[e] = docs[e] /\ chunks'[e] = chunks[e]
        BY <1>1, <2>2 DEF ServesInv
      <3>2. docs[e].active \in Jobs \cup {NoGeneration}
        BY <3>1, RowOf
      <3>3. docs[e].active # NoGeneration => docs[e].active \in Jobs \ {j}
        BY <1>1, <3>1, <3>2 DEF Serves
      <3>4. docs[e].active # NoGeneration =>
              /\ jobs'[docs[e].active] = jobs[docs[e].active]
              /\ generations'[docs[e].active] = generations[docs[e].active]
              /\ vectors'[docs[e].active] = vectors[docs[e].active]
        BY <1>1, <1>2, <3>3
      <3> QED
        BY <1>1, <3>1, <3>4, ServesStay
    <2> QED
      BY <2>1, <2>2
  <1>10. VectorsInv'
    BY <1>1, <1>3 DEF VectorsInv
  <1>11. SettledServesCurrent'
    <2> SUFFICES ASSUME NEW e \in Documents, Present(e)', NEW k \in JobsOf(e)',
                        jobs'[k].status = "done", \A i \in JobsOf(e)' : i <= k
                 PROVE  docs'[e].active = k /\ docs'[e].indexed = docs'[e].version
      BY DEF SettledServesCurrent
    <2>1. JobsOf(e)' = JobsOf(e)
      BY <1>3 DEF JobsOf, Used
    <2>2. k \in Jobs /\ Used(k) /\ jobs[k].doc = e
      BY <2>1 DEF JobsOf, Used
    <2>3. CASE e = d
      <3>1. j \in JobsOf(e)
        BY <1>1, <2>3 DEF JobsOf, Used
      <3>2. j <= k
        BY <2>1, <3>1
      <3>3. k <= j
        BY <1>1, <2>2, <2>3 DEF NewestInv, Active
      <3>4. j \in Nat /\ k \in Nat
        BY <2>2, DocumentStoreAssumption DEF Jobs
      <3>5. k = j
        BY <3>2, <3>3, <3>4
      <3> QED
        BY <1>1, <2>3, <3>5
    <2>4. CASE e # d
      <3>1. k # j /\ jobs'[k] = jobs[k]
        BY <1>1, <1>2, <2>2, <2>4
      <3>2. Present(e) /\ docs'[e] = docs[e] /\ k \in JobsOf(e) /\ jobs[k].status = "done"
        BY <1>1, <2>1, <2>4, <3>1
      <3> QED
        BY <2>1, <3>2 DEF SettledServesCurrent
    <2> QED
      BY <2>3, <2>4
  <1>12. OwnerContentUnique'
    BY <1>1 DEF OwnerContentUnique
  <1> QED
    BY <1>2, <1>4, <1>5, <1>6, <1>7, <1>8, <1>9, <1>10, <1>11, <1>12

-------------------------------------------------------------------------------
(***************************************************************************)
(* The invariant.                                                          *)
(***************************************************************************)
LEMMA InitInv == Init => IndInv
  <1> SUFFICES ASSUME Init PROVE IndInv
    OBVIOUS
  <1>1. 0 \in 0..EpochModulus - 1
    BY DocumentStoreAssumption
  <1>2. \A d \in Documents : ~Present(d)
    BY DEF Init, Present, NoRow
  <1>3. \A j \in Jobs : jobs[j].status = "unused"
    BY DEF Init, NoJobRow
  <1>4. TypeOK
    <2>1. /\ docs \in [Documents -> DocRow \cup {NoRow}]
          /\ jobs \in [Jobs -> JobRow \cup {NoJobRow}]
          /\ generations \in [Jobs -> GenerationRow \cup {NoRow}]
          /\ req \in [Clients -> Request \cup {Idle}]
      BY DEF Init
    <2>2. epoch \in [{"tenant", "global"} -> 0..EpochModulus - 1]
      BY <1>1 DEF Init
    <2> QED
      BY <2>1, <2>2 DEF Init, TypeOK
  <1>5. PrefixInv /\ NewestInv /\ VectorsInv
    BY <1>3 DEF Init, PrefixInv, NewestInv, VectorsInv, Used, Active
  <1>6. GoneInv
    BY DEF Init, GoneInv, NoRow
  <1>7. IndexedInv /\ ServesInv /\ SettledServesCurrent /\ OwnerContentUnique
    BY <1>2 DEF IndexedInv, ServesInv, SettledServesCurrent, OwnerContentUnique
  <1>8. HistoryInv
    BY <1>2 DEF Init, HistoryInv
  <1> QED
    BY <1>4, <1>5, <1>6, <1>7, <1>8 DEF IndInv

LEMMA ClientStepKeeps ==
  ASSUME IndInv, NEW c \in Clients, ClientStep(c)
  PROVE  IndInv'
  <1>1. CASE Abandon(c)
    BY <1>1, AbandonKeeps
  <1>2. CASE \E d \in Documents, content \in Contents, scope \in Scopes : UploadTo(c, d, content, scope)
    BY <1>2, UploadKeeps
  <1>3. CASE \E d \in Documents, scope \in Scopes : UploadSame(c, d, scope)
    BY <1>3, UploadSameKeeps
  <1>4. CASE \E u \in Users, content \in Contents, scope \in Scopes : UploadNew(c, u, content, scope)
    BY <1>4, UploadKeeps
  <1>5. CASE PutBlob(c)
    BY <1>5, PutBlobKeeps
  <1>6. CASE CommitCreate(c)
    BY <1>6, CommitCreateKeeps
  <1>7. CASE CommitUpdate(c)
    BY <1>7, CommitUpdateKeeps
  <1>8. CASE ChangeAccess(c)
    BY <1>8, ChangeAccessKeeps
  <1>9. CASE \E d \in Documents : StartReprocess(c, d) \/ StartDelete(c, d)
    BY <1>9, StartReprocessKeeps, StartDeleteKeeps
  <1>10. CASE CommitReprocess(c)
    BY <1>10, CommitReprocessKeeps
  <1>11. CASE DeleteVectors(c)
    BY <1>11, DeleteVectorsKeeps
  <1>12. CASE ListVersions(c)
    BY <1>12, ListVersionsKeeps
  <1>13. CASE DeleteRow(c)
    BY <1>13, DeleteRowKeeps
  <1>14. CASE CountReferences(c)
    BY <1>14, CountReferencesKeeps
  <1>15. CASE UnlinkBlob(c)
    BY <1>15, UnlinkBlobKeeps
  <1> QED
    BY <1>1, <1>2, <1>3, <1>4, <1>5, <1>6, <1>7, <1>8, <1>9, <1>10, <1>11, <1>12, <1>13, <1>14,
       <1>15 DEF ClientStep

LEMMA NextKeeps == IndInv /\ [Next]_vars => IndInv'
  <1> SUFFICES ASSUME IndInv, [Next]_vars PROVE IndInv'
    OBVIOUS
  <1>1. CASE \E c \in Clients : ClientStep(c)
    BY <1>1, ClientStepKeeps
  <1>2. CASE \E j \in Jobs : JobStep(j)
    BY <1>2, ClaimKeeps, ReadsKeep, FailRunKeeps, PublishKeeps DEF JobStep
  <1>3. CASE UNCHANGED vars
    <2>1. TypeOK'
      BY <1>3 DEF IndInv, TypeOK, vars, tables, runs
    <2> QED
      BY <1>3, <2>1, TablesStay DEF vars
  <1> QED
    BY <1>1, <1>2, <1>3 DEF Next

(* The invariant holds in every behaviour, whatever requests and runs      *)
(* interleave.                                                             *)
THEOREM Invariance == Spec => []IndInv
  BY InitInv, NextKeeps, PTL DEF Spec

(* Every table holds rows of its type. *)
THEOREM TypeCorrect == Spec => []TypeOK
  <1>1. IndInv => TypeOK
    BY DEF IndInv
  <1> QED
    BY <1>1, Invariance, PTL

-------------------------------------------------------------------------------
(***************************************************************************)
(* What follows.                                                           *)
(***************************************************************************)

(* The history of a document is complete: one row for each version up to   *)
(* the current one, and the newest names the current content, with uploads *)
(* racing for the next number.                                             *)
THEOREM HistoryIsComplete == Spec => []HistoryComplete
  <1>1. ASSUME HistoryInv
        PROVE  HistoryComplete
    <2> SUFFICES ASSUME NEW d \in Documents, Present(d), NEW n \in 1..docs[d].version
                 PROVE  Cardinality({v \in versions : v.doc = d /\ v.version = n}) = 1
      BY <1>1 DEF HistoryComplete, HistoryInv
    <2>1. PICK w \in versions : w.doc = d /\ w.version = n
      BY <1>1 DEF HistoryInv
    <2>2. {v \in versions : v.doc = d /\ v.version = n} = {w}
      BY <1>1, <2>1 DEF HistoryInv
    <2> QED
      BY <2>2, FS_Singleton
  <1>2. IndInv => HistoryInv
    BY DEF IndInv
  <1> QED
    BY <1>1, <1>2, Invariance, PTL

(* No two documents of an owner hold the same content, whatever uploads of *)
(* the owner are under way at once.                                        *)
THEOREM OwnerContents == Spec => []OwnerContentUnique
  <1>1. IndInv => OwnerContentUnique
    BY DEF IndInv
  <1> QED
    BY <1>1, Invariance, PTL

(* A deleted document leaves no row behind and gets none again from        *)
(* requests and runs that began before.                                    *)
THEOREM DeletionIsComplete == Spec => []DeletionComplete
  <1>1. ASSUME NewestInv, GoneInv
        PROVE  DeletionComplete
    <2> SUFFICES ASSUME NEW d \in Documents, ~Present(d)
                 PROVE  /\ ActiveJobs(d) = {}
                        /\ ~\E v \in versions : v.doc = d
                        /\ ~\E j \in Jobs : generations[j].present /\ generations[j].doc = d
                        /\ chunks[d] = NoGeneration
      BY DEF DeletionComplete
    <2>1. ActiveJobs(d) = {}
      BY <1>1 DEF ActiveJobs, NewestInv
    <2> QED
      BY <1>1, <2>1 DEF GoneInv
  <1>2. IndInv => NewestInv /\ GoneInv
    BY DEF IndInv
  <1> QED
    BY <1>1, <1>2, Invariance, PTL

(* What a document serves is one whole published generation of one of its  *)
(* versions.                                                               *)
THEOREM ServedWhole == Spec => []ActiveGenerationWhole
  <1>1. IndInv => ActiveGenerationWhole
    BY DEF IndInv, ServesInv, Serves, ActiveGenerationWhole
  <1> QED
    BY <1>1, Invariance, PTL

(* A document whose last job is done serves its current version: nothing   *)
(* that was superseded while the job ran is what readers get.              *)
THEOREM SettledServes == Spec => []SettledServesCurrent
  <1>1. IndInv => SettledServesCurrent
    BY DEF IndInv
  <1> QED
    BY <1>1, Invariance, PTL

(* At most one queued or running job per document, whatever uploads and    *)
(* reprocess requests race.                                                *)
THEOREM OneActive == Spec => []OneActiveJob
  <1>1. ASSUME NewestInv
        PROVE  OneActiveJob
    <2> SUFFICES ASSUME NEW d \in Documents
                 PROVE  Cardinality(ActiveJobs(d)) <= 1
      BY DEF OneActiveJob
    <2>1. ASSUME NEW i \in ActiveJobs(d), NEW j \in ActiveJobs(d)
          PROVE  i = j
      <3>1. /\ i \in Jobs /\ Used(i) /\ jobs[i].status \in Active /\ jobs[i].doc = d
            /\ j \in Jobs /\ Used(j) /\ jobs[j].status \in Active /\ jobs[j].doc = d
        BY DEF ActiveJobs, Used, Active
      <3>2. i <= j /\ j <= i
        BY <1>1, <3>1 DEF NewestInv
      <3>3. i \in Nat /\ j \in Nat
        BY <3>1, DocumentStoreAssumption DEF Jobs
      <3> QED
        BY <3>2, <3>3
    <2>2. CASE ActiveJobs(d) = {}
      BY <2>2, FS_EmptySet
    <2>3. CASE ActiveJobs(d) # {}
      <3>1. PICK j \in ActiveJobs(d) : TRUE
        BY <2>3
      <3>2. ActiveJobs(d) = {j}
        BY <2>1, <3>1
      <3> QED
        BY <3>2, FS_Singleton
    <2> QED
      BY <2>2, <2>3
  <1>2. IndInv => NewestInv
    BY DEF IndInv
  <1> QED
    BY <1>1, <1>2, Invariance, PTL

-------------------------------------------------------------------------------
(***************************************************************************)
(* Readers are never taken back.                                           *)
(***************************************************************************)
(* The steps that write a row of the documents table. *)
LEMMA WritersOfDocs ==
  ASSUME [Next]_vars, docs' # docs
  PROVE  \/ \E c \in Clients : CommitCreate(c) \/ CommitUpdate(c) \/ ChangeAccess(c) \/ DeleteRow(c)
         \/ \E j \in Jobs : Publish(j)
  <1>1. ASSUME NEW c \in Clients, ClientStep(c)
        PROVE  CommitCreate(c) \/ CommitUpdate(c) \/ ChangeAccess(c) \/ DeleteRow(c)
    BY <1>1 DEF ClientStep, Abandon, UploadTo, UploadSame, UploadNew, PutBlob, StartReprocess,
       StartDelete, CommitReprocess, DeleteVectors, ListVersions, CountReferences, UnlinkBlob, tables
  <1>2. ASSUME NEW j \in Jobs, JobStep(j)
        PROVE  Publish(j)
    BY <1>2 DEF JobStep, Claim, ReadDocument, ReadBlob, FailRun, tables
  <1>3. ~UNCHANGED vars
    BY DEF vars, tables
  <1> QED
    BY <1>1, <1>2, <1>3 DEF Next

LEMMA NoGoingBackStep ==
  ASSUME IndInv, [Next]_vars, NEW d \in Documents, Present(d), Present(d)'
  PROVE  docs'[d].indexed >= docs[d].indexed /\ docs'[d].version >= docs[d].version
  <1> USE DEF IndInv
  <1>0. docs[d].version \in Nat /\ docs[d].indexed \in Nat
    BY RowOf
  <1>1. SUFFICES ASSUME docs' # docs
                 PROVE  docs'[d].indexed >= docs[d].indexed /\ docs'[d].version >= docs[d].version
    BY <1>0
  <1>2. CASE \E c \in Clients : CommitCreate(c)
    <2>1. docs'[d] = docs[d]
      <3>1. PICK c \in Clients : CommitCreate(c)
        BY <1>2
      <3>2. PICK e \in Documents : ~Present(e) /\ \A x \in Documents \ {e} : docs'[x] = docs[x]
        BY <3>1 DEF CommitCreate, TypeOK
      <3> QED
        BY <3>2
    <2> QED
      BY <1>0, <2>1
  <1>3. CASE \E c \in Clients : CommitUpdate(c)
    <2>1. PICK c \in Clients, e \in Documents, j \in Jobs : Updates(c, e, j)
      BY <1>3, UpdateFacts
    <2>2. CASE d = e
      BY <1>0, <2>1, <2>2 DEF Updates
    <2>3. CASE d # e
      <3>1. docs'[d] = docs[d]
        BY <2>1, <2>3 DEF Updates
      <3> QED
        BY <1>0, <3>1
    <2> QED
      BY <2>2, <2>3
  <1>4. CASE \E c \in Clients : ChangeAccess(c)
    <2>1. docs'[d].version = docs[d].version /\ docs'[d].indexed = docs[d].indexed
      <3>1. PICK c \in Clients, e \in Documents : Rescopes(c, e)
        BY <1>4, AccessFacts
      <3> QED
        BY <3>1 DEF Rescopes
    <2> QED
      BY <1>0, <2>1
  <1>5. CASE \E c \in Clients : DeleteRow(c)
    <2>1. docs'[d] = docs[d]
      <3>1. PICK c \in Clients : DeleteRow(c)
        BY <1>5
      <3>2. req[c].doc \in Documents
        BY <3>1, RequestOf DEF DeleteRow
      <3>3. docs' = docs \/ docs' = [docs EXCEPT ![req[c].doc] = NoRow]
        BY <3>1 DEF DeleteRow, tables
      <3> QED
        BY <3>2, <3>3 DEF TypeOK, Present, NoRow
    <2> QED
      BY <1>0, <2>1
  <1>6. CASE \E j \in Jobs : Publish(j)
    <2>1. PICK j \in Jobs, e \in Documents : Publishes(j, e)
      BY <1>6, PublishFacts
    <2>2. CASE d = e
      BY <1>0, <2>1, <2>2 DEF Publishes, IndexedInv
    <2>3. CASE d # e
      <3>1. docs'[d] = docs[d]
        BY <2>1, <2>3 DEF Publishes
      <3> QED
        BY <1>0, <3>1
    <2> QED
      BY <2>2, <2>3
  <1>7. \/ \E c \in Clients : CommitCreate(c) \/ CommitUpdate(c) \/ ChangeAccess(c) \/ DeleteRow(c)
        \/ \E j \in Jobs : Publish(j)
    BY <1>1, WritersOfDocs
  <1> QED
    BY <1>2, <1>3, <1>4, <1>5, <1>6, <1>7

(* Readers are never taken back to an older version of a document. *)
THEOREM NoGoingBack == Spec => NoRollback
  <1>1. IndInv /\ [Next]_vars =>
          [\A d \in Documents :
            (Present(d) /\ Present(d)') =>
                docs'[d].indexed >= docs[d].indexed /\ docs'[d].version >= docs[d].version]_vars
    BY NoGoingBackStep
  <1> QED
    BY <1>1, Invariance, PTL DEF Spec, NoRollback

-------------------------------------------------------------------------------
(***************************************************************************)
(* What readers may retrieve, and the revision they are stamped with.      *)
(***************************************************************************)
Covered(r) ==
    \/ EpochOf(r)' # EpochOf(r)
    \/ Retrievable(r)' = {j \in Retrievable(r) : vectors'[j] = "live"}

(* The revision of the corpus moves for the members, and for the readers   *)
(* of other tenants too when a global document is concerned.               *)
LEMMA BumpMoves ==
  ASSUME TypeOK, NEW key \in {"tenant", "global"}, Bump(key), NEW r \in Readers,
         r = "member" \/ key = "global"
  PROVE  EpochOf(r)' # EpochOf(r)
  <1>1. epoch'[key] # epoch[key]
    BY BumpFacts
  <1>2. CASE r = "member"
    <2>1. /\ EpochOf(r) = <<epoch["tenant"], epoch["global"]>>
          /\ EpochOf(r)' = <<epoch'["tenant"], epoch'["global"]>>
      BY <1>2 DEF EpochOf
    <2> QED
      BY <1>1, <2>1
  <1>3. CASE r # "member"
    <2>1. EpochOf(r) = <<0, epoch["global"]>> /\ EpochOf(r)' = <<0, epoch'["global"]>>
      BY <1>3 DEF EpochOf
    <2> QED
      BY <1>1, <1>3, <2>1
  <1> QED
    BY <1>2, <1>3

(* A step that neither writes documents nor makes vectors live. *)
LEMMA NothingNewCovered ==
  ASSUME NEW r \in Readers, UNCHANGED <<docs, tombstones>>,
         \A j \in Jobs : vectors'[j] = "live" =>
             vectors[j] = "live" /\ jobs'[j].doc = jobs[j].doc
  PROVE  Covered(r)
  <1>1. \A j \in Jobs : j \in Retrievable(r)' <=> j \in Retrievable(r) /\ vectors'[j] = "live"
    BY DEF Retrievable, Present
  <1>2. Retrievable(r)' \subseteq Jobs /\ Retrievable(r) \subseteq Jobs
    BY DEF Retrievable
  <1> QED
    BY <1>1, <1>2 DEF Covered

(* A step that writes document d alone, and moves the revision under a key *)
(* that fits the scope the document had and the one it gets.               *)
LEMMA OneDocumentCovered ==
  ASSUME IndInv, NEW r \in Readers, NEW d \in Documents, NEW key \in {"tenant", "global"}, Bump(key),
         key # "global" => /\ Present(d) => docs[d].scope # "global"
                           /\ Present(d)' => docs'[d].scope # "global",
         \A e \in Documents \ {d} : docs'[e] = docs[e] /\ (e \in tombstones' <=> e \in tombstones),
         \A j \in Jobs : (vectors[j] # "none" \/ vectors'[j] # "none") =>
             Used(j) /\ jobs'[j].doc = jobs[j].doc,
         \A j \in Jobs : Used(j) /\ jobs[j].doc # d => vectors'[j] = vectors[j]
  PROVE  Covered(r)
  <1>1. CASE r = "member" \/ key = "global"
    BY <1>1, BumpMoves DEF Covered, IndInv
  <1>2. CASE r # "member" /\ key # "global"
    <2>1. ASSUME NEW j \in Jobs, vectors[j] = "live" \/ vectors'[j] = "live"
          PROVE  j \in Retrievable(r)' <=> j \in Retrievable(r) /\ vectors'[j] = "live"
      <3>1. Used(j) /\ jobs'[j].doc = jobs[j].doc
        BY <2>1
      <3>2. jobs[j].doc \in Documents
        BY <3>1, JobRowOf DEF IndInv
      <3>3. CASE jobs[j].doc = d
        BY <1>2, <3>1, <3>3 DEF Retrievable
      <3>4. CASE jobs[j].doc # d
        <4>1. /\ docs'[jobs[j].doc] = docs[jobs[j].doc] /\ vectors'[j] = vectors[j]
              /\ jobs[j].doc \in tombstones' <=> jobs[j].doc \in tombstones
          BY <3>1, <3>2, <3>4
        <4> QED
          BY <2>1, <3>1, <4>1 DEF Retrievable, Present
      <3> QED
        BY <3>3, <3>4
    <2>2. \A j \in Jobs : j \in Retrievable(r)' <=> j \in Retrievable(r) /\ vectors'[j] = "live"
      BY <2>1 DEF Retrievable
    <2>3. Retrievable(r)' \subseteq Jobs /\ Retrievable(r) \subseteq Jobs
      BY DEF Retrievable
    <2> QED
      BY <2>2, <2>3 DEF Covered
  <1> QED
    BY <1>1, <1>2

LEMMA CreateCovered ==
  ASSUME IndInv, NEW c \in Clients, CommitCreate(c), NEW r \in Readers
  PROVE  Covered(r)
  <1>1. PICK d \in Documents, j \in Jobs :
          /\ ~Present(d) /\ NextJob(j)
          /\ docs'[d].active = NoGeneration
          /\ \A e \in Documents \ {d} : docs'[e] = docs[e]
          /\ \A i \in Jobs \ {j} : jobs'[i] = jobs[i]
          /\ tombstones' = tombstones /\ vectors' = vectors
    <2>1. PICK d \in Documents \ tombstones, j \in Jobs :
            /\ ~Present(d)
            /\ NextJob(j)
            /\ docs' = [docs EXCEPT ![d] =
                    [present |-> TRUE, owner |-> req[c].user, content |-> req[c].content,
                     version |-> 1, scope |-> req[c].scope, active |-> NoGeneration,
                     indexed |-> 0]]
            /\ QueueJob(j, d, req[c].content, 1)
      BY DEF CommitCreate
    <2>2. docs'[d].active = NoGeneration /\ \A e \in Documents \ {d} : docs'[e] = docs[e]
      BY <2>1 DEF IndInv, TypeOK
    <2>3. \A i \in Jobs \ {j} : jobs'[i] = jobs[i]
      BY <2>1 DEF QueueJob, IndInv, TypeOK
    <2>4. tombstones' = tombstones /\ vectors' = vectors
      BY DEF CommitCreate
    <2> QED
      BY <2>1, <2>2, <2>3, <2>4
  <1>2. ASSUME NEW i \in Jobs, vectors[i] = "live"
        PROVE  i \in Retrievable(r)' <=> i \in Retrievable(r)
    <2>1. Used(i) /\ i # j
      BY <1>1, <1>2, NextJobIsNewest DEF IndInv, VectorsInv
    <2>2. jobs'[i] = jobs[i] /\ jobs[i].doc \in Documents
      BY <1>1, <2>1, JobRowOf DEF IndInv
    <2>3. CASE jobs[i].doc = d
      <3>1. i # NoGeneration
        BY DocumentStoreAssumption DEF Jobs, NoGeneration
      <3> QED
        BY <1>1, <2>2, <2>3, <3>1 DEF Retrievable
    <2>4. CASE jobs[i].doc # d
      <3>1. docs'[jobs[i].doc] = docs[jobs[i].doc]
        BY <1>1, <2>2, <2>4
      <3> QED
        BY <1>1, <2>2, <3>1 DEF Retrievable, Present
    <2> QED
      BY <2>3, <2>4
  <1>3. \A i \in Jobs : i \in Retrievable(r)' <=> i \in Retrievable(r) /\ vectors'[i] = "live"
    BY <1>1, <1>2 DEF Retrievable
  <1>4. Retrievable(r)' \subseteq Jobs /\ Retrievable(r) \subseteq Jobs
    BY DEF Retrievable
  <1> QED
    BY <1>3, <1>4 DEF Covered

(* A new job's vectors are not there yet, and its document is written      *)
(* under the key of both its scopes.                                       *)
LEMMA UpdateCovered ==
  ASSUME IndInv, NEW c \in Clients, CommitUpdate(c), NEW r \in Readers
  PROVE  Covered(r)
  <1>1. PICK d \in Documents, j \in Jobs : Updates(c, d, j)
    BY UpdateFacts
  <1>2. vectors' = vectors /\ tombstones' = tombstones
    BY DEF CommitUpdate
  <1>3. \A i \in Jobs \ {j} : jobs'[i] = jobs[i]
    BY <1>1 DEF Updates, QueueJob, IndInv, TypeOK
  <1>4. \A i \in Jobs : vectors[i] # "none" => Used(i) /\ jobs'[i].doc = jobs[i].doc
    BY <1>1, <1>3, NextJobIsNewest DEF Updates, IndInv, VectorsInv
  <1>5. PICK key \in {"tenant", "global"} : key = EpochKey(docs[d].scope, req[c].scope)
    BY <1>1, KeyIsScope DEF Updates
  <1>6. key # "global" => docs[d].scope # "global" /\ docs'[d].scope # "global"
    BY <1>1, <1>5 DEF EpochKey, Updates
  <1>7. Bump(key) /\ \A e \in Documents \ {d} : docs'[e] = docs[e]
    BY <1>1, <1>5 DEF Updates
  <1> QED
    BY <1>2, <1>4, <1>6, <1>7, OneDocumentCovered

LEMMA AccessCovered ==
  ASSUME IndInv, NEW c \in Clients, ChangeAccess(c), NEW r \in Readers
  PROVE  Covered(r)
  <1>1. PICK d \in Documents : Rescopes(c, d)
    BY AccessFacts
  <1>2. vectors' = vectors /\ tombstones' = tombstones /\ jobs' = jobs
    BY <1>1 DEF Rescopes
  <1>3. \A i \in Jobs : vectors[i] # "none" => Used(i)
    BY DEF IndInv, VectorsInv
  <1>4. PICK key \in {"tenant", "global"} : key = EpochKey(docs[d].scope, req[c].scope)
    BY <1>1, KeyIsScope DEF Rescopes
  <1>5. key # "global" => docs[d].scope # "global" /\ docs'[d].scope # "global"
    BY <1>1, <1>4 DEF EpochKey, Rescopes
  <1>6. Bump(key) /\ \A e \in Documents \ {d} : docs'[e] = docs[e]
    BY <1>1, <1>4 DEF Rescopes
  <1> QED
    BY <1>2, <1>3, <1>5, <1>6, OneDocumentCovered

LEMMA DeleteCovered ==
  ASSUME IndInv, NEW c \in Clients, DeleteRow(c), NEW r \in Readers
  PROVE  Covered(r)
  <1>1. PICK d \in Documents : d = req[c].doc
    BY RequestOf DEF DeleteRow, IndInv
  <1>2. CASE ~Present(d)
    <2>1. UNCHANGED <<docs, tombstones, vectors, jobs>>
      BY <1>1, <1>2 DEF DeleteRow, tables
    <2> QED
      BY <2>1, NothingNewCovered
  <1>3. CASE Present(d)
    <2>1. /\ tombstones' = tombstones \cup {d}
          /\ Bump(docs[d].scope)
          /\ jobs' = [j \in Jobs |->
                 IF jobs[j].status # "unused" /\ jobs[j].doc = d
                 THEN [jobs[j] EXCEPT !.status = "deleted"] ELSE jobs[j]]
          /\ docs' = [docs EXCEPT ![d] = NoRow]
          /\ vectors' = vectors
      BY <1>1, <1>3 DEF DeleteRow
    <2>2. ~Present(d)' /\ \A e \in Documents \ {d} : docs'[e] = docs[e]
      BY <2>1 DEF IndInv, TypeOK, Present, NoRow
    <2>3. ASSUME NEW j \in Jobs, vectors[j] # "none"
          PROVE  Used(j) /\ jobs'[j].doc = jobs[j].doc
      <3>1. Used(j)
        BY <2>3 DEF IndInv, VectorsInv
      <3>2. jobs[j] \in JobRow
        BY <3>1, JobRowOf DEF IndInv
      <3>3. [jobs[j] EXCEPT !.status = "deleted"].doc = jobs[j].doc
        BY <3>2 DEF JobRow
      <3> QED
        BY <2>1, <3>1, <3>3
    <2>4. PICK key \in {"tenant", "global"} : key = docs[d].scope
      BY <1>3, RowOf, DocumentStoreAssumption DEF IndInv
    <2>5. Bump(key)
      BY <2>1, <2>4
    <2> QED
      BY <2>1, <2>2, <2>3, <2>4, <2>5, OneDocumentCovered
  <1> QED
    BY <1>2, <1>3

LEMMA PublishCovered ==
  ASSUME IndInv, NEW j \in Jobs, Publish(j), NEW r \in Readers
  PROVE  Covered(r)
  <1>1. PICK d \in Documents : Publishes(j, d)
    BY PublishFacts
  <1> USE DEF Publishes
  <1>2. \A i \in Jobs : Used(i) => jobs'[i].doc = jobs[i].doc
    BY <1>1, SetJobFacts DEF IndInv
  <1>3. \A i \in Jobs : (vectors[i] # "none" \/ vectors'[i] # "none") => Used(i)
    BY <1>1 DEF IndInv, VectorsInv
  <1>4. PICK key \in {"tenant", "global"} : key = docs[d].scope
    BY <1>1, RowOf, DocumentStoreAssumption DEF IndInv
  <1>5. Bump(key) /\ docs'[d].scope = docs[d].scope /\ tombstones' = tombstones
    BY <1>1, <1>4
  <1>6. /\ \A e \in Documents \ {d} : docs'[e] = docs[e]
        /\ \A i \in Jobs : Used(i) /\ jobs[i].doc # d => vectors'[i] = vectors[i]
    BY <1>1
  <1> HIDE DEF Publishes
  <1> QED
    BY <1>2, <1>3, <1>4, <1>5, <1>6, OneDocumentCovered

LEMMA StepCovered ==
  ASSUME IndInv, [Next]_vars, NEW r \in Readers
  PROVE  Covered(r)
  <1>1. CASE \E c \in Clients : CommitCreate(c)
    BY <1>1, CreateCovered
  <1>2. CASE \E c \in Clients : CommitUpdate(c)
    BY <1>2, UpdateCovered
  <1>3. CASE \E c \in Clients : ChangeAccess(c)
    BY <1>3, AccessCovered
  <1>4. CASE \E c \in Clients : DeleteRow(c)
    BY <1>4, DeleteCovered
  <1>5. CASE \E j \in Jobs : Publish(j)
    BY <1>5, PublishCovered
  <1>6. CASE \E c \in Clients : CommitReprocess(c)
    <2>1. PICK c \in Clients : CommitReprocess(c)
      BY <1>6
    <2>2. PICK j \in Jobs : NextJob(j) /\ QueueJob(j, req[c].doc, req[c].content, req[c].version)
      BY <2>1 DEF CommitReprocess
    <2>3. UNCHANGED <<docs, tombstones, vectors>>
      BY <2>1 DEF CommitReprocess
    <2>4. \A i \in Jobs \ {j} : jobs'[i] = jobs[i]
      BY <2>2 DEF QueueJob, IndInv, TypeOK
    <2>5. vectors[j] = "none"
      BY <2>2, NextJobIsNewest DEF IndInv, VectorsInv
    <2> QED
      BY <2>3, <2>4, <2>5, NothingNewCovered
  <1>7. CASE \E c \in Clients : DeleteVectors(c)
    <2>1. UNCHANGED <<docs, tombstones, jobs>> /\ \A i \in Jobs : vectors'[i] = "live" => vectors[i] = "live"
      BY <1>7 DEF DeleteVectors
    <2> QED
      BY <2>1, NothingNewCovered
  <1>8. CASE \E j \in Jobs : Claim(j) \/ FailRun(j)
    <2>1. PICK j \in Jobs : Claim(j) \/ FailRun(j)
      BY <1>8
    <2>2. PICK status \in {"queued", "running", "done", "dead"} : SetJob(j, status)
      BY <2>1 DEF Claim, FailRun
    <2>3. Used(j) /\ UNCHANGED <<docs, tombstones, vectors>>
      BY <2>1 DEF Claim, FailRun, Used
    <2>4. \A i \in Jobs : Used(i) => jobs'[i].doc = jobs[i].doc
      BY <2>2, <2>3, SetJobFacts DEF IndInv
    <2>5. \A i \in Jobs : vectors[i] = "live" => Used(i)
      BY DEF IndInv, VectorsInv
    <2> QED
      BY <2>3, <2>4, <2>5, NothingNewCovered
  <1>9. CASE UNCHANGED tables
    <2>1. UNCHANGED <<docs, tombstones, vectors, jobs>>
      BY <1>9 DEF tables
    <2> QED
      BY <2>1, NothingNewCovered
  <1>10. ASSUME NEW c \in Clients, ClientStep(c)
         PROVE  \/ CommitCreate(c) \/ CommitUpdate(c) \/ ChangeAccess(c) \/ DeleteRow(c)
                \/ CommitReprocess(c) \/ DeleteVectors(c) \/ UNCHANGED tables
    BY <1>10 DEF ClientStep, Abandon, UploadTo, UploadSame, UploadNew, PutBlob, StartReprocess,
       StartDelete, ListVersions, CountReferences, UnlinkBlob
  <1>11. ASSUME NEW j \in Jobs, JobStep(j)
         PROVE  Publish(j) \/ Claim(j) \/ FailRun(j) \/ UNCHANGED tables
    BY <1>11 DEF JobStep, ReadDocument, ReadBlob
  <1>12. UNCHANGED vars => UNCHANGED tables
    BY DEF vars
  <1> QED
    BY <1>1, <1>2, <1>3, <1>4, <1>5, <1>6, <1>7, <1>8, <1>9, <1>10, <1>11, <1>12 DEF Next

(* Whenever something becomes retrievable for a reader, or stops being so  *)
(* while its vectors live on, the revision in that reader's answers moves. *)
THEOREM EpochCovers == Spec => EpochCoversRetrieval
  <1>1. IndInv /\ [Next]_vars =>
          [\A r \in Readers :
              \/ EpochOf(r)' # EpochOf(r)
              \/ Retrievable(r)' = {j \in Retrievable(r) : vectors'[j] = "live"}]_vars
    BY StepCovered DEF Covered
  <1> QED
    BY <1>1, Invariance, PTL DEF Spec, EpochCoversRetrieval

===============================================================================
