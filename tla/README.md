# A TLA+ model of Rimini Vector RAG

The program ingests documents (upload, parse, chunk, embed, publish) and answers
questions about them (retrieve, generate, cite, cache). It runs as API processes and
ingestion workers that share PostgreSQL (metadata and vectors), a directory of files and
Redis, and coordinate through nothing else. Two things can go wrong in it. One is a matter
of order: a worker that comes back after its lease, an upload that crosses a deletion, a
slot that is released twice, an answer that is stored after the corpus it was made from
has changed. The other is a matter of accounts: between a file and the words that are
quoted from it stand a dozen transformations, each of which may lose a part, or lose the
place it came from. These modules are about both.

- [The system](#the-system): the parts, their state, how they interact, what is hard
- [Modules](#modules): what each one models and how it corresponds to the code
- [Runs](#runs): what TLC checks, on which instances, and why those are enough
- [Fairness](#fairness): what the liveness properties assume
- [Proofs](#proofs): what TLAPS proves for every value of the constants, and how
- [Disagreements](#disagreements) and [Observations](#observations): where the code does
  not do what its documentation says, and what else a reader may want to know
- [Not modelled](#not-modelled)

## The system

| Component | State | Operations | What makes it correct |
|---|---|---|---|
| Job queue (`ingest/adapters/queue/postgres.py`) | rows of `ingestion_jobs`: status, attempts, lease token, lease expiry, `available_at` | claim, set stage, renew, retry or bury, reap | one holder at a time; one attempt charged per claim; at most `max_attempts` runs; settled rows stay; every job settles |
| Worker (`ingest/worker.py`, `pipeline/lease.py`) | the claim it holds, its stage, the renewal thread's list of failures | poll, run stages, renew in a thread, handle failures | a worker that lost its claim writes nothing the queue goes by |
| Runner and publication (`pipeline/runner.py`, `adapters/publication.py`) | generations, vectors, chunks, events | eight stages; one transaction publishes | what is served is one whole generation, never an older version than before; the trace tells one story per attempt |
| Parsing child (`pipeline/parse_process.py`, `pipeline/loaders/`) | pipe, artifacts, call and token budgets, a deadline | spawn, transfer, model calls on the child's behalf | it ends; budgets hold; every part of a file becomes an element or a recorded omission, those its loader passes over excepted |
| Sections, chunks, tables (`loaders/pdf.py`, `pipeline/chunker.py`, `delta.py`, `tables.py`) | none: functions of the stage before | file under headings, join, pack, split, write and read tables, compare versions | nothing lost, nothing over the limit, spans point at their text, headings are those a passage stands under |
| Models (`shared/gateway/client.py`, `adapters/embedders`, `adapters/rerankers`) | a deadline per call; loaded sessions | embed, chat, vision, rerank | the vector, score or text of one input never becomes that of another; bad replies are errors |
| Document routes (`api/ingest_routes.py`) | none of their own: a request is a sequence of transactions and file operations | upload, update, reprocess, delete; lists, versions, sources, previews, traces | races end in one of their serial outcomes or a refusal; what is shown was there |
| Metadata store (`postgres/metadata_store.py`, `schema.sql`) | documents, versions, jobs, tombstones, epochs; users, settings | the transactions | histories complete, contents of an owner distinct, deletions complete, the epoch moves when what can be retrieved does |
| Vector store (`shared/adapters/pgvector/`) | vector rows and the view that selects the active ones | search, neighbours, validate sources, delete by document | a reader gets the best of what the reader may see, and only that |
| Blob store (`localfs/blob_store.py`) | files named by the hash of their content | put, get, ranges, delete | a file some row names is there |
| Answering and cache (`retrieval/rag/`, `redis_stack.py`) | cached answers per user and question, generation counters | look up, retrieve, expand, generate, review, quote, store | an answer reflects the corpus as it was while it was asked for; its quotes stand where it says |
| Question routes (`api/retrieval_routes.py`) | none | query, ask, answer | controls a request names are obeyed by what is reused for it |
| Request admission (`request_gate.py`, `api/admission.py`) | leased slots and rate windows in Redis | acquire, renew, release | never more running than the limits; no slot lost for longer than its lease |
| Budget and connection pool (`execution.py`, `postgres/db.py`) | a deadline, a cancellation flag, a semaphore | check, cancel, get and put connections | slots are returned exactly once; nobody's statement is cancelled for another |
| Workspace runtimes (`workspace_runtime.py`) | one loader thread, a future per model | prepare, wait or refuse | one load per model at a time; a failed one can be repeated |
| Embedding migration (`pgvector/migration.py`) | shadow tables, fingerprints, the active profile | build, activate, roll back | a shadow is activated only over the rows it was built from |
| Accounts (`onboarding_routes.py`, `auth.py`, `rate_limit.py`) | users, tokens, gateway settings, hit counts | first-run setup, register, log in, members | an organization keeps its administrator; a deleted account opens nothing; limits hold |

How they interact. A request handler calls the metadata store, the vector store, the blob
store and the cache one after the other. Nothing spans two calls: between two of them other
requests and the workers run, the process may die and any call may raise. A worker polls
the queue, runs the stages in its main thread and renews its lease from another one; the
file itself is parsed in a child process that talks to it through a pipe. API processes
and workers meet in the rows of `documents` and `ingestion_jobs` only, and readers
meet them in the view of active vectors and in the epoch, a revision per tenant and one for
the documents all tenants share. The epoch is the contract between the write side and the
read side: an answer is stamped with the epoch read at its start and thrown away when the
epoch has moved at its end.

The behaviours that are hard to test are listed one by one, each at its line and with the
properties that cover it, under `hazards` in `PROJECT.json`.

## Modules

| Module | Models | Extends or instances |
|---|---|---|
| `JobLifecycle` | what the queue promises of one job: the abstract specification | |
| `JobQueue` | the queue, the workers, their leases and renewal threads | `JobLifecycle` (refinement) |
| `JobQueue_proofs` | the proofs about `JobQueue` | `JobQueue`, `TLAPS` |
| `DocumentStore` | uploads, updates, reprocessing, deletion and the runs of jobs on documents, generations, vectors, files, epochs | |
| `DocumentStore_proofs` | the proofs about `DocumentStore` | `DocumentStore`, `FiniteSetTheorems`, `TLAPS` |
| `AnswerCache` | requests that answer questions, the semantic cache, a changing corpus | |
| `AnswerCache_proofs` | the proofs about `AnswerCache` | `AnswerCache`, `TLAPS` |
| `RequestGate` | admission slots and rate windows in Redis | |
| `ConnectionPool` | the semaphore and the pool beneath it | |
| `WorkspaceRuntime` | model loads | |
| `Serving` | a request from admission to release: handlers, monitors, transactions, gateway calls, renewals | the three above |
| `Serving_proofs` | the proofs about the four | `Serving`, `FiniteSetTheorems`, `TLAPS` |
| `Lists` | lists as loaders and searches build them: filtered, sorted, each member once, cut | |
| `Loaders` | the steps of the loader of each format | `Lists` |
| `Extraction` | parent, child, pipe, artifacts and budgets | `Loaders` |
| `Layout` | regions of a layout model, lines of words, what is cut from a page, the places a citation shows | |
| `Sections` | headings and bookmarks over the elements of a PDF | |
| `Chunking` | passages of prose, tables and pictures; the delta of two versions | |
| `Spans` | where recognised words stand on their page | `Chunking` |
| `Tables` | tables as text, and their cells and lines read back | |
| `Models` | batches, replies, windows and scores of models | |
| `Retrieval` | search, access, decomposition, reranking, page furniture, expansion | `Lists` |
| `Grounding` | packing of evidence, validation of a reply, quotes and their occurrences | |
| `Questions` | what may be asked, which controls allow an earlier answer, general answers | |
| `Sources` | bytes, ranges, previews and pages of a version | |
| `Passages` | a file on its way to a citation, stage by stage | all models from `Loaders` on |
| `Loaders_proofs` | the proofs about `Loaders` and `Lists`: induction over numbers, recursive functions, then format by format | `Loaders`, `FiniteSetTheorems`, `WellFoundedInduction`, `TLAPS` |
| `Passages_proofs` | the proofs about `Extraction` and `Retrieval`, as two stages of `Passages` | `Passages`, `Loaders_proofs` |
| `Accounts` | sign-up, members, login, tokens, limiters, gateway setup | |
| `EmbeddingMigration` | a shadow index beside publications and deletions | |
| `DocumentViews` | lists, versions, sources and access rules while documents change | |
| `JobTrace` | the events of a job and the reply made of them | |
| `Administration` | the four above, one at a time | `Accounts`, `EmbeddingMigration`, `DocumentViews`, `JobTrace` |
| `DocumentViews_proofs` | the proofs about `DocumentViews` | `DocumentViews`, `FiniteSetTheorems`, `TLAPS` |
| `Administration_proofs` | the proofs about `Accounts`, `EmbeddingMigration` and `JobTrace`, and about the four together | `Administration`, `DocumentViews_proofs`, `WellFoundedInduction` |
| `MC...` | inputs, model values and symmetry sets for TLC | |

`map` in `PROJECT.json` names the lines each definition stands for. Operators introduced by
a comment `Defect:` are not part of the model: each is a plausible bug in the code, and TLC
finds the property it belongs to violated when it takes the place of the operator defined
after it.

The modules are composed in two ways. `Serving` and `Extraction` run their parts together,
sharing state. Elsewhere parts meet in what one shows and the next relies on: `JobQueue`
shows that a job publishes at most once, that stale workers change nothing the queue goes by and that a job
whose run is lost becomes queued or dead; `DocumentStore` uses jobs with just these moves.
`DocumentStore` shows with `EpochCoversRetrieval` how what a reader can retrieve and the
epoch move together; the corpus of `AnswerCache` moves in exactly these ways. `Retrieval`,
`Grounding` and `Questions` say what the steps of `AnswerCache` compute.

### JobQueue

One database transaction is one action. That is what the row locks give: each update of a
job row is guarded in its own WHERE clause, and claims and reaps lock the rows they take.

- *Time* is kept as what is left: `leaseLeft[j]` is the time to `lease_expires_at`,
  `backoff[j]` that to `available_at`; `Tick` counts both down. A worker can stall for any
  number of ticks at any place.
- *Tokens* of a job are numbered by its claims. In the code they are random and never repeat;
  a number per job that never repeats is the same thing.
- *SKIP LOCKED*: a claim takes the oldest due row unless another worker's claim may hold the
  lock of it; a reap takes any set of expired rows, none when its query fails.
- *Lost replies*: `ClaimReplyLost`, `PublishReplyLost`, and the failing renewals that extended
  the lease all the same, are commits the worker does not hear of.
- *Failures*: `Raise` carries whether the exception is an `UnsafeContentError`, whose limit is
  one attempt. `FailureNotRecorded` is `_handle_job_failure` swallowing an error of the store.
- *The renewal thread* lives while the job is in a stage or between two. After `run_job` ends
  the code waits five seconds for it to stop; a renewal that takes longer is not modelled, and
  could extend only the lease of a claim that is still in force.
- *The route summary* is the one write of a worker without a fence: `set_route_summary`, at the end
  of PARSE, finds the row by its id. `summary[j]` is the token of the worker that wrote it last.
- *Publication* is the row update here and the rest of the transaction in `DocumentStore`.
- `enqueue` and `complete` are methods of the queue with no caller, and not modelled.

`JobLifecycle` says the same without workers, leases, tokens and time: jobs start, and each
start finishes, spends an attempt, or condemns the job. The refinement mapping is the
identity on `status` and `attempts`. Any number of jobs may move in one step, because one
transaction of the reaper reclaims several.

### DocumentStore

A request is a record `req[c]` that says which step comes next and what it has read so far.
`Abandon` ends a request at any place: a crash, an error, or one of the early refusals of
the routes, which write nothing. Each transaction of the metadata store is one action with
all its checks and writes; files are put and unlinked by actions of their own, and so are the
steps of a deletion: vectors, list of versions, row, count, unlink.

- A blob's path is the hash of its content, so `Contents` stands for both.
- A job's run reads the document, then the file, and publishes; it may fail or be lost in
  between, which leaves the job queued or dead. One job has one run at a time in the model,
  since `JobQueue` shows that a run without the claim has no effect.
- A generation is identified with the job that published it: a job publishes at most once.
- Readers are members of the owner's tenant and readers of other tenants. Only `scope` tells
  them apart; `visibility` follows the same path through the code, with the tenant's key.
- The trigger of `schema.sql` that moves the epoch on access changes uses the same key as the
  transactions; two moves in one transaction are one here. `EpochModulus` wraps the count:
  only whether it moved is ever compared.
- The choice of a target by file name is abstracted to any document present; vectors written
  before generations existed (`generation_id` NULL) are not modelled.

### AnswerCache

A request reads the epoch (the model begins there), asks the cache, searches, expands,
generates in one or more rounds with checks before each, checks again, and stores. `visible`
is what a user can retrieve now. It changes with the epoch (`ChangeCorpus`) or loses vectors
without it (`WithdrawVectors`, the first step of a deletion). Invalidations of the cache come
later or never, because their failure is swallowed. An entry of the cache is found by user and
generation and may be that of a question close to the one asked.

`seen`, `always` and `ever` are history variables: what the reads of a request returned, and
what its user could retrieve all along and at some time while it ran. The properties are
stated with them. Chunks stand for passages; what the model writes and which passages it
cites is left open; `Retrieval` and `Grounding` compute it. `POST /answer` answers from supplied
passages and never touches the cache; it is in `Questions`. The embedding profile, `top_k` and the chat model are fixed; they are
compared with, or part of the key of, every entry.

### Serving: RequestGate, ConnectionPool, WorkspaceRuntime

`Serving` is a request under way in an API process. Its handler makes transactions, gateway
calls and model runs one after the other; beside it run the task that renews its slot and,
during a transaction, the monitor thread that cancels the statement when the budget is
exhausted. `phase[r]` is where the handler is, `held[r]` its connection, `target[r]` the
connection its monitor may still cancel.

- *Slots in Redis.* A Lua script is one action. A script gives a token the same expiry in all
  three sorted sets, so `slotLeft[r]` stands for them; a reply may be lost after the script
  ran, a renewal may arrive after its sender gave up.
- *Routes.* Those that answer run under a budget (`Scoped`); some depend on admission only;
  others have neither. Which calls a handler makes, and how many, is open.
- *The pool.* The semaphore and the pool of psycopg2 beneath it are separate, as are their
  returns: an exception between the two is an interleaving. `TakeSlot` waits at most three
  seconds and no longer than the budget.
- *Time* is `left[r]`, the time to the deadline plus `Grace`, by which a call may outlast it
  (socket timeouts, backoff). The settings keep `Deadline + Grace` below the lease (at most
  110 s of 120 s); `ServingAssumption` says so.
- *Gateway calls*: attempts, `Retry-After`, errors that are retried or not, the deadline.
- The loader thread's own use of the pool while it builds is not modelled.

### Extraction and Loaders

`Loaders` turns a file, a record of what the format libraries find in it, into the sequence of
steps its loader takes: emit an element, record an omission, ask the vision or layout model,
refuse. Every step names the items of the file it accounts for. `Items` is all there is in the file,
`PassedOver` what the loader loses without a word: links and their pictures in a paragraph of a
Word file that has a picture, its content controls, headers with a picture alone, charts and pictures of
`.xls`, pictures inside paragraphs, headings and tables of HTML, graphics of a page with tables.
`SourceAccounted` says that when the extraction ends well every other item was accounted for, on
whatever attempt; `NothingPassedOver` says it of all, and is violated. `Extraction` runs these steps in a
child process: requests for models go through a one-message pipe to the parent, which looks
in the artifacts of earlier attempts, counts calls and tokens, calls the model, and writes the
answer back, while the deadline runs, the lease may be lost and either process may die. A
retried job starts anew with the artifacts. The child's log messages are left out.

### Passages: the functions

`Passages` begins a behaviour at any stage, with any input of a small set for that stage, since
each stage works on what the one before stored, in a process of its own. Extraction is a system
of many steps; every other stage is a function, `given` its input and `made` its result.

| Stage | Operator | Stands for |
|---|---|---|
| `layout`, `lines`, `cut` | `DetectLayout`, `NativeLines`, `CutParts` | `layout.py`; lines of native words, the crop of a region with its overscan and its pixel limit in `pdf.py` |
| `markdown` | `Written` | `tables.py`, against the cells and lines the chunker reads |
| `sections`, `outline` | `AnnotateSections`, `OutlineSections` | the end of `pdf.py` |
| `prose`, `table`, `paragraphs`, `delta` | `ChunkElements`, `TableChunks`, `ParagraphChunks`, `DiffChunks` | `chunker.py`, `delta.py` |
| `align`, `picture` | `ElementSpans`, `SourceSpans` | recognised lines of damaged pages and of pictures |
| `store`, `ruler`, `warm`, `metadata`, `rerank`, `plan`, `reply` | `Points`, `Queries`, `Counted`, `Warmed`, ... | what is asked of models and made of replies |
| `search` | `RetrieveChunks`, `ExpandEvidence` | from a question to its evidence |
| `answer`, `places` | `GroundAnswer`, `CitationProvenance` | from evidence to quotes, and to the places shown for them |
| `ask`, `supply` | `AskTwice`, `AnswerFrom` | the routes: two questions one after the other, a question with passages of its own |
| `source`, `preview`, `page` | `SourceResponse`, `PreviewResponse`, `PageResponse` | what is shown of a version |

Texts are sequences of characters that carry what the properties tell apart: which element a
character came from, whether it is a token, a space, a paragraph break, a pipe. So "nothing is
lost" and "the span points at its text" are about the very characters, not about lengths.
Geometry is exact on a small grid. Scores, wording, styles and the parsing libraries are inputs.
The access rule of the search is written twice in the code, as a Python predicate and as SQL
clauses, and twice here (`Admits`, `Eligible`); `RulesAgree` compares them.

### Administration: Accounts, EmbeddingMigration, DocumentViews, JobTrace

Four systems that read nothing of one another, so that a behaviour is of one of them and one
run covers all. Their handlers look first and write in a later transaction, and interleave.

- `Accounts`: a token is a position in `issued`; what it opens is `Opens`. Limiters and the model
  catalog are memory of a process and lost by `Restart`. Audit entries, passwords as such, and
  the grants of `permissions.py` are left out.
- `EmbeddingMigration`: a table is a function from chunks to whether they are deleted and by
  which model they were embedded; `truth` is what it would be had no table been replaced.
  Transactions that check the profile hold its row until they end; activation waits for them.
  Migrations that were activated or given up are forgotten, as nothing looks at them again. The
  adoption of tables from before profiles existed and the profiles of workspaces are left out.
- `DocumentViews`: an upload is the read of its target and the transaction that writes. `reader`
  is one person who turns pages, looks at a version or lists versions, one read per step. A
  list is newest first, and a page is the set of documents whose rank, the number of newer ones
  the query counts, is in the window of `limit` and `offset`; within a page the order is that of
  the query, between pages `ListedWhole` is about it.
  `contents` and `had` are history: the contents each document's versions had, and the accesses
  it had at its present version.
- `JobTrace`: two workers may write events into one trace, because one learns only at its next
  check that its lease is lost. The reply orders events by attempt and sequence number, so
  they are kept as a set. The last stage publishes in its handler, and the commit may be heard of
  or not (`PublishReplyLost`); the event is written afterwards, in a transaction of its own.

## Runs

| Run | Instance | Checks |
|---|---|---|
| `queue_safety` | 2 workers, 2 jobs, 2 attempts, lease of 2 ticks, 2 stages | `TypeOK`, `ClaimAccounting`, `SinglePublication`, `HolderUnique`, `LeaseMatchesStatus`, `StaleWorkerHarmless`, `SettledForever` |
| `queue_liveness` | 2 workers, 1 job, 3 attempts, delays 2 then 3 | `JobsSettle` and `ImplementsJobLifecycle`, under `FairSpec` |
| `documents` | 2 documents of one owner, 2 contents, 2 requests at once, 3 jobs | `TypeOK`, `HistoryComplete`, `OwnerContentUnique`, `DeletionComplete` |
| `generations` | 1 document, 2 contents, 2 requests at once, 3 jobs, both scopes | `ActiveGenerationWhole`, `SettledServesCurrent`, `OneActiveJob`, `NoRollback`, `EpochCoversRetrieval` |
| `answers` | 2 requests, 2 questions, 2 passages, 1 change of the corpus | `TypeOK`, `CurrentEntriesComplete`, `ServedIsCurrent` |
| `serving` | 2 requests of a user that run under a budget and 1 that does not, 1 connection, limits 2 per process, 2 per tenant, 1 per user, 2 retries | `TypeOK`, `SlotsConserved`, `CancelsOwnCall`, `RunningWithinLimits`, `OneBuild`, `SlotsByAdmission` |
| `serving_liveness` | 1 of each | `RequestsEnd`, under `FairSpec` |
| `passages` | some 120,000 inputs, a few dozen to tens of thousands a stage | `TypeOK`, `SourceAccounted`, `VisionAccounted`, `PassagesFaithful`, `EvidenceVisible`, `CitationsTruthful`, and `ExtractionEnds` under `FairSpec` |
| `administration` | 3 accounts of 2 emails; 2 chunks and 2 profiles; 4 documents of 2 tenants; 1 job on 2 workers | `TypeOK`, `AccountsSound`, `IndexConsistent`, `ShownTruthful` |
| `sources_stored` | 2 documents, 2 owners, 1 content, 2 jobs | `SourcesStored`, violated: see [Disagreements](#disagreements) |
| `undone_access` | as `administration` | `AccessInherited`, violated |
| `promises` | a DOCX file with a link beside a picture, and inputs of five stages of `passages` | `SomePromiseKept`, violated |

`promises` (`MCPromises`) takes seven things the code says of itself one after the other, each a property
of `Passages` or `Extraction` with the words it quotes: `PicturesCutWhereTheyStand`, `ParagraphsFit`,
`HeadingsKept`, `RepliesPassThrough` twice, for many searches and for a narrow region,
`GeneralIsLastResort` and `NothingPassedOver`. Its
behaviours go on to the next only where the present one was seen broken, so a behaviour that comes
to the end has broken all of them, and its states show how. That one of them is kept, which is all
that `SomePromiseKept` says, is refuted by it.

What the properties of `serving`, `passages` and `administration` say, in short:

- `SlotsConserved`: the semaphore counts the threads between `getconn` and `putconn`, on every
  error path, and one that has a permit always gets a connection. `CancelsOwnCall`: a monitor
  cancels the statement of its own request only. `RunningWithinLimits`: the requests whose
  handlers run keep the limits, whatever becomes of their renewals; `SlotsByAdmission`: a
  late renewal revives no slot. `OneBuild`: one build of a workspace's models at a time.
  `RequestsEnd`: every admitted request ends and its slot is free again.
- `SourceAccounted`: but for what its loader passes over, nothing in a file disappears without an
  element or a recorded omission, on the first attempt and on one that starts with the artifacts of
  another. `VisionAccounted`: no picture is paid for twice, and calls and tokens are within
  their budgets.
- `PassagesFaithful`: from elements to passages, vectors and scores. Nothing is lost but the end of
  a heading over a third of the limit (`HeadingsKept`), paragraphs fail only where a sentence does not
  fit with the overlap before it (`ParagraphsFit`), pictures are cut where they stand on
  pages that begin at 0 (`PicturesCutWhereTheyStand`). Nothing is over the limit of the embedder, spans point at their text, a table reads back as its cells,
  headings are those a passage stands under, a new version re-embeds what it changed, and the
  vector of one input never becomes that of another. A passage is scored, and a question
  searched, with all its parts.
- `EvidenceVisible`: a search returns what its user may see, and all of it that there is room
  for: passages that may not be seen take no place, each part of a question has its best
  passage, neighbours are of the same section, stand in the order of the source, and no row of
  a table is lost.
- `CitationsTruthful`: a citation names a passage the model was shown, its quote stands there,
  and so does the place that is shown for it; an earlier answer stands in only where nothing that was
  asked tells them apart, and general knowledge only where the documents gave no answer or one
  that a change unseen by the trace took back (`GeneralIsLastResort`); what `/query` replied is taken
  by `/answer` if it has no search and no region outside of its ranges (`RepliesPassThrough`); ranges, previews and pages are of the
  version asked for and say what they leave out.
- `AccountsSound`: no tenant loses its last administrator, an email with a password is one
  account, a token opens the account it was issued for until that has another or is deleted.
  `IndexConsistent`: activation and its reversal lose no row published meanwhile, revive none
  deleted meanwhile, and mix no vectors of two models. `ShownTruthful`: a list read page by page is
  whole although documents change in between, a version is the bytes it had, an update that
  names no access takes one its document had at the version it replaces (`AccessInherited`: the one it
  has), a trace tells one story for each attempt, and of the last attempt of a job that is done no
  error but that of a publication whose reply was lost.

The properties of `passages` and `administration` are conjunctions of named parts, one for each
stage or module; the comment on each part says what it is about.

Why the bounds are enough. Every safety property but `PassagesFaithful` and
`CitationsTruthful` is proved for all values of the constants, so for the others the bounds matter only
in that TLC meets the interesting cases.
Two workers give every pair of a holder and a stale holder of one job. Two attempts make one retry and one death, three in the
liveness run make a retry with a capped delay. Two ticks of lease let a lease be half gone.
Two stages are a first and a last one; those between behave like the first. Two clients are
the two sides of every race between requests, and both may act for the same owner. Three jobs
of a document are needed for a run to be superseded by one that was itself superseded; the
count of revisions modulo 2 still tells one step from none. In the cache one change of the
corpus makes an entry stale, before the request that finds it or while it runs. Requests at the same
time are about one question there (`Bounded` in `MCAnswerCache`), and a second question comes up when
no other request is under way: an answer to a close question can be found in the cache only once
it is stored, whatever else runs. In `serving` two requests share one connection and a user limit of one, so
that every acquisition can meet a full pool and a full limit; a lease of 3 ticks against a
deadline of 1 with a grace of 1 is the order the settings give. A call of the gateway with two
retries has a first, a middle and a last attempt.

The inputs of `passages` are enumerated in `MCPassages`, stage by stage, with limits scaled
down so that small inputs cross them: texts of a few characters each against limits of a few
tokens, 2 pages, 2 sheets, 5 rows. For the limits of the code there are inputs below, at and
above them. The extraction has 2 vision calls and 3 tokens, and a job 2 attempts. Geometry is on
a small grid of whole numbers, with sides such that rounding meets no ties.

In `administration` a limiter admits one hit, one address and one gateway are enough for two
callers to collide, and one of three accounts is deleted while its token is still about. The
documents stock has one of each access; pages hold one or two, so that a clamp, a last page
and a page shifted by a deletion occur. Handlers, file names and workers are one symmetric set,
emails and chunks another: no component sees those of another.

`MaxEpoch`, `NumJobs`, `EpochModulus`, `MaxUsers`, `MaxTokens`, `MaxDocuments`, `MaxWrites`,
`MaxTries` and the bounds on files are bounds of the model only.

Deadlock is checked for the queue, which always has a worker to poll. In the other modules
all clients may be idle with nothing left to do under the bounds, so their runs turn the
check off.

## Fairness

- `JobsSettle` needs that time passes (`WF(Tick)`); that a worker's main thread takes its next
  step (`WF(WorkerStep)`), which holds because every call it makes has a timeout and the
  supervisor starts a process again that died; and that a reap or claim of a job that is
  possible again and again succeeds some time (`SF`), because row locks last no longer than a
  transaction and the query takes the oldest row first. A database that is down for ever, a
  worker that crashes each time just before its reap, and a claim whose reply is always lost
  are thereby excluded; the last one is bounded anyway, by the attempts the reaper charges.
  Nothing is assumed of renewals, of the outcome of stages or of publications.
- `RequestsEnd` needs that time passes, and weak fairness of a handler's steps, of its monitor, of
  the loader thread and of the request's end: threads are scheduled, the monitor polls, and calls
  have timeouts that end with the budget. Strong fairness of `Finish` says that a handler makes
  finitely many calls: a handler that is again and again able to end does so. Nothing is
  assumed of Redis, of renewals, of the outcome of a call or of who gets a connection.
- `ExtractionEnds` needs weak fairness of the parent's steps, whose calls for the child have
  timeouts, and of the clock. Nothing is assumed of the child: one that hangs, dies
  or floods the pipe is what the deadline is for.

## Proofs

`JobQueue_proofs` proves for any number of jobs, workers, attempts, stages and any lease:

| Theorem | States |
|---|---|
| `Invariance` | `Spec => []IndInv` |
| `TypeCorrect` | `[]TypeOK` |
| `AccountingCorrect`, `RunsAreBounded` | `[]ClaimAccounting`, `[]RunsBounded` |
| `PublishesOnce` | `[]SinglePublication` |
| `MutualExclusion`, `LeasesMatch` | `[]HolderUnique`, `[]LeaseMatchesStatus` |
| `Fencing`, `SettledIsFinal` | the action properties `StaleWorkerHarmless`, `SettledForever` |
| `ImplementsLifecycle` | `Spec => JL!SafeSpec`: the safety part of the refinement |

Assumed is `JobQueueAssumption` (positive bounds, delays that are numbers), which TLC
evaluates on every instance. The properties are not inductive by themselves; the inductive
invariant `IndInv` is `TypeOK` with two more parts.

- `TokenInv`: the token of a running row is the number of claims so far, a worker holds a
  token no greater than that, and no two workers hold the same one of a job. That is why a
  token tells a worker that lost its claim from the one that has it now, although the stale
  one still carries its token around: tokens are never handed out twice.
- `AccountInv`: the accounting of claims and attempts for every status, and that a job which
  is queued, running or done has an attempt left. `RunsBounded` follows from the two together
  and from neither alone.

`TypeStep`, `AccountStep`, `RowTokenStep` and `HeldTokenStep` prove the step for one part each,
action by action; `ReturnKeepsTokens` and `MoveKeepsTokens` are shared by the many actions that
only move a worker. `Fencing` rests on `StaleStep` (what the stale worker itself does) and
`OthersStandStill` (nothing else moves it). `ImplementsLifecycle` maps each step to moves of
the jobs (`StepMovesJobs`).

`AnswerCache_proofs` proves for any number of users, questions, passages, requests at once and
revisions of the corpus:

| Theorem | States |
|---|---|
| `Invariance` | `Spec => []IndInv` |
| `TypeCorrect` | `[]TypeOK` |
| `CurrentEntries` | `[]CurrentEntriesComplete` |
| `ServedCurrent` | `[]ServedIsCurrent` |

Assumed is `AnswerCacheAssumption` (the bound on revisions is a number). Neither property is
inductive: an entry of today's epoch may be read by a request, validated much later, and meet
other requests and changes in between. What carries them is `Covers(u, e, view)`: if `e` is
the present epoch, the view has all that `u` can retrieve now; and it has all that any request
under way, of that user and stamped `e`, could retrieve all along. A view of the present
covers (`PresentCovers`), two views that cover do so together (`ViewsMeet`), and no step makes
a view that covers stop: a change of the corpus moves the epoch or only takes away
(`CorpusStep`), and a request begins with the present epoch (`RequestMoves`). `IndInv` says
that stamps are not of the future (`StampInv`), histories enclose the present (`HistoryInv`),
and the views of entries and of requests cover (`EntryInv`, `ViewInv`); a hit is served because
the entry's stamp equals the request's. The moment that needs the second half of `Covers` is a
corpus change between the reading of an entry and its validation: the epoch test then fails to
say anything, but what was visible all along is still in the view.

`DocumentStore_proofs` proves for any number of documents, users, contents, requests at once and
jobs, and any modulus above 1 for the epochs:

| Theorem | States |
|---|---|
| `Invariance`, `TypeCorrect` | `Spec => []IndInv`, `[]TypeOK` |
| `HistoryIsComplete`, `OwnerContents`, `DeletionIsComplete` | `[]HistoryComplete`, `[]OwnerContentUnique`, `[]DeletionComplete` |
| `ServedWhole`, `SettledServes`, `OneActive` | `[]ActiveGenerationWhole`, `[]SettledServesCurrent`, `[]OneActiveJob` |
| `NoGoingBack`, `EpochCovers` | the action properties `NoRollback`, `EpochCoversRetrieval` |

`SettledServesCurrent` and `OwnerContentUnique` are parts of `IndInv`; the others follow from it:

- `NewestInv`: a job that is queued or running is the newest one of its document, since every
  transaction that enqueues one holds the document's row and is refused while it has an active job.
  Two active jobs of a document would each be the newest.
- `HistoryInv`: the history has every version of a document once, and the current one with the
  current content. A publication whose job still matches the row is therefore of a version the
  history has, and what is served can be told for as long as the document is there.
- `ServesInv`: the active generation of a document is there, its job is done and of this document,
  and its version is that of the row's `indexed`, which never exceeds the current one
  (`IndexedInv`). `NoRollback` follows: what is published is the current version.
- `GoneInv`, `VectorsInv`, `PrefixInv`: a document that is not there has left no version, generation
  or chunk; only jobs that exist have vectors; jobs are numbered in the order they were made.

`EpochCovers` goes through the actions that write documents, jobs, generations or vectors, and shows for
each and for every reader that the revisions in that reader's answers move in the same step, or
that vectors were only withdrawn.

`Serving_proofs` proves for any finite sets of requests and connections, any users, tenants and selections, and any limits:

| Theorem | States |
|---|---|
| `Invariance`, `TypeCorrect` | `Spec => []IndInv`, `[]TypeOK` |
| `LimitsKept` | `[]RunningWithinLimits` |
| `SlotsAreConserved`, `MonitorsCancelTheirOwn` | `[]SlotsConserved`, `[]CancelsOwnCall` |
| `SingleBuild` | `[]OneBuild` |
| `NoRevival` | the action property `SlotsByAdmission` |

- `LimitsKept` needs two invariants that meet. `GateInv`: the scripts never let more tokens be
  held than the limits. `LeaseInv`: a request that runs under a budget has less time left than
  its slot, so whoever runs still holds one, and as a set counted by `Held` the running ones are no
  more than the holders. The first is about Redis, the second about time; the settings that
  keep deadline and grace below the lease (`ServingAssumption`) are what joins them.
- `PoolInv`: free slots and holders of slots make `MaxConn`, and a connection is in the pool or
  with one request. A step moves one request, and so the number of holders by at most one (`FiniteSetTheorems`).
- `TargetInv`: a monitor that may still cancel has for its target the connection its request
  holds, in the phases that join the monitor before the connection goes back.
- `BuildInv`: a selection is built once exactly while its future is pending.

The four parts of `Administration` have an invariant each, and `Administration_proofs` puts them
together: a step of one part leaves the variables of the others alone (`Invariance`). `TypeCorrect`,
`AccountsAreSound`, `IndexIsConsistent` and `ShownIsTruthful` then state `[]TypeOK`,
`[]AccountsSound`, `[]IndexConsistent` and `[]ShownTruthful` for every behaviour. Of a part by itself
`SoundAlways` (accounts), `Consistent` (the index) and `TruthfulViews` (`DocumentViews_proofs`) state
the same.

- `Accounts`, for any number of accounts, callers, addresses, tokens and hits. `TokenInv`: for an
  active account, the token that opens it is the last one issued for it, and no other. This
  speaks of all tokens ever issued, so a rotation or deletion cannot leave one behind that
  opens something. `AdminRemains` is inductive because nobody can delete themselves and
  whoever deletes is still an administrator in the transaction that does it. `HitsInv`: the hits
  a limiter keeps are ordered, oldest first, which is why dropping a prefix drops all that left
  the window; that there is a first one to keep is the well-foundedness of the numbers.
- `EmbeddingMigration`, for any chunks, profiles, migrations and processes. `BuildInv`: a shadow has
  the rows that were there when its build read them but those still to be copied, with the marks
  they had then. Whether that is still true of the live table is compared at activation;
  `LockInv` says that a process which checked the profile row holds it, so nothing is written in
  between under another one.
- `DocumentViews`, for any number of documents, uploads, callers and pages of any size. What makes
  a list whole is `Listing`: a document that stayed visible was seen or is still ahead, that is,
  has as many newer ones before it as were read already. Ranks only grow while documents join the
  list (`RankGrows`) and tell which of two is the newer (`RankTells`); one that leaves lowers them,
  which is why the property excepts lists that lost a document. `Versions` and `Had` tie rows
  to the histories they are compared with; `Onwards` is what every change of documents keeps.
- `JobTrace`, for any number of workers, stages and attempts. `AttemptInv`: an attempt is one
  worker's, so a worker that lost its lease goes on under a number nobody else writes under.
  `TrailInv`: what a worker at work has written is of the stages before and went well. `DoneInv`: in the
  attempt of a job that is done nobody is left who could write an error but the worker whose
  publication was not heard of, of the last stage.

What is assumed there are the assumptions of each module (`AccountsAssumption`, `GateAssumption`
and so on), named where the constants are declared: positive limits, finite sets, bounds that are
numbers. `config.py` refuses settings that break them (`GateAssumption`: `config.py` 105 to 110).
TLC evaluates all of them on every instance.

`Loaders_proofs` and `Passages_proofs` prove for files of any size and any limits, and for
searches in a corpus of any size:

| Theorem | States |
|---|---|
| `LoadersAccountForFiles` | for a well-formed file, the steps of its loader account for `Items(file) \ PassedOver(file)`, or refuse it |
| `PassagesInvariant` | `Spec => []PassagesInv` |
| `PassagesTyped` | `[]TypeOK` of `Passages` |
| `ExtractionAccountsForSource` | `[]SourceAccounted` |
| `ExtractionAccountsForVision` | `[]VisionAccounted` |
| `EvidenceIsVisible` | `[]EvidenceVisible` |

The first is about what a loader computes, the next four about parent, child and pipe; it is the only
fact about formats they use. The last is about what a search computes.

- `LoadersAccountForFiles` goes format by format, from the parts of a file up: a table with its
  lines, words, figures and pictures of a page, regions, a page, a file. `Accounts(steps, items)` is what
  each part shows; it is kept by putting steps one after the other (`StepsThenSteps`,
  `StepsOfParts`) and, for a page, by sorting into reading order, since sorting and grouping into
  rows keep the set of what is sorted (`ArrangedRange`, `RowOrderRange`, `ReadingOrderRange`). For
  text `BlocksTell` says it of headings, fences, pipe tables and paragraphs, line by line: the state of
  the split tells every line that was passed, but the headings no block shows, which
  `DroppedIsTold` finds in another step; and what a block tells lies between the lines it names.
- Induction. The library's induction theorems take an operator, which the provers cannot
  instantiate; `NumberInduction` states it of a set instead and follows from the
  well-foundedness of the numbers (`LeastOf`). From it come `RecursionExists` (a function that
  is defined step by step exists) and `RecursionStays` (it stays in a set that each step stays in).
  This is why `Loaders` writes recursion as recursive functions, and picks and sorts with `Each` and
  `Arranged`, whose definitions the provers can read.
- `Typed` and `CountsTyped` say the types. `Read`: what the child has passed of its loader's steps is in the
  elements of this attempt or on its page, none was a refusal, and when the end is sent it
  is everything. `SourceAccounted` speaks of a finished extraction only and would say
  nothing of a child half way. A result that is reused from an earlier attempt is whole because only whole
  ones are kept, which `parent \in {"idle", "done"}` carries over the retries.
- `Attended` ties the parent to the child: what is in the pipe or was answered is of the step the
  child waits at, and what the model is being asked has no answer yet. Without it an answer
  could be taken for another picture's.
- `Ledger` is the account of the calls: paid ones are cut off, kept or under way, and the
  calls of an attempt are those reused and those asked. It counts artifacts as a finite set, to
  which a first answer adds one (`AnswersAfterKeeping`); a picture that is asked about has no
  artifact by `Attended`, so no answer is lost by keeping it under a name that is taken.
- `EvidenceIsVisible` follows the ids from the store to the reader. `Finds` says of a list of ids that
  each is visible and stands in it once, `Enough` that it has as many as asked for, or every
  visible one; each operator of `Retrieval` is shown to keep the two (`SearchFinds`, `FoundFinds`,
  `SelectedFinds`, `RetrievedIs`), so that no cut comes before the rule. That the rule is the same in both
  of its forms is `RulesAlwaysAgree`. A part of a question keeps its best passage because that
  of the `q`-th part is among the first `q` winners (`WinnersAre`), and no cut goes below the parts. `SourceOrderIs`
  and `AscendingAmong` carry the order of the sources through the expansion, `NewRowsAre` finds
  a row that was left out in the first roster that has it, by the least number of one (`LeastOf`).
- What `Lists` computes is proved once: a set that is sorted by a total order is a list of its members, in
  that order and each once (`ArrangedRange`, `OrderedOnce`); filters keep the order (`AmongIs`), sorting by
  score puts no better one behind (`DescendingIs`), a cut keeps the first (`TopIs`, `WithinTop`).

Assumed are `LoadersAssumption` and `ExtractionAssumption` (limits are numbers, those of the extraction
positive, as `config.py` requires) and `FilesAssumption`: each file is `WellFormed`, which says what
the parsing libraries return for its format (a sequence of pages with words, tables and pictures at
whole numbers, and so on), of any length. For a search `SearchAssumption` is assumed: each input is a
`SearchInput`. Live passages of a document have ordinals of their own, as the chunker numbers
them (`chunker.py` 270) and a publication replaces all the rows of `chunks` at once (`publication.py` 122); who
is no administrator has an id, that of a row of `users` (`metadata_store.py` 285); `top_k` and the parts of a
question are at least one; scores are numbers. The inputs of the other stages are not constrained.

Checked by TLC only, because they are out of the prover's reach: liveness (`JobsSettle`,
`RequestsEnd`, `ExtractionEnds`) and the fair part of `ImplementsJobLifecycle` (the prover has
neither fairness nor `ENABLED`). And `PassagesFaithful` and `CitationsTruthful`: each
is a conjunction over some ten or twenty stages whose functions filter and sort with
`SelectSeq` and `SortSeq`, split texts by recursive functions over their characters and fold scores, and
what these compute for every input needs an induction of its own, stage by stage, as in
`Loaders_proofs`. A theorem would have to cover all stages of the property.

## Disagreements

Where the code does not do what its documentation or a comment says. In the first eight a run's
property states the sentence and is violated, and the property of a passing run that is weaker for
it says so; `findings` in `PROJECT.json` has the lines and the schedules.

- `sources_stored`. `_delete_blob_if_unreferenced` counts the references to a file and then
  unlinks it, while an upload puts its file before the transaction that refers to it. A
  deletion that counts in between removes the file of the new document. Its documentation
  says the file is unlinked "only if no other document or version still points at it" and
  that a failure "leaks a file rather than corrupting state".
- `undone_access`. An update that names no access writes back the one it read before its transaction,
  and undoes a change committed in between; `ingest_routes.py` 129 promises the "CURRENT values".
- `promises`, `NothingPassedOver`. A paragraph with a picture is read by its direct runs
  (`docx_loader.py` 86): the text of a hyperlink in it is lost, and the extraction is `complete`;
  "paragraphs and tables are emitted".
- `promises`, `PicturesCutWhereTheyStand`. `_crop_png` cuts from the bitmap of the crop box without
  taking off the box's origin, although `pdf.py` 74 says that the two coordinate systems differ and
  `_layout_crop` does it.
- `promises`, `ParagraphsFit`. `_to_units` promises that no unit exceeds the target; a sentence between
  the target and the maximum is left whole, the overlap before it takes the passage over the limit,
  and the document fails.
- `promises`, `HeadingsKept`. `_bounded_heading` cuts a heading to a third of the limit, and nothing
  else has the rest; "every chunk carries its own section heading path".
- `promises`, `RepliesPassThrough`. `/query` replies with up to five searches, and with regions whose
  width is rounded to 0; `/answer` refuses both, although a reply may be "passed straight through".
- `promises`, `GeneralIsLastResort`. A source that is withdrawn after a grounded answer was made turns it
  into one without evidence, in words the fallback does not look for, and a general answer takes its
  place; the README promises that for a question "without sufficient retrieved evidence".

Of these the models have the behaviour, and no property denies it:

- The bytes of a document whose only job is dead are answered as "identical content already
  ingested"; the route documents this answer as "byte-for-byte what is already indexed"
  (`ingest_routes.py` 114; `UploadSame` in `DocumentStore`).
- `set_route_summary` updates the job by its id alone, so a worker that was reclaimed during PARSE
  writes into the row of the next one, though `test_reclaimed_worker_cannot_mutate_job` is the name of
  a test (`PutSummary` in `JobQueue`; `StaleWorkerHarmless` allows just this write).
- A publication whose reply is lost leaves an error event in the last attempt of a job that is done; an
  event is the "outcome of a single pipeline stage" (`models.py` 276; `PublishReplyLost` in `JobTrace`;
  `TraceTruthful` allows just this event).
- A login that succeeds resets the limiter of its email; `RateLimiter.hit` says that who occasionally
  succeeds "can't reset their own budget", `reset` is documented to do just that (`RotateToken` in `Accounts`;
  no property says how many hits a limiter counts).

## Observations

Read off the code while modelling it. The models follow the code in each; where a property
had to be stated more weakly for one of them, it says so.

Documents and jobs:

- An update that names a `document_id` may take the file name of another document. A document
  from before version history existed loses its version 1 once updated.
- `list_document_versions` marks every version with the current content's hash as current.
- `get_job` filters by tenant, so the job listed for another tenant's global document is a 404.
- A deletion while someone pages shifts the offset and hides a document; a page filtered by
  `can_view` may be empty before the end.
- Events a worker writes after its document was deleted stay behind. A poll of the parent that
  meets the end of the child between `poll` and `is_alive` condemns a finished extraction.
- `upsert`, `set_document_metadata`, `create_document`, `update_document_content`,
  `add_document_version`, `replace_document_chunks`, `enqueue` and `complete` have no caller.
  Vector rows are never removed, only marked.

Files and passages:

- A document fails for a table whose identity takes more than the maximum less 4 tokens, and a row that
  only just fits is cut by tokens or fails.
- `_esc` replaces `\r` and `\n`, but the chunker reads tables with `splitlines`, which
  breaks at seven more characters; such a cell ends in a "cardinality mismatch". Column names
  are escaped twice. A header row with a cell `---` is taken for the separator.
- The other things that are passed over without an omission are listed with `Loaders`; no source says
  of them that they are kept.
- Overlapping figures count twice against the vision budget, and so do reused calls. The branch of
  `page_render_limit` cannot be reached.
- Spans of two recognised lines may overlap, as matches of a line only exclude one another.
- A row of a CSV file is located by its number among the data rows, without blank lines; the preview
  counts lines from the header. A cut table block of a preview still carries all its `rows`.

Questions and answers:

- Rosters past a third of `top_k` are cut. Explicit list items are not deduplicated; an
  explicit follow-up may repeat a planned search.
- A range reply skips the hash check; its `Content-Range` may carry the size of a file that was
  replaced since. `version=0` in a source URL means the current one. A PDF that is none is a 500,
  a missing picture file a 422.

Accounts and models:

- `RateLimiter.hit` says that every call counts; those it refuses do not.
- `create_member` does not look again whether its administrator still is one. Two first-run
  setups may both test "nothing configured" and both write.
- The caches of local embedders are keyed by repository, revision and length. An embedder with
  a small limit can bring the target of a passage below 3 tokens.

## Not modelled

- The two notebooks (8,029 of the 29,222 lines) walk through the pipeline by calling the code that
  is modelled here; the web pages under `app/api` are rendered in a browser.
- `eval/` and `scripts/` are load tests, drills, backups and checks of a deployment beside the
  program, with the exception of `migrate_embeddings.py`. Tests are read, not modelled.
- `config.py`, `logger.py`, `container.py`, `app.py`, `body_limit.py`: reading settings, formatting,
  construction. What a setting decides is a constant where it matters.
- `permissions.py` grants rights to a role of the database, in one statement after the other.
- The numerical parts of embedders, rerankers and lexical scores, the approximation of the vector
  index above 1,000 eligible rows, and what PDF, Word, Excel and picture libraries make of a file:
  their results are inputs, in every combination the stages tell apart.
- The wording of prompts, of messages and of errors. Of questions, what `decompose.py` makes of
  their wording is a choice.
- `_html_rows` lets a colspan overwrite a cell a rowspan reserved; tables here have no spans.
- Activation of a profile also moves the epoch, as every publication in `AnswerCache` does;
  `EmbeddingMigration` leaves it out.

What is left of the components that are modelled in part is said with each in `PROJECT.json`.
What is left to prove are the properties of the other stages of `passages`, by the same means as those of
the loaders and the search: the ranges of `Sources` and the packing of `Grounding` first, as they
filter and cut without splitting texts.
