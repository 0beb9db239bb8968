------------------------------ MODULE AnswerCache ------------------------------
(***************************************************************************)
(* Answering a question while the corpus changes, with the semantic cache: *)
(*   app/retrieval/rag/query.py                     the steps of an answer *)
(*   app/retrieval/adapters/cache/redis_stack.py    the cached answers     *)
(*   app/shared/adapters/postgres/metadata_store.py corpus_epoch           *)
(*   app/shared/adapters/pgvector/vector_store.py   validate_sources       *)
(*                                                                         *)
(* A request reads the epoch, tries the cache, searches, expands what it   *)
(* found, has a model answer in one or more rounds, and stores the answer. *)
(* Each of these is a transaction, a search or a Redis command of its own, *)
(* and between any two of them the corpus may change or the request may    *)
(* end (its budget runs out, a call raises, the process dies).             *)
(*                                                                         *)
(* The corpus is what DocumentStore!EpochCoversRetrieval says of it: what  *)
(* a user can retrieve changes together with the epoch, except that the    *)
(* vectors of a document being deleted go before the epoch moves.  One     *)
(* tenant; its two revisions are one number here, as are its two cache     *)
(* generations.  The embedding profile and top_k are fixed.                *)
(***************************************************************************)
EXTENDS Naturals

CONSTANTS
    Chunks,        \* chunks of published generations
    Users,
    Questions,     \* questions near enough for the cache to take one for another
    Clients,       \* requests in flight
    MaxEpoch,      \* bound: revisions of the corpus
    NoEntry

ASSUME AnswerCacheAssumption == MaxEpoch \in Nat

VARIABLES
    visible,       \* visible[u]: the chunks user u can retrieve now
    epoch,         \* corpus_epoch
    owed,          \* invalidate_cache_for calls still to come
    gen,           \* the cache generation of the tenant
    cache,         \* cache[<<u, q>>]: the Redis hash of that user and question
    req            \* req[c]: the request of client c

corpus == <<visible, epoch, owed>>
vars == <<corpus, gen, cache, req>>

Places == {"idle", "lookup", "nearest", "hit", "search", "expand", "sources", "check", "recheck",
           "used", "store", "served"}

\* chunks, stamp and answers are the request's own; the others are history:
\* seen is what all its reads of the corpus returned, always and ever what was
\* visible all along and at some time.
Request == [at: Places, user: Users, question: Questions,
            epoch: 0..MaxEpoch, chunks: SUBSET Chunks, stamp: Nat, answers: Questions,
            seen: SUBSET Chunks, always: SUBSET Chunks, ever: SUBSET Chunks]

Idle == [at |-> "idle"]

Entry == [question: Questions, epoch: 0..MaxEpoch, chunks: SUBSET Chunks, gen: Nat,
          seen: SUBSET Chunks]

TypeOK ==
    /\ visible \in [Users -> SUBSET Chunks]
    /\ epoch \in 0..MaxEpoch
    /\ owed \in Nat
    /\ gen \in Nat
    /\ cache \in [Users \X Questions -> Entry \cup {NoEntry}]
    /\ req \in [Clients -> Request \cup {Idle}]

Init ==
    /\ visible \in [Users -> SUBSET Chunks]
    /\ epoch = 0
    /\ owed = 0
    /\ gen = 0
    /\ cache = [k \in Users \X Questions |-> NoEntry]
    /\ req = [c \in Clients |-> Idle]

(***************************************************************************)
(* The corpus and the cache generations.                                   *)
(***************************************************************************)

\* History: what the requests under way live through.
Witnessed(new) ==
    req' = [c \in Clients |->
        IF req[c].at \in {"idle", "served"} THEN req[c]
        ELSE [req[c] EXCEPT !.always = @ \cap new[req[c].user],
                            !.ever = @ \cup new[req[c].user]]]

\* A publication, an update, an access change or the row of a deletion; the
\* invalidation of the cache follows it for publications and deletions.
ChangeCorpus(new) ==
    /\ epoch < MaxEpoch
    /\ epoch' = epoch + 1
    /\ visible' = new
    /\ owed' \in {owed, owed + 1}
    /\ Witnessed(new)
    /\ UNCHANGED <<gen, cache>>

\* The vectors of a document are marked deleted.
WithdrawVectors(gone) ==
    /\ visible' = [u \in Users |-> visible[u] \ gone]
    /\ Witnessed(visible')
    /\ UNCHANGED <<epoch, owed, gen, cache>>

\* invalidate_tenant or invalidate_all, or its failure, which is swallowed.
Invalidate ==
    /\ owed > 0
    /\ owed' = owed - 1
    /\ gen' \in {gen, gen + 1}
    /\ UNCHANGED <<visible, epoch, cache, req>>

\* The entry's time is up.
Expire(u, q) ==
    /\ cache[<<u, q>>] # NoEntry
    /\ cache' = [cache EXCEPT ![<<u, q>>] = NoEntry]
    /\ UNCHANGED <<corpus, gen, req>>

(***************************************************************************)
(* A request.                                                              *)
(***************************************************************************)
Goto(c, place) == req' = [req EXCEPT ![c].at = place]
End(c) == req' = [req EXCEPT ![c] = Idle]

\* A request begins, for what follows, when it reads the epoch.
Start(c, u, q) ==
    /\ req[c].at = "idle"
    /\ req' = [req EXCEPT ![c] =
            [at |-> "lookup", user |-> u, question |-> q, epoch |-> epoch, chunks |-> {},
             stamp |-> 0, answers |-> q, seen |-> {},
             always |-> visible[u], ever |-> visible[u]]]
    /\ UNCHANGED <<corpus, gen, cache>>

\* get reads the generation ...
Lookup(c) ==
    /\ req[c].at = "lookup"
    /\ req' = [req EXCEPT ![c].at = "nearest", ![c].stamp = gen]
    /\ UNCHANGED <<corpus, gen, cache>>

\* ... and asks for the nearest entry of this user and that generation: it may
\* be one of this question or of one close to it.
Nearest(c) ==
    {e \in {cache[<<req[c].user, q>>] : q \in Questions} : e # NoEntry /\ e.gen = req[c].stamp}

\* Defect: an entry is taken for what the generation filter says it is.
UsableByGeneration(c, e) == e.question = req[c].question

\* Defect: a close enough question is the same question.
UsableForSimilar(c, e) == e.epoch = req[c].epoch

\* What answer_query asks of a hit before it looks at the sources.
Usable(c, e) == e.epoch = req[c].epoch /\ e.question = req[c].question

LookupHit(c) ==
    /\ req[c].at = "nearest"
    /\ \E e \in Nearest(c) :
        /\ Usable(c, e)
        /\ req' = [req EXCEPT ![c].at = "hit", ![c].chunks = e.chunks, ![c].seen = e.seen,
                              ![c].answers = e.question]
    /\ UNCHANGED <<corpus, gen, cache>>

\* Nothing near enough, nothing usable, no cache for this request, or Redis down.
LookupMiss(c) ==
    /\ req[c].at \in {"lookup", "nearest"}
    /\ Goto(c, "search")
    /\ UNCHANGED <<corpus, gen, cache>>

\* validate_sources(chunk_ids, access)
Valid(c) == req[c].chunks # {} /\ req[c].chunks \subseteq visible[req[c].user]

\* Defect: the cached answer is served as it is.
ServeHitUnchecked(c) ==
    /\ req[c].at = "hit"
    /\ Goto(c, "served")
    /\ UNCHANGED <<corpus, gen, cache>>

ServeHit(c) ==
    /\ req[c].at = "hit"
    /\ Goto(c, IF Valid(c) THEN "served" ELSE "search")
    /\ UNCHANGED <<corpus, gen, cache>>

\* retrieve_chunks: some of what there is, or nothing.
Search(c) ==
    LET found == visible[req[c].user] IN
    /\ req[c].at = "search"
    /\ \E hits \in SUBSET found :
        req' = [req EXCEPT ![c].at = "expand", ![c].chunks = hits, ![c].seen = found,
                              ![c].answers = req[c].question]
    /\ UNCHANGED <<corpus, gen, cache>>

\* expand_evidence adds neighbours, pack_evidence drops what does not fit.
Expand(c) ==
    LET found == visible[req[c].user] IN
    /\ req[c].at = "expand"
    /\ \E packed \in SUBSET (req[c].chunks \cup found) :
        req' = [req EXCEPT ![c].at = "sources", ![c].chunks = packed, ![c].seen = @ \cap found]
    /\ UNCHANGED <<corpus, gen, cache>>

\* Before the first call of the model; without evidence there is no answer.
CheckSources(c) ==
    /\ req[c].at = "sources"
    /\ IF Valid(c) THEN Goto(c, "check") ELSE End(c)
    /\ UNCHANGED <<corpus, gen, cache>>

\* Before each further call and before the answer: has the corpus moved?
CheckEpoch(c) ==
    /\ req[c].at = "check"
    /\ IF epoch = req[c].epoch THEN Goto(c, "recheck") ELSE End(c)
    /\ UNCHANGED <<corpus, gen, cache>>

\* ... and are the sources still there?  Then the model is called once more, to
\* retry, review or repair, or its answer is taken.
RecheckSources(c) ==
    /\ req[c].at = "recheck"
    /\ IF Valid(c)
       THEN Goto(c, "check") \/ Goto(c, "used")
       ELSE End(c)
    /\ UNCHANGED <<corpus, gen, cache>>

\* Defect: the counters put found missing go into the entry as they are.
AcceptUnstamped(c) ==
    /\ req[c].at = "used"
    /\ req' = [req EXCEPT ![c].at = "store", ![c].stamp = NoEntry]
    /\ UNCHANGED <<corpus, gen, cache>>

\* The sources the answer cites are looked at once more.  It is returned as it
\* is, or stored first under the generation put reads.
Accept(c) ==
    /\ req[c].at = "used"
    /\ req[c].chunks \cap visible[req[c].user] # {}
    /\ \/ Goto(c, "served")
       \/ req' = [req EXCEPT ![c].at = "store", ![c].stamp = gen]
    /\ UNCHANGED <<corpus, gen, cache>>

\* Defect: the entry is stamped with the epoch of the moment it is stored.
StoreWithLateEpoch(c) ==
    LET r == req[c] IN
    /\ r.at = "store"
    /\ cache' = [cache EXCEPT ![<<r.user, r.question>>] =
            [question |-> r.question, epoch |-> epoch, chunks |-> r.chunks,
             gen |-> r.stamp, seen |-> r.seen]]
    /\ Goto(c, "served")
    /\ UNCHANGED <<corpus, gen>>

\* The hash is written, over an older one if there is one.
Store(c) ==
    LET r == req[c] IN
    /\ r.at = "store"
    /\ cache' = [cache EXCEPT ![<<r.user, r.question>>] =
            [question |-> r.question, epoch |-> r.epoch, chunks |-> r.chunks,
             gen |-> r.stamp, seen |-> r.seen]]
    /\ Goto(c, "served")
    /\ UNCHANGED <<corpus, gen>>

\* Redis is down: the answer is returned uncached.
StoreFails(c) ==
    /\ req[c].at = "store"
    /\ Goto(c, "served")
    /\ UNCHANGED <<corpus, gen, cache>>

\* The answer has been received; or the request was given up.
Leave(c) ==
    /\ req[c].at # "idle"
    /\ End(c)
    /\ UNCHANGED <<corpus, gen, cache>>

RequestStep(c) ==
    \/ \E u \in Users, q \in Questions : Start(c, u, q)
    \/ Lookup(c) \/ LookupHit(c) \/ LookupMiss(c) \/ ServeHit(c)
    \/ Search(c) \/ Expand(c) \/ CheckSources(c)
    \/ CheckEpoch(c) \/ RecheckSources(c)
    \/ Accept(c) \/ Store(c) \/ StoreFails(c)
    \/ Leave(c)

Next ==
    \/ \E new \in [Users -> SUBSET Chunks] : ChangeCorpus(new)
    \/ \E gone \in SUBSET Chunks : WithdrawVectors(gone)
    \/ Invalidate
    \/ \E u \in Users, q \in Questions : Expire(u, q)
    \/ \E c \in Clients : RequestStep(c)

Spec == Init /\ [][Next]_vars

-------------------------------------------------------------------------------
(***************************************************************************)
(* Properties.                                                             *)
(***************************************************************************)

(* An entry whose stamp is the present epoch was made with everything in   *)
(* view that its user can retrieve now: answers stored late, by requests   *)
(* that raced a publication or an access change, never pass for current.   *)
(* It is this, not the generation filter of Redis, that invalidates.       *)
CurrentEntriesComplete ==
    \A u \in Users, q \in Questions :
        (cache[<<u, q>>] # NoEntry /\ cache[<<u, q>>].epoch = epoch)
            => visible[u] \subseteq cache[<<u, q>>].seen

(* An answer, cached or not, is one to the question asked, as the corpus   *)
(* was while it was being asked: nothing the user could retrieve all along *)
(* was out of its view, and each passage it rests on could be retrieved by *)
(* the user at some time meanwhile.                                        *)
ServedIsCurrent ==
    \A c \in Clients : req[c].at = "served" =>
        /\ req[c].answers = req[c].question
        /\ req[c].always \subseteq req[c].seen
        /\ req[c].chunks \subseteq req[c].ever

===============================================================================
