------------------------------- MODULE Retrieval -------------------------------
(***************************************************************************)
(* From a question to its evidence:                                        *)
(*   shared/adapters/pgvector/vector_store.py   search and neighbours      *)
(*   retrieval/rag/access.py                    who may see a passage      *)
(*   retrieval/rag/query.py                     decomposition, reranking   *)
(*   retrieval/rag/evidence_quality.py          page furniture             *)
(*   retrieval/rag/context.py                   expansion in source order  *)
(*                                                                         *)
(* A corpus is a sequence of passages [tenant, doc, gen, ordinal, section, *)
(* live, owner, visibility, acl, scope, dense, lex, rerank, table, header, *)
(* rows, where, text, pages]; a passage's id is its position.  dense, lex  *)
(* and rerank give its score for each question (lex 0: no match).  live:   *)
(* of the active generation and not marked deleted.  where: the regions of *)
(* its provenance ("none", "abandon", "logo", "top" or "body").  What is   *)
(* found is a list of ids.  Reciprocal rank scores are multiples of        *)
(* 1 / Scale.                                                              *)
(***************************************************************************)
EXTENDS Lists, TLC

AllDocs == {0}           \* document_ids is None; documents are numbered from 1
NoUser == ""
NoFloor == -1            \* no minimum score of the reranker

(***************************************************************************)
(* What a search works on: live passages of a document have places of      *)
(* their own, and who asks is known by an id.                              *)
(***************************************************************************)
CorpusWhole(corpus, parts) ==
    /\ Len(corpus) \in Nat
    /\ \A i \in 1..Len(corpus) :
          /\ corpus[i].doc \in Nat /\ corpus[i].ordinal \in Nat /\ corpus[i].rows \in Seq(Nat)
          /\ \A q \in 1..parts :
                corpus[i].dense[q] \in Nat /\ corpus[i].lex[q] \in Nat /\ corpus[i].rerank[q] \in Nat
    /\ \A i, j \in 1..Len(corpus) :
          /\ corpus[i].live /\ corpus[j].live
          /\ corpus[i].doc = corpus[j].doc /\ corpus[i].ordinal = corpus[j].ordinal
          => i = j

SettingsWhole(settings) ==
    /\ {settings.multiplier, settings.candidates, settings.wider, settings.least} \subseteq Nat
    /\ {settings.lexical, settings.reranker, settings.failing} \subseteq BOOLEAN
    /\ settings.floor \in Nat \cup {NoFloor}

SearchInput(g) ==
    /\ g.question.parts \in Nat \ {0}
    /\ {g.question.collection, g.question.furniture} \subseteq BOOLEAN
    /\ g.k \in Nat \ {0}
    /\ CorpusWhole(g.corpus, g.question.parts)
    /\ SettingsWhole(g.settings)
    /\ g.access.role = "admin" \/ g.access.user # NoUser

(***************************************************************************)
(* can_view, AccessFilter and the filters every query of the store has.    *)
(* An access is [tenant, user, role, docs].                                *)
(***************************************************************************)
CanView(p, access) ==
    \/ p.scope = "global"
    \/ access.role = "admin"
    \/ p.owner = access.user
    \/ p.visibility = "tenant"
    \/ p.visibility = "shared" /\ access.user \in p.acl

\* AccessFilter.__call__
Admits(access, p) == (access.docs = AllDocs \/ p.doc \in access.docs) /\ CanView(p, access)

Visible(p, access) ==
    /\ p.live
    /\ p.tenant = access.tenant \/ p.scope = "global"
    /\ Admits(access, p)

\* acl_pushdown: the rule once more, as the clauses that queries of the store have
\* before their limits; an administrator gets none but that of the documents.
AclPushdown(access) ==
    [docs |-> access.docs, ruled |-> access.role # "admin" /\ access.user # NoUser, user |-> access.user]

Eligible(p, access) ==
    LET clauses == AclPushdown(access) IN
    /\ p.live
    /\ p.tenant = access.tenant \/ p.scope = "global"
    /\ clauses.docs = AllDocs \/ p.doc \in clauses.docs
    /\ clauses.ruled => \/ p.scope = "global"
                        \/ p.owner = clauses.user
                        \/ p.visibility = "tenant"
                        \/ p.visibility = "shared" /\ clauses.user \in p.acl

(***************************************************************************)
(* PgVectorStore.search                                                    *)
(***************************************************************************)
AllIds(corpus) == [i \in 1..Len(corpus) |-> i]
Admitted(corpus, access) == {i \in 1..Len(corpus) : Admits(access, corpus[i])}

\* Defect: a page of candidates is cut before those not visible are taken out.
CandidatesThenVisible(corpus, access, wanted, scores, pool) ==
    Among(Top(Descending(Among(AllIds(corpus), wanted), scores), pool),
          {i \in 1..Len(corpus) : Visible(corpus[i], access)})

\* The best of what is wanted and eligible, at most pool of them, of which search
\* asks the rule again.
Candidates(corpus, access, wanted, scores, pool) ==
    Among(Top(Descending(Among(AllIds(corpus), {i \in wanted : Eligible(corpus[i], access)}), scores), pool),
          Admitted(corpus, access))

DenseScores(corpus, q) == [i \in 1..Len(corpus) |-> corpus[i].dense[q]]
LexicalScores(corpus, q) == [i \in 1..Len(corpus) |-> corpus[i].lex[q]]
Matching(corpus, q) == {i \in 1..Len(corpus) : corpus[i].lex[q] > 0}

PoolSize(settings, k) == Max({k, k * settings.multiplier, settings.candidates})

\* Lists of ids are fused by rank alone, the ids of the first list before others.
Scale == 61 * 62 * 63 * 64 * 65
RankIn(list, i) == IF i \in ToSet(list) THEN Scale \div (60 + Position(list, i)) ELSE 0

RankSum(lists, i) ==
    LET sum[n \in 0..Len(lists)] == IF n = 0 THEN 0 ELSE sum[n - 1] + RankIn(lists[n], i)
    IN  sum[Len(lists)]

FusedByRank(lists) ==
    LET ids == FlattenSeq(lists) IN Descending(ids, [i \in ToSet(ids) |-> RankSum(lists, i)])

\* Dense candidates, then lexical ones; of these there are none if that search fails.
Search(corpus, access, q, k, settings) ==
    LET pool == PoolSize(settings, k)
        dense == Candidates(corpus, access, 1..Len(corpus), DenseScores(corpus, q), pool)
        lexical == Candidates(corpus, access, Matching(corpus, q), LexicalScores(corpus, q), pool)
    IN  Top(FusedByRank(<<dense, IF settings.lexical THEN lexical ELSE <<>>>>), k)

\* Tables of a requested collection, found by words alone.
MatchingRoster(p, question) == question.collection /\ p.table /\ p.header = question.collected
Rosters(corpus, question) == {i \in 1..Len(corpus) : MatchingRoster(corpus[i], question)}

CollectionCandidates(corpus, access, question) ==
    Top(Among(Candidates(corpus, access, {i \in Matching(corpus, 1) : corpus[i].table}, LexicalScores(corpus, 1), 200),
              Rosters(corpus, question)),
        20)

\* Visible passages within radius of a visible one, of the same generation and
\* section, the nearest first.
Near(corpus, access, a, i, radius) ==
    /\ Eligible(corpus[a], access) /\ Eligible(corpus[i], access)
    /\ corpus[i].doc = corpus[a].doc /\ corpus[i].tenant = corpus[a].tenant
    /\ corpus[i].gen = corpus[a].gen /\ corpus[i].section = corpus[a].section
    /\ corpus[i].ordinal \in (corpus[a].ordinal - radius)..(corpus[a].ordinal + radius)

OrdinalGap(p, r) == IF p.ordinal > r.ordinal THEN p.ordinal - r.ordinal ELSE r.ordinal - p.ordinal

SurroundingChunks(corpus, access, ids, radius, limit) ==
    LET anchors(i) == {a \in ToSet(ids) : Near(corpus, access, a, i, radius)}
        found == {i \in 1..Len(corpus) : anchors(i) # {}}
        gap == [i \in found |-> Min({OrdinalGap(corpus[a], corpus[i]) : a \in anchors(i)})]
        nearer == {p \in found \X found :
                     \/ gap[p[1]] < gap[p[2]]
                     \/ gap[p[1]] = gap[p[2]] /\ corpus[p[1]].ordinal < corpus[p[2]].ordinal
                     \/ gap[p[1]] = gap[p[2]] /\ corpus[p[1]].ordinal = corpus[p[2]].ordinal /\ p[1] < p[2]}
    IN  Among(Top(Arranged(found, nearer), limit), Admitted(corpus, access))

(***************************************************************************)
(* useful_indices: what is only page furniture is left out, unless asked   *)
(* for.  The same short text at the top of several pages is furniture.     *)
(***************************************************************************)
Repeats(corpus, ids, i) ==
    /\ corpus[i].where = "top"
    /\ \E j, k \in ids :
          /\ corpus[j].pages # corpus[k].pages
          /\ \A x \in {j, k} :
                /\ corpus[x].where = "top" /\ corpus[x].pages # {}
                /\ corpus[x].text = corpus[i].text
                /\ corpus[x].doc = corpus[i].doc /\ corpus[x].gen = corpus[i].gen

Furniture(corpus, question, ids) ==
    {i \in ids : ~question.furniture /\ (corpus[i].where \in {"abandon", "logo"} \/ Repeats(corpus, ids, i))}

Useful(corpus, question, ids) == Among(ids, ToSet(ids) \ Furniture(corpus, question, ToSet(ids)))

(***************************************************************************)
(* _rerank: the only place where the pool is cut to what was asked for.    *)
(* LLMReranker scores all 0 when its reply cannot be used, which keeps the *)
(* order; its scores and the cross-encoder's are the corpus's.             *)
(***************************************************************************)
Scores(corpus, q, settings) ==
    [i \in 1..Len(corpus) |-> IF settings.failing THEN 0 ELSE corpus[i].rerank[q]]

Rerank(corpus, q, ids, k, floor, settings) ==
    LET score == Scores(corpus, q, settings)
    IN  IF ~settings.reranker THEN Top(ids, k)
        ELSE Among(Top(Descending(ids, score), k), {i \in 1..Len(corpus) : score[i] >= floor})

FetchK(settings, k) == IF settings.reranker THEN Max({k * settings.wider, settings.least}) ELSE k

(***************************************************************************)
(* _retrieve_decomposed: the question and its parts are searched for one   *)
(* by one, and fused by rank; the best of each part are the winners.       *)
(***************************************************************************)
\* What is found for a part of the question, and the best of it.
Found(corpus, access, question, q, k, settings) ==
    Useful(corpus, question, Search(corpus, access, q, FetchK(settings, k), settings))

Ranked(corpus, q, found, k, floor, settings) ==
    Rerank(corpus, q, Top(found, 20), Min({3, k}), floor, settings)

\* One of every part before a second one of any.
Round(lists, n) == Each(lists, LAMBDA list, q : IF n <= Len(list) THEN <<list[n]>> ELSE <<>>)
Winners(lists) == Distinct(Round(lists, 1) \o Round(lists, 2) \o Round(lists, 3))

RetrieveDecomposed(corpus, access, question, k, floor, settings) ==
    LET found == [q \in 1..question.parts |-> Found(corpus, access, question, q, k, settings)]
    IN  [ids |-> FusedByRank(found),
         winners |-> Winners([q \in 1..question.parts |-> Ranked(corpus, q, found[q], k, floor, settings)])]

(***************************************************************************)
(* retrieve_chunks                                                         *)
(***************************************************************************)
\* The floor holds only where no documents were selected; a caller's own floor,
\* which goes before both, is left out.
Floor(access, settings) == IF access.docs = AllDocs THEN settings.floor ELSE NoFloor

FirstHits(corpus, access, question, k, settings) ==
    IF question.parts > 1
    THEN RetrieveDecomposed(corpus, access, question, k, Floor(access, settings), settings)
    ELSE [ids |-> Search(corpus, access, 1, FetchK(settings, k), settings), winners |-> <<>>]

WithCollection(corpus, access, question, ids) ==
    IF question.collection THEN Distinct(ids \o CollectionCandidates(corpus, access, question)) ELSE ids

\* What the parts won comes before what the reranker kept.
WinnersFirst(winners, reranked, k) ==
    IF winners = <<>> THEN reranked ELSE Top(Distinct(Top(winners, k) \o reranked), k)

Selected(corpus, question, kept, winners, k, floor, settings) ==
    WinnersFirst(Among(winners, ToSet(kept)),
                 Rerank(corpus, 1, IF question.parts > 1 THEN Top(kept, Max({k, 12})) ELSE kept,
                        k, floor, settings),
                 k)

\* A third of the places is for the rosters asked for; the others give theirs up.
RostersFirst(rosters, ids, k, floor) ==
    IF rosters # <<>> /\ floor = NoFloor
    THEN Top(Top(rosters, Max({1, k \div 3})) \o Among(ids, ToSet(ids) \ ToSet(rosters)), k)
    ELSE ids

FromPool(corpus, question, pool, winners, k, floor, settings) ==
    RostersFirst(Among(pool, Rosters(corpus, question)),
                 Selected(corpus, question, Useful(corpus, question, pool), winners, k, floor, settings),
                 k, floor)

RetrieveChunks(corpus, access, question, k, settings) ==
    LET first == FirstHits(corpus, access, question, k, settings)
    IN  FromPool(corpus, question, WithCollection(corpus, access, question, first.ids), first.winners,
                 k, Floor(access, settings), settings)

(***************************************************************************)
(* expand_evidence: a passage is [id, rows].  A roster's rows that one     *)
(* before it under the same header has are left out.                       *)
(***************************************************************************)
SameTable(p, r) == p.doc = r.doc /\ p.gen = r.gen /\ p.section = r.section /\ p.header = r.header

SourceOrder(corpus, ids) ==
    Arranged(ToSet(ids),
             {p \in ToSet(ids) \X ToSet(ids) :
                \/ corpus[p[1]].doc < corpus[p[2]].doc
                \/ corpus[p[1]].doc = corpus[p[2]].doc /\ corpus[p[1]].ordinal < corpus[p[2]].ordinal
                \/ corpus[p[1]].doc = corpus[p[2]].doc /\ corpus[p[1]].ordinal = corpus[p[2]].ordinal /\ p[1] < p[2]})

AllRows(corpus, ids) == [n \in 1..Len(ids) |-> [id |-> ids[n], rows |-> corpus[ids[n]].rows]]

\* Rows of the rosters before the n-th, of the same table.
SeenRows(corpus, rosters, n) ==
    UNION {ToSet(corpus[rosters[m]].rows) :
             m \in {x \in 1..(n - 1) : SameTable(corpus[rosters[x]], corpus[rosters[n]])}}

NewRows(corpus, rosters) ==
    [n \in 1..Len(rosters) |->
       [id |-> rosters[n],
        rows |-> Each(corpus[rosters[n]].rows,
                      LAMBDA r, i : IF r \in SeenRows(corpus, rosters, n) THEN <<>> ELSE <<r>>)]]

RostersAhead(corpus, rosters, ids) ==
    NewRows(corpus, rosters) \o AllRows(corpus, Among(ids, ToSet(ids) \ ToSet(rosters)))

Ordered(corpus, question, ids) == RostersAhead(corpus, Among(ids, Rosters(corpus, question)), ids)

WithNeighbours(corpus, question, ids, near) ==
    IF near = <<>> THEN AllRows(corpus, ids)
    ELSE Ordered(corpus, question,
                 Useful(corpus, question,
                        SourceOrder(corpus, Top(Distinct(ids \o near), Max({50, Len(ids)})))))

ExpandEvidence(corpus, access, question, ids) ==
    WithNeighbours(corpus, question, ids, SurroundingChunks(corpus, access, ids, 2, 50))

(***************************************************************************)
(* Properties of results                                                   *)
(***************************************************************************)
\* The two forms of the rule agree on every passage.
RulesAgree(corpus, access) ==
    \A i \in 1..Len(corpus) : Eligible(corpus[i], access) = Visible(corpus[i], access)

Seen(corpus, access) == {i \in 1..Len(corpus) : Visible(corpus[i], access)}

\* What is retrieved is visible, at most k passages, no passage twice.
Retrieved(corpus, access, k, ids) ==
    /\ Len(ids) <= k
    /\ ToSet(ids) \subseteq Seen(corpus, access)
    /\ Cardinality(ToSet(ids)) = Len(ids)

\* Without a floor the list is as long as there are visible passages for it: those
\* that may not be seen take no place.  (The settings must let a search fetch what was
\* asked for.  Rosters past the third that is kept for them leave the list for good,
\* so a question for a collection may get fewer.)
Full(corpus, access, question, k, settings, ids) ==
    /\ FetchK(settings, k) >= k /\ ~question.collection /\ Floor(access, settings) = NoFloor
    /\ Furniture(corpus, question, Seen(corpus, access)) = {}
    => Len(ids) = Min({k, Cardinality(Seen(corpus, access))})

\* Of every part of a question the best of its first twenty passages is there, if
\* there is room for all.
Covered(corpus, access, question, k, settings, ids) ==
    question.parts > 1 /\ question.parts <= k /\ ~question.collection =>
      \A q \in 1..question.parts :
        \A best \in ToSet(Rerank(corpus, q, Top(Found(corpus, access, question, q, k, settings), 20),
                                 1, Floor(access, settings), settings)) :
            corpus[best].where \in {"none", "body"} => best \in ToSet(ids)

\* The expansion adds visible passages of the sections retrieved, keeps what was
\* retrieved but for furniture, keeps source order, and loses no row.
Expanded(corpus, access, question, ids, evidence) ==
    LET there == {evidence[n].id : n \in 1..Len(evidence)}
    IN  /\ there \subseteq Seen(corpus, access)
        /\ \A i \in there :
             \E a \in ToSet(ids) : /\ corpus[a].doc = corpus[i].doc
                                   /\ corpus[a].gen = corpus[i].gen
                                   /\ corpus[a].section = corpus[i].section
        /\ \A a \in ToSet(ids) : corpus[a].where \in {"none", "body"} => a \in there
        /\ \A m, n \in 1..Len(evidence) :
             LET p == corpus[evidence[m].id]
                 r == corpus[evidence[n].id]
             IN  m < n /\ ~MatchingRoster(p, question) /\ p.doc = r.doc => p.ordinal < r.ordinal
        /\ UNION {ToSet(corpus[i].rows) : i \in there} = UNION {ToSet(evidence[n].rows) : n \in 1..Len(evidence)}
================================================================================
