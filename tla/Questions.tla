------------------------------- MODULE Questions -------------------------------
(***************************************************************************)
(* What may be asked, and what is replied (app/api/retrieval_routes.py):   *)
(*   /query    passages alone                                              *)
(*   /ask      an answer from them, from an earlier answer, or from what   *)
(*             is generally known (retrieval/rag/query.py, general.py)     *)
(*   /answer   an answer from passages the caller supplies                 *)
(* How passages are found is in Retrieval, how an answer is grounded in    *)
(* Grounding, when an earlier one is current in AnswerCache; here it is    *)
(* what a request and its controls make of them.                           *)
(*                                                                         *)
(* A request is [user, text, topK, docs, enforce, floor, model, cache,     *)
(* general, style]; a field not given is Unset, and "bad" is what is       *)
(* malformed or too long.  A world is what a request meets: its settings,  *)
(* the epoch, profile and citation schema, whether an earlier question is  *)
(* near and its sources may still be seen, and how the generation runs.    *)
(***************************************************************************)
EXTENDS Integers, Sequences, FiniteSets, SequencesExt

CONSTANTS
    Unset,
    MostAsked,      \* 50: top_k, document ids, supplied passages
    MostSearches    \* 4: searches an AnswerRequest may name

Refusal(code) == [status |-> code]

(***************************************************************************)
(* Requests                                                                *)
(***************************************************************************)
\* The ranges of QueryRequest, and of what AskRequest adds.
QueryAccepted(r) ==
    /\ r.text \notin {"", "blank", "bad"}
    /\ r.topK \in 1..MostAsked
    /\ r.docs # Unset => Len(r.docs) <= MostAsked /\ "bad" \notin ToSet(r.docs)
    /\ r.floor # "bad"

AskAccepted(r) == QueryAccepted(r) /\ r.model # "bad" /\ r.style # "bad"

\* _allowed_model: any model of the settings or of the catalog but a Claude model.
AllowedModel(r, w) ==
    LET model == IF r.model \in {Unset, ""} THEN w.chat ELSE r.model
    IN  IF model = "claude" THEN Refusal(400)
        ELSE IF model \in {w.chat} \cup w.allowed THEN [status |-> 200, model |-> model]
        ELSE IF w.catalog = "fails" THEN Refusal(503)
        ELSE IF w.catalog = "offers" THEN [status |-> 200, model |-> model] ELSE Refusal(400)

(***************************************************************************)
(* generate_answer_from_chunks, as far as its end: how many passages it    *)
(* has (packed), the replies it gets, and where what it works on changes.  *)
(* Every check but the first and the last reads the epoch too.             *)
(***************************************************************************)
CheckOrder == <<"generation", "retry", "review", "repair", "end", "used">>
CheckRank(c) == CHOOSE n \in 1..Len(CheckOrder) : CheckOrder[n] = c

Accepts(run) == run.replies[IF run.complex THEN 3 ELSE IF run.replies[1] = "broken" THEN 2 ELSE 1] = "answered"

Checks(run) ==
    SelectSeq(CheckOrder, LAMBDA c : CASE c = "retry" -> run.replies[1] = "broken"
                                       [] c = "review" -> run.complex
                                       [] c = "repair" -> Accepts(run) /\ run.unquoted
                                       [] c = "used" -> Accepts(run)
                                       [] OTHER -> TRUE)

Notices(change, c) ==
    /\ change.what # "nothing"
    /\ CheckRank(c) >= change.from
    /\ change.what = "sources" \/ c \notin {"generation", "used"}

Noticed(run) == SelectSeq(Checks(run), LAMBDA c : Notices(run.change, c))

Insufficiently(changed) ==
    [status |-> "insufficient_evidence", origin |-> "retrieved", grounded |-> FALSE, cites |-> FALSE,
     changed |-> changed, cached |-> FALSE]

\* The trace says what has changed, but for a change seen before the review or after
\* the last check.
Generated(run) ==
    IF run.packed = 0 THEN Insufficiently(FALSE)
    ELSE IF Noticed(run) # <<>> THEN Insufficiently(Head(Noticed(run)) \notin {"review", "used"})
    ELSE IF ~Accepts(run) THEN Insufficiently(FALSE)
    ELSE [status |-> "answered", origin |-> "retrieved", grounded |-> TRUE, cites |-> TRUE,
          changed |-> FALSE, cached |-> FALSE]

\* general_answer: what is asked for alone, without any passage.
GeneralAnswer(reply, fallback) ==
    IF reply # "general_answer" THEN fallback
    ELSE [fallback EXCEPT !.status = "general_answer", !.origin = "general"]

(***************************************************************************)
(* answer_query                                                            *)
(***************************************************************************)
CacheAllowed(r) ==
    r.cache # FALSE /\ r.docs = Unset /\ r.enforce = Unset /\ r.floor = Unset /\ r.style = Unset

UsesCache(r, w) == CacheAllowed(r) /\ w.cache /\ r.user # Unset

\* What an answer is kept with; the cache finds it by user, model and likeness.
Payload(r, w, model, answer) ==
    [user |-> r.user, model |-> model, schema |-> w.schema, epoch |-> w.epoch, profile |-> w.profile,
     text |-> r.text, topK |-> r.topK, answer |-> answer]

\* _cache_compatible
CacheCompatible(p, w) == p.schema = w.schema

Serves(p, r, w, model) ==
    /\ p.user = r.user /\ p.model = model /\ w.near
    /\ CacheCompatible(p, w)
    /\ p.epoch = w.epoch /\ p.profile = w.profile
    /\ p.text = r.text /\ p.topK = r.topK
    /\ w.valid

\* Everything an answer depends on.
Controls(r, model) ==
    [user |-> r.user, text |-> r.text, topK |-> r.topK, docs |-> r.docs, enforce |-> r.enforce,
     floor |-> r.floor, style |-> r.style, model |-> model]

\* General knowledge may stand in for a whole collection only, and for no change in it.
OrGenerally(r, w, result) ==
    IF r.general /\ result.status = "insufficient_evidence" /\ r.docs = Unset /\ ~result.changed
    THEN GeneralAnswer(w.generally, result) ELSE result

AnswerQuery(r, w, kept, model) ==
    LET found == {p \in kept : UsesCache(r, w) /\ Serves(p, r, w, model)} IN
    IF found # {} THEN [(CHOOSE p \in found : TRUE).answer EXCEPT !.cached = TRUE]
    ELSE OrGenerally(r, w, Generated(w.run)) @@ [of |-> Controls(r, model)]

\* Kept are answers from passages alone; what the general model says is not.
KeptAnswers(r, w, model, answer) ==
    IF UsesCache(r, w) /\ answer.status = "answered" /\ ~answer.cached
    THEN {Payload(r, w, model, answer)} ELSE {}

\* ask, of one request after another.
Ask(r, w, kept) ==
    IF ~AskAccepted(r) THEN [reply |-> Refusal(422), kept |-> kept]
    ELSE LET allowed == AllowedModel(r, w) IN
         IF allowed.status # 200 THEN [reply |-> allowed, kept |-> kept]
         ELSE LET answer == AnswerQuery(r, w, kept, allowed.model)
              IN  [reply |-> [status |-> 200, answer |-> answer],
                   kept |-> kept \cup KeptAnswers(r, w, allowed.model, answer)]

AskTwice(g) ==
    LET first == Ask(g.requests[1], g.worlds[1], {})
    IN  <<first.reply, Ask(g.requests[2], g.worlds[2], first.kept).reply>>

(***************************************************************************)
(* /query and /answer.  A hit is [id, score, region]; a region is the      *)
(* width that its place on the page has left, 0 if it is too narrow.       *)
(***************************************************************************)
\* RetrievalResult, as query replies it.
QueryReply(hits, searches) ==
    [contexts |-> [n \in DOMAIN hits |-> hits[n].id], chunkIds |-> [n \in DOMAIN hits |-> hits[n].id],
     scores |-> [n \in DOMAIN hits |-> hits[n].score],
     citations |-> [n \in DOMAIN hits |-> [id |-> hits[n].id, region |-> hits[n].region]],
     searches |-> searches]

\* AnswerRequest and the Citation and BoundingRegion in it.
AnswerAccepted(s) ==
    /\ Len(s.contexts) <= MostAsked /\ Len(s.chunkIds) <= MostAsked /\ Len(s.scores) <= MostAsked
    /\ Len(s.citations) <= MostAsked /\ s.searches <= MostSearches
    /\ \A n \in DOMAIN s.citations : s.citations[n].region > 0

\* The last citation with an id is the one that counts.
CitationOf(s, id) ==
    LET at == {n \in DOMAIN s.citations : s.citations[n].id = id}
    IN  IF at = {} THEN Unset ELSE s.citations[CHOOSE n \in at : \A k \in at : k <= n]

\* Of a passage whose id is not supplied there is no citation.
SuppliedCitations(s, used) ==
    SelectSeq([n \in DOMAIN used |-> IF used[n] <= Len(s.chunkIds) THEN CitationOf(s, s.chunkIds[used[n]]) ELSE Unset],
              LAMBDA c : c # Unset)

\* Supplied passages are nowhere checked, so an answer from them is never grounded.
AnswerReply(s, packed, used) ==
    IF ~AnswerAccepted(s) THEN Refusal(422)
    ELSE [status |-> 200, origin |-> "supplied", grounded |-> FALSE,
          answered |-> used # <<>>,
          contexts |-> [n \in DOMAIN packed |-> s.contexts[packed[n]]],
          chunkIds |-> LET named == SelectSeq(packed, LAMBDA n : n <= Len(s.chunkIds))
                       IN  [n \in DOMAIN named |-> s.chunkIds[named[n]]],
          citations |-> SuppliedCitations(s, used)]

\* Passages of a query, supplied as they are, or as a caller changes them.
Supplied(g) ==
    LET s == QueryReply(g.hits, g.searches)
    IN  CASE g.edit = "none" -> s
          [] g.edit = "unnamed" -> [s EXCEPT !.chunkIds = SubSeq(@, 1, 1)]
          [] g.edit = "doubled" -> [s EXCEPT !.citations = @ \o @]
          [] g.edit = "uncited" -> [s EXCEPT !.citations = <<>>]

AnswerFrom(g) == AnswerReply(Supplied(g), g.packed, g.used)

(***************************************************************************)
(* Properties of results                                                   *)
(***************************************************************************)
\* A change whose first notice is one that the trace does not tell of.
UnseenChange(run) == Noticed(run) # <<>> /\ Head(Noticed(run)) \in {"review", "used"}

\* The passages gave no answer: there were none, or the model had none of them.
WithoutEvidence(run) == run.packed = 0 \/ ~Accepts(run)

\* An answer is of what was asked, with the controls it was asked with, whoever asked
\* before.  It is grounded, and cites, exactly if it is from documents; general
\* knowledge never answers for documents that were named, nor where a change was seen
\* that the trace tells of, nor, unless a change was unseen, where an answer of the
\* documents' own was accepted; GeneralIsLastResort (Passages) is without that "unless".
AskTruthful(g, replies) ==
    \A n \in 1..2 : LET r == g.requests[n]
                        w == g.worlds[n] IN
        /\ replies[n].status = 200 =>
             LET answer == replies[n].answer IN
             /\ answer.of = Controls(r, AllowedModel(r, w).model)
             /\ answer.grounded <=> answer.cites
             /\ answer.grounded <=> answer.status = "answered" /\ answer.origin = "retrieved"
             /\ answer.status = "general_answer" =>
                  /\ r.general /\ r.docs = Unset
                  /\ w.run.packed = 0 \/ Noticed(w.run) = <<>> \/ UnseenChange(w.run)
                  /\ WithoutEvidence(w.run) \/ UnseenChange(w.run)
             /\ answer.cached =>
                  /\ w.near /\ w.valid /\ g.worlds[1].epoch = w.epoch /\ g.worlds[1].profile = w.profile
                  /\ r.cache # FALSE
        /\ replies[n].status # 200 => ~AskAccepted(r) \/ r.model \notin {Unset, ""} \cup w.allowed \/ w.chat = "claude"

WithinRanges(g) == g.searches <= MostSearches /\ \A n \in DOMAIN g.hits : g.hits[n].region > 0

\* What /answer replies is of the passages supplied and never grounded; ids stand beside
\* the texts they are of, and a citation is of a passage that was used.  What a query
\* replied is taken exactly if its searches and regions are within those of the request;
\* RepliesPassThrough (Passages) is about any reply of a query.
SuppliedTruthful(g, reply) ==
    /\ g.edit = "none" => (reply.status = 200 <=> WithinRanges(g))
    /\ reply.status = 200 =>
         LET s == Supplied(g) IN
         /\ ~reply.grounded
         /\ \A n \in DOMAIN reply.chunkIds :
               \E k \in DOMAIN s.contexts : s.contexts[k] = reply.contexts[n] /\ s.chunkIds[k] = reply.chunkIds[n]
         /\ \A n \in DOMAIN reply.citations :
               \E k \in DOMAIN g.used : s.contexts[g.used[k]] = reply.citations[n].id
         /\ g.edit # "uncited" /\ g.edit # "unnamed" => Len(reply.citations) = Len(g.used)
================================================================================
