--------------------------------- MODULE Models ---------------------------------
(***************************************************************************)
(* What is asked of models, and what is made of their replies:             *)
(*   gateway/client.py            embed, chat, vision_bounded              *)
(*   adapters/embedders           batches, limits, loading                 *)
(*   ingest/pipeline              vectors of passages, metadata            *)
(*   retrieval/adapters/rerankers windows of a passage, one score for it   *)
(*   retrieval/rag/decompose.py   the parts of a question                  *)
(* A model is external: its replies are inputs, also those that make no    *)
(* sense.  Numbers of a vector are left out, but for what is wrong with    *)
(* them; a text is how many tokens it has, and its place.                  *)
(***************************************************************************)
EXTENDS Integers, Sequences, FiniteSets, SequencesExt, FiniteSetsExt, TLC

CONSTANTS
    Error,         \* an exception
    MaxSearches    \* decompose.MAX_SUB_QUESTIONS

Smallest(a, b) == IF a < b THEN a ELSE b
Largest(a, b) == IF a > b THEN a ELSE b

(***************************************************************************)
(* Replies of the gateway                                                  *)
(***************************************************************************)
\* URL and key of the next call: both of the override, or both of the settings.
ResolveConfig(override, settings) ==
    IF override.url = "" /\ override.key = "" THEN settings
    ELSE IF override.url = "" \/ override.key = "" THEN Error ELSE override

\* A vector: [of, dim, sound]; of: the text it is of; sound: finite float32
\* numbers, not all of them zero.
ValidateVectors(vectors, count, dim) ==
    IF /\ vectors # Error
       /\ Len(vectors) = count
       /\ \A i \in 1..Len(vectors) : vectors[i].dim = dim /\ vectors[i].sound
    THEN vectors ELSE Error

\* client.embed: the items of a reply, [index, vector], are put in the order of the
\* texts; each index must be there, once.
ClientEmbed(texts, items, dim) ==
    IF texts = <<>> THEN <<>>
    ELSE IF Len(items) # Len(texts) \/ {items[i].index : i \in 1..Len(items)} # 0..(Len(texts) - 1) THEN Error
    ELSE ValidateVectors([k \in 1..Len(texts) |-> items[CHOOSE i \in 1..Len(items) : items[i].index = k - 1].vector],
                         Len(texts), dim)

\* chat: the text of a completion.
ChatReply(reply) ==
    IF reply.schema /\ ~reply.refusal /\ reply.finish \in {"none", "stop"} /\ reply.text \notin {"none", ""}
    THEN reply.text ELSE Error

\* vision_bounded: text and what it is charged with, the tokens it says it took, or
\* all that were asked for when it does not say.
VisionReply(reply, asked) ==
    LET charged == IF reply.used >= 0 THEN reply.used ELSE asked
    IN  IF asked <= 0 \/ ~reply.schema \/ reply.refusal \/ reply.finish # "stop" \/ reply.text = "none"
          \/ charged > asked
        THEN Error ELSE [text |-> reply.text, charged |-> charged]

(***************************************************************************)
(* Embedders.  A text: [id, size, blank].                                  *)
(***************************************************************************)
InputsValid(texts, max) == \A i \in 1..Len(texts) : ~texts[i].blank /\ texts[i].size <= max

Taken(texts) == FoldLeft(LAMBDA n, t : n + t.size, 0, texts)

\* GatewayEmbedder.embed: requests of `batch` texts and `most` tokens at most.
Requests(texts, batch, most) ==
    LET take(st, t) ==
            IF st.batch # <<>> /\ (Len(st.batch) >= batch \/ Taken(st.batch) + t.size > most)
            THEN [done |-> Append(st.done, st.batch), batch |-> <<t>>]
            ELSE [st EXCEPT !.batch = Append(@, t)]
        ended(st) == IF st.batch = <<>> THEN st.done ELSE Append(st.done, st.batch)
    IN  ended(FoldLeft(take, [done |-> <<>>, batch |-> <<>>], texts))

\* What requests gave, one after the other, or the error of one of them.
Concatenated(parts) == IF \E b \in 1..Len(parts) : parts[b] = Error THEN Error ELSE FlattenSeq(parts)

\* A reply names the texts by index, in any order, some twice or not at all.
GatewayItems(g, b, batch) ==
    [k \in 1..Len(g.orders[b]) |->
       LET i == g.orders[b][k]
       IN  [index |-> i,
            vector |-> [of |-> IF i < Len(batch) THEN batch[i + 1].id ELSE 0, dim |-> g.dim, sound |-> g.sound]]]

RequestsEmbed(g, requests) ==
    Concatenated([b \in 1..Len(requests) |->
        ValidateVectors(ClientEmbed(requests[b], GatewayItems(g, b, requests[b]), g.asked), Len(requests[b]), g.asked)])

GatewayEmbed(g, texts) ==
    IF InputsValid(texts, g.max) THEN RequestsEmbed(g, Requests(texts, g.batch, g.most)) ELSE Error

\* The local embedders: slices of `batch` texts; a query gets its instruction first,
\* and the limit is for both.
Slices(s, n) ==
    [b \in 1..((Len(s) + n - 1) \div n) |-> SubSeq(s, (b - 1) * n + 1, Smallest(b * n, Len(s)))]

Instructed(texts, instruction) ==
    [i \in 1..Len(texts) |-> [texts[i] EXCEPT !.size = @ + instruction, !.blank = @ /\ instruction = 0]]

RunSlices(g, slices) ==
    FlattenSeq([b \in 1..Len(slices) |->
        [k \in 1..Len(slices[b]) |-> [of |-> slices[b][k].id, dim |-> g.dim, sound |-> g.sound]]])

LocalEmbed(g, texts) ==
    IF InputsValid(texts, g.max) THEN RunSlices(g, Slices(texts, g.batch)) ELSE Error

EmbedDocuments(g, texts) ==
    IF ~InputsValid(texts, g.max) THEN Error
    ELSE ValidateVectors(IF g.local THEN LocalEmbed(g, texts) ELSE GatewayEmbed(g, texts), Len(texts), g.asked)

EmbedQuery(g, text) ==
    ValidateVectors(IF g.local THEN LocalEmbed(g, Instructed(<<text>>, g.instruction)) ELSE EmbedDocuments(g, <<text>>),
                    1, g.asked)

\* The stages EMBED, BINARIZE and UPSERT: a passage and the vector it is stored with.
Zipped(texts, vectors) ==
    IF vectors = Error \/ texts = <<>> THEN Error
    ELSE [i \in 1..Len(texts) |-> [chunk |-> texts[i], vector |-> vectors[i]]]

Points(g) == Zipped(g.texts, IF g.texts = <<>> THEN <<>> ELSE EmbedDocuments(g, g.texts))

\* Every text is asked for as well, as a query.
Queries(g) == [i \in 1..Len(g.texts) |-> EmbedQuery(g, g.texts[i])]

(***************************************************************************)
(* Loading: events [object, key, request, found, ok], one after the other, *)
(* for loads hold a lock.  A request may not load, nor ask the hub which   *)
(* revision an object is for (its key), which it does before it looks for  *)
(* what others have loaded.                                                *)
(***************************************************************************)
EnsureLoaded(st, e) ==
    LET known == e.object \in st.known \/ (~e.request /\ e.found)
        loads == known /\ e.key \notin st.cache /\ ~e.request
        ready == e.object \in st.ready \/ (known /\ (e.key \in st.cache \/ (loads /\ e.ok)))
    IN  [cache |-> IF loads /\ e.ok /\ e.object \notin st.ready THEN st.cache \cup {e.key} ELSE st.cache,
         known |-> IF known THEN st.known \cup {e.object} ELSE st.known,
         ready |-> IF ready THEN st.ready \cup {e.object} ELSE st.ready,
         loads |-> IF loads /\ e.object \notin st.ready THEN Append(st.loads, e) ELSE st.loads,
         served |-> Append(st.served, ready)]

Warmed(events) == FoldLeft(EnsureLoaded, [cache |-> {}, known |-> {}, ready |-> {}, loads |-> <<>>, served |-> <<>>], events)

\* _counting_tokenizer: calls [at, ok]; a tokenizer that could not be had is not asked
\* for again before the cooldown is over.
CountingTokenizer(cooldown, st, call) ==
    IF st.have \/ call.at < st.until THEN [st EXCEPT !.answers = Append(@, st.have)]
    ELSE [have |-> call.ok, until |-> call.at + cooldown, tried |-> Append(st.tried, call),
          answers |-> Append(st.answers, call.ok)]

Counted(calls, cooldown) ==
    FoldLeft(LAMBDA st, call : CountingTokenizer(cooldown, st, call),
             [have |-> FALSE, until |-> 0, tried |-> <<>>, answers |-> <<>>], calls)

(***************************************************************************)
(* The cross-encoder.  A document: [heading, chars, parted, body, needle]: *)
(* tokens of its first paragraph, which has so many characters, and of the *)
(* rest, and the token a query is about.                                   *)
(***************************************************************************)
\* Ranges of at most `capacity` of n tokens, every `step` tokens, to the end.
Cuts(n, capacity, step) ==
    [k \in 1..Min({x \in 1..(n + 1) : (x - 1) * step + capacity >= n}) |->
       <<(k - 1) * step + 1, Smallest((k - 1) * step + capacity, n)>>]

\* The heading is repeated on every window.  A pair that is too long all the same is
\* cut by the tokenizer, which keeps the query.
HeadingTokens(g, doc) == IF doc.parted /\ doc.chars <= g.headingChars THEN doc.heading ELSE 0
QueryTokens(g) == Smallest(g.query, Largest(1, g.max \div 4))
Capacity(g, prefix) == Largest(1, Smallest(g.window, g.max - (QueryTokens(g) + prefix + 3) - 4))
Stride(g, capacity) == Largest(1, capacity - Smallest(g.stride, capacity \div 4))

Window(g, owner, tokens, range) ==
    [owner |-> owner, tokens |-> SubSeq(tokens, range[1], range[2]), size |-> QueryTokens(g) + 3 + range[2] - range[1] + 1]

Encoded(g, owner, tokens, cuts) == [c \in 1..Len(cuts) |-> Window(g, owner, tokens, cuts[c])]

EncodedPair(g, owner, tokens, room) ==
    Encoded(g, owner, tokens, Cuts(Len(tokens), room, room - Smallest(g.stride, g.max \div 4)))

Headed(prefix, range) ==
    [i \in 1..prefix |-> i] \o [i \in 1..(range[2] - range[1] + 1) |-> prefix + range[1] + i - 1]

RangeWindows(g, owner, prefix, ranges) ==
    FlattenSeq([k \in 1..Len(ranges) |->
        EncodedPair(g, owner, Headed(prefix, ranges[k]), g.max - QueryTokens(g) - 3)])

PrefixWindows(g, owner, doc, prefix, capacity) ==
    RangeWindows(g, owner, prefix, Cuts(doc.heading + doc.body - prefix, capacity, Stride(g, capacity)))

BodyWindows(g, owner, doc, prefix) == PrefixWindows(g, owner, doc, prefix, Capacity(g, prefix))

DocumentWindows(g, owner) ==
    BodyWindows(g, owner, g.documents[owner], HeadingTokens(g, g.documents[owner]))

\* Documents are scored in slices, their windows in slices of as many; a document has
\* the best score of its windows.
Relevance(doc, w) == IF doc.needle \in ToSet(w.tokens) THEN 1 ELSE 0

ScoreSlice(g, docs) ==
    LET scored(out, w) == [out EXCEPT ![w.owner] = Largest(@, Relevance(g.documents[w.owner], w))]
    IN  FoldLeft(LAMBDA out, ws : FoldLeft(scored, out, ws), [d \in ToSet(docs) |-> -1],
                 Slices(FlattenSeq([d \in 1..Len(docs) |-> DocumentWindows(g, docs[d])]), g.batch))

CrossScore(g) ==
    LET slices == Slices([d \in 1..Len(g.documents) |-> d], g.batch)
        score(s) == [k \in 1..Len(slices[s]) |-> ScoreSlice(g, slices[s])[slices[s][k]]]
    IN  IF g.finite THEN FlattenSeq([s \in 1..Len(slices) |-> score(s)]) ELSE Error

\* LLMReranker.score: the numbers of a reply, or the same score for all.  A value that
\* is no number is NotNumber; a reply without an array of JSON is <<NotNumber>>.
NotNumber == -1
ListScore(count, values) ==
    IF Len(values) # count \/ NotNumber \in ToSet(values) THEN [d \in 1..count |-> 0] ELSE values

(***************************************************************************)
(* Metadata and the parts of a question                                    *)
(***************************************************************************)
\* _truncate_to_budget: a text is the tokens of each of its characters.
Shortened(ceiling, size, budget) ==
    IF size <= budget THEN ceiling ELSE SubSeq(ceiling, 1, Largest(1, (Len(ceiling) * budget) \div size))

Measure(text, budget) == Shortened(text, FoldLeft(+, 0, text), budget)

TruncateToBudget(text, budget, headroom) ==
    Measure(SubSeq(text, 1, Smallest(budget * headroom, Len(text))), budget)

\* A field of the reply is "text", "blank", "odd" or missing ("none"); lists are of these.
BlankMetadata == [author |-> "none", date |-> "none", topics |-> <<>>, entities |-> <<>>]

ExtractMetadata(text, reply) ==
    LET scalar(f) == IF f = "text" THEN f ELSE "none"
        scalars(l) == SelectSeq(l, LAMBDA f : f \in {"text", "blank"})
    IN  IF text = <<>> \/ ~reply.json \/ ~reply.lists THEN BlankMetadata
        ELSE [author |-> scalar(reply.author), date |-> scalar(reply.date),
              topics |-> scalars(reply.topics), entities |-> scalars(reply.entities)]

\* listed_requests: the items of an explicit list, unless more is asked after it.
ListedRequests(q) ==
    LET items == SelectSeq(q.items, LAMBDA i : i # "")
    IN  IF ~q.list \/ q.then \in {"more", "also"} \/ Len(items) \notin 2..MaxSearches THEN <<>> ELSE items

\* _parse_response: the plan of the model; "" and what is too long or no text is left out.
FirstOnes(said) == FoldLeft(LAMBDA out, s : IF Contains(out, s) THEN out ELSE Append(out, s), <<>>, said)

AtLeastTwo(subs) == IF Len(subs) < 2 THEN <<>> ELSE SubSeq(subs, 1, Smallest(MaxSearches, Len(subs)))

PlannedSearches(reply) ==
    IF reply.json /\ reply.decompose
    THEN AtLeastTwo(FirstOnes(SelectSeq(reply.parts, LAMBDA s : s \notin {"", "long", "odd"}))) ELSE <<>>

\* A follow-up ("Also explain ...") is a search of its own.
WithFollowUp(q, subs) ==
    IF subs = <<>> \/ q.then # "also" THEN subs
    ELSE SubSeq(<<"also">> \o subs, 1, Smallest(MaxSearches + 1, Len(subs) + 1))

DecomposeQuestion(q, reply) ==
    IF ListedRequests(q) # <<>> THEN ListedRequests(q) ELSE WithFollowUp(q, PlannedSearches(reply))

(***************************************************************************)
(* Properties of results                                                   *)
(***************************************************************************)
\* Replies name every text of their request once.
AllOnce(orders, requests) ==
    \A b \in 1..Len(requests) : IsInjective(orders[b]) /\ Range(orders[b]) = 0..(Len(requests[b]) - 1)

\* A passage is stored with its own vector, whatever order the vectors of a request
\* come in and however the passages are cut into requests; a reply that leaves one out
\* or names one twice stores nothing.
PointsTruthful(g, points) ==
    /\ points # Error =>
         /\ [i \in 1..Len(points) |-> points[i].chunk] = g.texts
         /\ \A i \in 1..Len(points) :
              /\ points[i].vector.of = points[i].chunk.id /\ points[i].vector.sound
              /\ points[i].vector.dim = g.asked
              /\ points[i].chunk.size <= g.max
         /\ g.local \/ AllOnce(g.orders, Requests(g.texts, g.batch, g.most))
    /\ (/\ g.texts # <<>> /\ g.sound /\ g.dim = g.asked
        /\ \A i \in 1..Len(g.texts) : ~g.texts[i].blank /\ g.texts[i].size <= g.max
        /\ g.local \/ AllOnce(g.orders, Requests(g.texts, g.batch, g.most)))
         => points # Error

\* A query has one vector, its own, and none when it is over the limit with its
\* instruction; what may be stored may be asked for, if there is no instruction.
QueriesTruthful(g, queries) ==
    \A i \in 1..Len(queries) :
        /\ queries[i] # Error =>
             /\ Len(queries[i]) = 1 /\ queries[i][1].dim = g.asked
             /\ g.texts[i].size + (IF g.local THEN g.instruction ELSE 0) <= g.max
        /\ g.local /\ queries[i] # Error => queries[i][1].of = g.texts[i].id
        /\ g.local /\ g.sound /\ g.dim = g.asked /\ g.texts[i].size + g.instruction <= g.max /\ ~g.texts[i].blank =>
             queries[i] # Error

\* Requests leave no text out, change no order and are within both limits; a request
\* ends only where the next text did not fit.
RequestsTruthful(texts, batch, most) ==
    LET requests == Requests(texts, batch, most)
    IN  /\ FlattenSeq(requests) = texts
        /\ \A b \in 1..Len(requests) :
             /\ Len(requests[b]) \in 1..batch
             /\ Taken(requests[b]) <= most \/ Len(requests[b]) = 1
             /\ b < Len(requests) => Len(requests[b]) = batch \/ Taken(requests[b]) + requests[b + 1][1].size > most

\* What a document says of itself is asked of its beginning, of all of it that fits the
\* budget, and a reply that makes no sense leaves the fields empty and fails nothing.
MetadataTruthful(g, made) ==
    LET sum == FoldLeft(+, 0, g.text)
    IN  /\ IsPrefix(made.sample, g.text) /\ (g.text # <<>> => made.sample # <<>>)
        /\ Len(made.sample) <= g.budget * g.headroom \/ Len(made.sample) = 1
        /\ sum <= g.budget /\ Len(g.text) <= g.budget * g.headroom => made.sample = g.text
        /\ {made.it.author, made.it.date} \subseteq {"none", "text"}
        /\ "odd" \notin ToSet(made.it.topics) \cup ToSet(made.it.entities)
        /\ made.it # BlankMetadata => g.reply.json /\ g.text # <<>>

\* Vision is charged with what it says it took, never less, and never more than was
\* asked for; what chat accepts is whole; URL and key of a call belong together; and
\* scores of a list are all of the reply's, or none.
RepliesTruthful(g, made) ==
    /\ made.vision # Error =>
         /\ made.vision.charged \in g.reply.used..g.asked
         /\ g.reply.used < 0 => made.vision.charged = g.asked
         /\ g.reply.text # "" => made.chat = made.vision.text
    /\ made.chat # Error => g.reply.finish # "length" /\ ~g.reply.refusal
    /\ made.config # Error => made.config \in {g.override, g.settings}
    /\ made.list \in {g.values, [d \in 1..g.count |-> 0]} /\ Len(made.list) = g.count

\* No request loads a model or asks which revision it is of; what is loaded is loaded
\* once, for all objects of its key, and serves from then on.
WarmTruthful(events, st) ==
    /\ \A i \in 1..Len(st.loads) : ~st.loads[i].request
    /\ \A i, j \in 1..Len(st.loads) : i # j /\ st.loads[i].key = st.loads[j].key => ~(st.loads[i].ok /\ st.loads[j].ok)
    /\ \A i, j \in 1..Len(events) :
         /\ i < j /\ st.served[i] /\ events[j].object = events[i].object => st.served[j]
         /\ st.served[j] => \E k \in 1..Len(st.loads) : st.loads[k].key = events[j].key /\ st.loads[k].ok
         /\ ~events[j].request /\ events[j].found /\ events[j].ok => st.served[j]

\* The hub is asked at most once in a cooldown, never again once it has answered, and
\* again as soon as the cooldown is over.
CountedTruthful(calls, cooldown, st) ==
    /\ \A i, j \in 1..Len(st.tried) : i < j => ~st.tried[i].ok /\ st.tried[j].at >= st.tried[i].at + cooldown
    /\ \A i, j \in 1..Len(calls) : i < j /\ st.answers[i] => st.answers[j]
    /\ \A j \in 1..Len(calls) :
         calls[j].ok /\ (\A i \in 1..Len(st.tried) : st.tried[i].at >= calls[j].at \/ st.tried[i].at + cooldown <= calls[j].at)
           => st.answers[j] \/ \E i \in 1..(j - 1) : calls[i].at = calls[j].at

\* Every token of a document is scored with its heading, if there is room for both, in
\* a window the model can read, and a document gets its own best score.
ScoresTruthful(g, scores) ==
    scores # Error =>
        /\ Len(scores) = Len(g.documents)
        /\ \A d \in 1..Len(g.documents) :
             LET doc == g.documents[d]
             IN  /\ scores[d] = IF doc.needle \in 1..(doc.heading + doc.body) THEN 1 ELSE 0
                 /\ \A w \in ToSet(DocumentWindows(g, d)) :
                       /\ w.size <= g.max
                       /\ doc.parted /\ doc.chars <= g.headingChars /\ doc.heading + g.query + 4 <= g.max - doc.heading =>
                            1..doc.heading \subseteq ToSet(w.tokens)

\* A question is searched whole, or in two parts and more; the items of a list are all
\* searched, and a follow-up beside every part that was planned.
SearchesTruthful(q, reply, searches) ==
    /\ Len(searches) \in {0} \cup 2..(MaxSearches + 1)
    /\ ToSet(searches) \cap {"", "long", "odd"} = {}
    /\ ListedRequests(q) # <<>> => ToSet(searches) = {i \in ToSet(q.items) : i # ""}
    /\ ListedRequests(q) = <<>> /\ searches # <<>> =>
         /\ Cardinality(ToSet(searches) \ {"also"}) >= 2
         /\ q.then = "also" => "also" \in ToSet(searches) /\ ToSet(PlannedSearches(reply)) \subseteq ToSet(searches)
================================================================================
