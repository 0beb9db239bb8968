------------------------------- MODULE Grounding -------------------------------
(***************************************************************************)
(* From evidence to a cited answer:                                        *)
(*   retrieval/rag/grounding.py    what the model is shown, what of its    *)
(*                                 reply is accepted                       *)
(*   retrieval/rag/query.py        quotes and regions of the citations     *)
(*   retrieval/rag/provenance.py   the regions of a passage                *)
(*                                                                         *)
(* Texts and quotes are sequences of words.  A passage of the evidence is  *)
(* [doc, gen, section, ordinal, text, short, size, spans]; it is cited by  *)
(* its position.  spans: the source regions, [page, box, text] each, of a  *)
(* page of PageSide squares.  A reply is [shape, cites, sources, quotes];  *)
(* cites are the [ID] of its text in order, quotes are items [source,      *)
(* occurrence, words].                                                     *)
(***************************************************************************)
EXTENDS Integers, Sequences, FiniteSets, SequencesExt

NoSection == 0
NoOrdinal == 0
Unbound == 0        \* an item that does not say which occurrence it is for
PageSide == 4
Insufficient == [used |-> <<>>, cites |-> <<>>]

(***************************************************************************)
(* pack_evidence                                                           *)
(***************************************************************************)
\* Whether passage i goes on where the one before it in the list ended.
Continues(evidence, i) ==
    /\ i > 1
    /\ evidence[i].ordinal # NoOrdinal /\ evidence[i - 1].ordinal # NoOrdinal
    /\ evidence[i].ordinal = evidence[i - 1].ordinal + 1
    /\ evidence[i].doc = evidence[i - 1].doc /\ evidence[i].gen = evidence[i - 1].gen
    /\ evidence[i].section = evidence[i - 1].section

\* The passage whose words head passage i, itself if it is short; 0 for none.  A
\* section path is the heading where there is one.
SourceHeading(evidence) ==
    LET carried[i \in 0..Len(evidence)] ==
            IF i = 0 \/ evidence[i].section # NoSection THEN 0
            ELSE IF evidence[i].ordinal # NoOrdinal /\ evidence[i].text # <<>> /\ evidence[i].short THEN i
            ELSE IF Continues(evidence, i) THEN carried[i - 1] ELSE 0
    IN  [i \in 1..Len(evidence) |-> carried[i]]

\* A passage that does not fit is passed over, and so is one that is there already.
PackEvidence(evidence, budget) ==
    LET source(i) == <<evidence[i].doc, evidence[i].gen, evidence[i].section, evidence[i].ordinal>>
        same(i, j) == /\ evidence[i].text = evidence[j].text /\ source(i) = source(j)
                      /\ SourceHeading(evidence)[i] = SourceHeading(evidence)[j]
        step(acc, i) ==
            IF \/ evidence[i].text = <<>>
               \/ \E j \in ToSet(acc.packed) : same(i, j)
               \/ evidence[i].size > acc.left
            THEN acc
            ELSE [packed |-> Append(acc.packed, i), left |-> acc.left - evidence[i].size]
    IN  FoldLeft(step, [packed |-> <<>>, left |-> budget], [i \in 1..Len(evidence) |-> i]).packed

(***************************************************************************)
(* validate_grounded_answer: the [ID]s of the text must be the sources it  *)
(* names, all of them shown; a text without any gets them at its end.      *)
(***************************************************************************)
Unique(s) == FoldLeft(LAMBDA out, x : IF Contains(out, x) THEN out ELSE Append(out, x), <<>>, s)

ValidateGroundedAnswer(reply, packed) ==
    IF \/ reply.shape # "answered"
       \/ reply.sources = <<>>
       \/ ~(ToSet(reply.sources) \subseteq ToSet(packed))
       \/ reply.cites # <<>> /\ ToSet(reply.cites) # ToSet(reply.sources)
    THEN Insufficient
    ELSE [used |-> Unique(reply.sources),
          cites |-> IF reply.cites # <<>> THEN reply.cites ELSE Unique(reply.sources)]

(***************************************************************************)
(* source_quote: the one place in a text where the words stand, <<>> for   *)
(* none or several.                                                        *)
(***************************************************************************)
Places(text, words) ==
    {i \in 1..(Len(text) - Len(words) + 1) : SubSeq(text, i, i + Len(words) - 1) = words}

\* Defect: the first of several places is taken.
SourceQuoteFirst(text, words) ==
    IF words = <<>> \/ Places(text, words) = {} THEN <<>> ELSE words

SourceQuote(text, words) ==
    IF words # <<>> /\ Cardinality(Places(text, words)) = 1 THEN words ELSE <<>>

(***************************************************************************)
(* citation_occurrence_quotes: (source, occurrence) -> up to four quotes.  *)
(* An item that names no occurrence counts where there is but one.         *)
(***************************************************************************)
Times(cites, source) == Len(SelectSeq(cites, LAMBDA c : c = source))

CitationOccurrenceQuotes(reply, cites, evidence, packed) ==
    LET occurrence(item) == IF item.occurrence = Unbound /\ Times(cites, item.source) = 1 THEN 1
                            ELSE item.occurrence
        matched(item) ==
            Unique(SelectSeq([n \in 1..Min({4, Len(item.words)}) |->
                                SourceQuote(evidence[item.source].text, item.words[n])],
                             LAMBDA q : q # <<>>))
        step(acc, item) ==
            IF \/ ~Contains(packed, item.source)
               \/ occurrence(item) \notin 1..Times(cites, item.source)
               \/ matched(item) = <<>>
            THEN acc
            ELSE [acc EXCEPT ![<<item.source, occurrence(item)>>] = matched(item)]
        none == [key \in {<<s, o>> : s \in ToSet(packed), o \in 1..Len(cites)} |-> <<>>]
    IN  IF reply.shape = "broken" THEN none ELSE FoldLeft(step, none, reply.quotes)

(***************************************************************************)
(* citation_provenance: regions on the page, none twice.                   *)
(***************************************************************************)
Cropped(box) ==
    <<Max({0, box[1]}), Max({0, box[2]}), Min({PageSide, box[3]}), Min({PageSide, box[4]})>>

CitationRegions(passage) ==
    Unique(SelectSeq([i \in 1..Len(passage.spans) |-> [passage.spans[i] EXCEPT !.box = Cropped(@)]],
                     LAMBDA r : r.box[1] < r.box[3] /\ r.box[2] < r.box[4]))

(***************************************************************************)
(* _quote_provenance and _quotes_provenance: the regions in which the      *)
(* words of the quote stand, if they stand in one place of all the text of *)
(* the regions in order.                                                   *)
(***************************************************************************)
QuoteRegions(regions, words) ==
    LET text == FlattenSeq([i \in 1..Len(regions) |-> regions[i].text])
        owners == FlattenSeq([i \in 1..Len(regions) |-> [n \in 1..Len(regions[i].text) |-> i]])
        at == Places(text, words)
    IN  IF words = <<>> \/ Cardinality(at) # 1 THEN {}
        ELSE {owners[n] : n \in Min(at)..(Min(at) + Len(words) - 1)}

QuotesProvenance(regions, quotes) ==
    [regions |-> UNION {QuoteRegions(regions, quotes[n]) : n \in 1..Len(quotes)},
     status |-> IF quotes = <<>> THEN "missing"
                ELSE IF \A n \in 1..Len(quotes) : QuoteRegions(regions, quotes[n]) # {} THEN "quote"
                ELSE IF \E n \in 1..Len(quotes) : QuoteRegions(regions, quotes[n]) # {} THEN "region"
                ELSE "unmapped"]

(***************************************************************************)
(* generate_answer_from_chunks, from the first reply on: a malformed one   *)
(* is asked for again once, a complex question is reviewed, and quotes of  *)
(* cited pictures and pages that are missing are asked for once.           *)
(***************************************************************************)
\* The reply that counts, of the three a question may lead to.
FinalReply(given, packed) ==
    LET first == given.replies[1]
        kept == IF /\ ValidateGroundedAnswer(first, packed) = Insufficient
                   /\ first.shape # "abstained"
                THEN given.replies[2] ELSE first
    IN  IF given.complex THEN given.replies[3] ELSE kept

\* The quotes found, but for regions the repaired ones where there are none.
Quotes(found, repaired, visual) == IF found = <<>> /\ visual THEN repaired ELSE found

Occurrence(regions, quotes) == [quotes |-> quotes, provenance |-> QuotesProvenance(regions, quotes)]

Citation(s, regions, times, found, repaired) ==
    [source |-> s,
     occurrences |-> [o \in 1..times |->
        Occurrence(regions, Quotes(found[s, o], repaired[s, o], regions # <<>>))]]

Cited(given, answer, found, repaired) ==
    [answer |-> answer,
     citations |-> [n \in 1..Len(answer.used) |->
        Citation(answer.used[n], CitationRegions(given.evidence[answer.used[n]]),
                 Times(answer.cites, answer.used[n]), found, repaired)]]

Quoted(given, packed, reply, answer) ==
    Cited(given, answer, CitationOccurrenceQuotes(reply, answer.cites, given.evidence, packed),
          CitationOccurrenceQuotes(given.repair, answer.cites, given.evidence, packed))

Answered(given, packed, reply) == Quoted(given, packed, reply, ValidateGroundedAnswer(reply, packed))

Grounded(given, packed) ==
    IF packed = <<>> THEN [answer |-> Insufficient, citations |-> <<>>]
    ELSE Answered(given, packed, FinalReply(given, packed))

GroundAnswer(given) == Grounded(given, PackEvidence(given.evidence, given.budget))

(***************************************************************************)
(* Properties of results                                                   *)
(***************************************************************************)
\* What the model is shown fits, and a heading above a passage is of the same
\* source, with nothing left out in between.
PackedTruthful(evidence, budget) ==
    LET packed == PackEvidence(evidence, budget)
        heading == SourceHeading(evidence)
    IN  /\ FoldLeft(LAMBDA n, i : n + evidence[i].size, 0, packed) <= budget
        /\ \A i \in ToSet(packed) : heading[i] # 0 =>
              /\ evidence[heading[i]].doc = evidence[i].doc
              /\ evidence[heading[i]].gen = evidence[i].gen
              /\ evidence[i].ordinal - evidence[heading[i]].ordinal = i - heading[i]

\* An answer cites passages that were shown and only those; every quote beside a
\* citation stands in that passage, in one place; every region is of that passage
\* and holds words of a quote.
AnswerTruthful(given, made) ==
    LET packed == PackEvidence(given.evidence, given.budget)
        holds(words, region) == ToSet(words) \cap ToSet(region.text) # {}
    IN  /\ ToSet(made.answer.cites) = {made.citations[n].source : n \in 1..Len(made.citations)}
        /\ \A n \in 1..Len(made.citations) :
             LET c == made.citations[n]
                 passage == given.evidence[c.source]
             IN  /\ Contains(packed, c.source)
                 /\ \A o \in 1..Len(c.occurrences) :
                      LET it == c.occurrences[o]
                      IN  /\ Len(it.quotes) <= 4
                          /\ \A q \in ToSet(it.quotes) : Cardinality(Places(passage.text, q)) = 1
                          /\ \A r \in it.provenance.regions :
                                \E q \in ToSet(it.quotes) : holds(q, CitationRegions(passage)[r])
                          /\ it.provenance.status = "quote" => it.provenance.regions # {}
================================================================================
