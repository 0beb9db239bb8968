------------------------------- MODULE Chunking -------------------------------
(***************************************************************************)
(* From elements to passages: app/ingest/pipeline/chunker.py, and what a   *)
(* new version changes of the old one: app/ingest/pipeline/delta.py.       *)
(*                                                                         *)
(* A text is a sequence of characters [c, el, k]: c is "x" for a character *)
(* that is a token of its own, "_" for a space, "S" for the space after a  *)
(* sentence, "P" for a paragraph break, "N" for the line break between     *)
(* native lines of a PDF; el and k say which element it came from and      *)
(* where it stood there.  Counting adds the two special tokens of the      *)
(* tokenizer, so counts are not additive.  Ranges are <<first, last>>.     *)
(* A table is [caption, header, rows]: the tokens of its caption, of each  *)
(* header cell, and of each cell of each row.                              *)
(***************************************************************************)
EXTENDS Integers, Sequences, FiniteSets, SequencesExt, Bags, TLC

CONSTANT Failed    \* a ValueError, which is neither a size nor a passage

Smaller(a, b) == IF a < b THEN a ELSE b
Larger(a, b) == IF a > b THEN a ELSE b

Blank(ch) == ch.c # "x"
Tokens(t) == Len(SelectSeq(t, LAMBDA ch : ~Blank(ch)))
count(t) == IF t = <<>> THEN 0 ELSE Tokens(t) + 2
Slice(t, range) == SubSeq(t, range[1], range[2])

(***************************************************************************)
(* _join_text_elements.  An element: [modality, text, run, pdf, headed,    *)
(* path]; elements of one run share page, section and extractor; headed:   *)
(* its first paragraph is a heading; path: the tokens of its section path. *)
(***************************************************************************)
Joinable(a, b) == a.modality = "text" /\ b.modality = "text" /\ a.run = b.run

Separator(el) == [c |-> IF el.pdf THEN "N" ELSE "P", el |-> 0, k |-> 0]

\* The first paragraph of a headed element.
HeadingEnd(el) ==
    LET breaks == {i \in 1..Len(el.text) : el.text[i].c = "P"}
    IN  IF breaks = {} THEN Len(el.text) ELSE Min(breaks) - 1

\* One element's contribution: its text after offset, its span, its heading.
Joined(acc, el) ==
    LET offset == IF acc.text = <<>> THEN 0 ELSE Len(acc.text) + 1
    IN  [el EXCEPT !.text = IF offset = 0 THEN el.text ELSE Append(acc.text, Separator(acc)) \o el.text]
          @@ [spans |-> Append(acc.spans,
                               [el |-> el.text[1].el, start |-> offset, end |-> offset + Len(el.text),
                                element_start |-> 0, element_end |-> Len(el.text)]),
              headings |-> acc.headings
                             \cup (IF el.headed THEN {<<offset + 1, offset + HeadingEnd(el)>>} ELSE {})]

Alone(el) == Joined([text |-> <<>>, spans |-> <<>>, headings |-> {}], el)

JoinTextElements(els) ==
    FoldLeft(LAMBDA out, el :
               IF out # <<>> /\ Joinable(Last(out), el)
               THEN Append(Front(out), Joined(Last(out), el))
               ELSE Append(out, Alone(el)),
             <<>>, els)

(***************************************************************************)
(* _hard_split: pieces of at most budget tokens, cut at a space if one is  *)
(* in the second half.  Every budget but a table's holds a character.      *)
(***************************************************************************)
Longest(lengths) == Max({0} \cup lengths)

AtSpace(t, best) ==
    LET last == Longest({b \in 1..best : t[b].c = "_"})
    IN  IF last - 1 > best \div 2 THEN last ELSE best

BestPrefix(t, budget) == AtSpace(t, Longest({m \in 1..Len(t) : count(SubSeq(t, 1, m)) <= budget}))

\* The lengths of the pieces.
HardSplit(t, budget) ==
    LET pieces[from \in 1..(Len(t) + 1)] ==
            LET rest == SubSeq(t, from, Len(t))
            IN  IF rest = <<>> THEN <<>>
                ELSE IF count(rest) <= budget THEN <<Len(rest)>>
                ELSE <<BestPrefix(rest, budget)>> \o pieces[from + BestPrefix(rest, budget)]
    IN  pieces[1]

\* The ranges of pieces of these lengths, the first one starting at from.
Ranges(lengths, from) ==
    LET start[i \in 1..(Len(lengths) + 1)] ==
            IF i = 1 THEN from ELSE start[i - 1] + lengths[i - 1]
    IN  [i \in 1..Len(lengths) |-> <<start[i], start[i + 1] - 1>>]

(***************************************************************************)
(* _prose_ranges                                                           *)
(***************************************************************************)
\* range cut after every character of these kinds.
EndingAt(from, ends) ==
    [i \in 1..Len(ends) |-> <<IF i = 1 THEN from ELSE ends[i - 1] + 1, ends[i]>>]

CutAfter(t, range, kinds) ==
    EndingAt(range[1], SetToSortSeq({i \in range[1]..range[2] : t[i].c \in kinds} \cup {range[2]}, <))

Strip(t, range) ==
    LET solid == {i \in range[1]..range[2] : ~Blank(t[i])}
    IN  IF solid = {} THEN <<1, 0>>
        ELSE <<Min(solid), Max(solid)>>

Stripped(t, spec, s) ==
    IF s[2] < s[1] THEN <<>>
    ELSE IF count(Slice(t, s)) <= spec.max THEN <<s>>
    ELSE Ranges(HardSplit(Slice(t, s), spec.target), s[1])

Unit(t, spec, range) == Stripped(t, spec, Strip(t, range))

\* Paragraphs, or the sentences of those over the target, or pieces of them.
SentenceUnits(t, spec, sentences) ==
    FlattenSeq([i \in 1..Len(sentences) |-> Unit(t, spec, sentences[i])])

ParagraphUnits(t, spec, paras) ==
    FlattenSeq([i \in 1..Len(paras) |->
        SentenceUnits(t, spec, IF count(Slice(t, paras[i])) <= spec.target THEN <<paras[i]>>
                               ELSE CutAfter(t, paras[i], {"S"}))])

Units(t, spec) == ParagraphUnits(t, spec, CutAfter(t, <<1, Len(t)>>, {"P"}))

Span(t, units, i, j) == SubSeq(t, units[i][1], units[j][2])

\* Units packed up to the target; whole trailing units are carried over, as far as
\* they fit in the overlap and beside the next unit.
Pack(t, spec, units) ==
    LET step(acc, u) ==
            LET tail == {i \in acc.from..(u - 1) :
                            /\ count(Span(t, units, i, u - 1)) <= spec.overlap
                            /\ count(Span(t, units, i, u)) <= spec.max}
            IN  IF count(Span(t, units, acc.from, u)) <= spec.target THEN acc
                ELSE [out |-> Append(acc.out, <<units[acc.from][1], units[u - 1][2]>>),
                      from |-> IF tail = {} THEN u ELSE Min(tail)]
    IN  FoldLeft(step, [out |-> <<>>, from |-> 1], [i \in 1..(Len(units) - 1) |-> i + 1])

Closed(units, acc) == [out |-> acc.out, last |-> <<units[acc.from][1], Last(units)[2]>>]

\* A last passage under the minimum is merged into the one before, if that fits.
MergeLast(t, spec, packed) ==
    LET before == Last(packed.out)
    IN  IF /\ packed.out # <<>>
           /\ count(Slice(t, packed.last)) < spec.min
           /\ count(Slice(t, <<before[1], packed.last[2]>>)) <= spec.max
        THEN Append(Front(packed.out), <<before[1], packed.last[2]>>)
        ELSE Append(packed.out, packed.last)

UnitRanges(t, spec, units) ==
    IF units = <<>> THEN <<>> ELSE MergeLast(t, spec, Closed(units, Pack(t, spec, units)))

ProseRanges(t, spec) == UnitRanges(t, spec, Units(t, spec))

(***************************************************************************)
(* Budgets.  A specification: target, overlap, max, min.                   *)
(***************************************************************************)
\* ChunkSpec.auto, with the ratios 0.82 and 0.11 rounded, and what it must satisfy.
AutoSpec(embed, min) ==
    LET hard == Smaller(476, Larger(3, embed - 36))
        least == Smaller(min, hard - 1)
        target == Larger(least, (82 * hard + 50) \div 100)
    IN  [target |-> target, overlap |-> Larger(1, (11 * target + 50) \div 100),
         max |-> hard, min |-> least]

\* The tokens of the heading that is repeated in front of every passage.
BoundedHeading(path, limit) ==
    LET budget == Larger(3, limit \div 3)
    IN  IF path = 0 THEN 0 ELSE Smaller(path, budget - 2)

ReserveForPrefix(spec, path) ==
    LET prefix == BoundedHeading(path, spec.max)
        reserve == prefix + 4
    IN  IF prefix = 0 THEN spec
        ELSE [target |-> Larger(3, spec.target - reserve), overlap |-> spec.overlap,
              max |-> Larger(3, spec.max - reserve),
              min |-> Smaller(spec.min, Larger(1, spec.max - reserve - 1))]

(***************************************************************************)
(* _clip_source_spans                                                      *)
(***************************************************************************)
\* Defect: the place in the element is not moved along with the start.
ClippedInPlace(span, from, to) ==
    LET start == Larger(span.start, from)
        end == Smaller(span.end, to)
    IN  [span EXCEPT !.start = start, !.end = end, !.element_end = @ + end - span.end]

Clipped(span, from, to) ==
    LET start == Larger(span.start, from)
        end == Smaller(span.end, to)
        at == span.element_start + start - span.start
    IN  [span EXCEPT !.start = start, !.end = end,
                     !.element_start = at, !.element_end = at + end - start]

ClipSourceSpans(spans, from, to) ==
    SelectSeq([i \in 1..Len(spans) |-> Clipped(spans[i], from, to)],
              LAMBDA s : s.start < s.end)

(***************************************************************************)
(* chunk_elements, for all but tables.                                     *)
(***************************************************************************)
\* Prose and pictures are packed, code is cut where it must be.
PartRanges(el, spec) ==
    IF el.modality = "code" THEN Ranges(HardSplit(el.text, spec.max), 1)
    ELSE ProseRanges(el.text, spec)

\* A part that is the heading alone, whole or its first piece: the prefix says it.
HeadingOnly(el, range) ==
    /\ el.modality = "text"
    /\ \E h \in el.headings : range[1] = h[1] /\ range[2] <= h[2]

\* The pieces of a part for the budget that is left beside the heading.
BodyBudget(path, limit) ==
    LET prefix == BoundedHeading(path, limit)
    IN  IF prefix = 0 THEN limit ELSE Larger(3, limit - (prefix + 2))

Piece(el, range, limit) ==
    [text |-> Slice(el.text, range),
     spans |-> ClipSourceSpans(el.spans, range[1] - 1, range[2]),
     tokens |-> count(Slice(el.text, range)) + BoundedHeading(el.path, limit)]

Pieces(el, ranges, limit) == [i \in 1..Len(ranges) |-> Piece(el, ranges[i], limit)]

FinalParts(el, range, limit) ==
    Pieces(el, Ranges(HardSplit(Slice(el.text, range), BodyBudget(el.path, limit)), range[1]), limit)

AllParts(el, ranges, limit) ==
    FlattenSeq([i \in 1..Len(ranges) |-> FinalParts(el, ranges[i], limit)])

ElementChunks(el, spec, limit) ==
    AllParts(el, SelectSeq(PartRanges(el, ReserveForPrefix(spec, el.path)), LAMBDA r : ~HeadingOnly(el, r)),
             limit)

Local(spec, limit) ==
    [spec EXCEPT !.max = limit, !.target = Smaller(spec.target, limit),
                 !.min = Smaller(spec.min, limit - 1)]

\* The passages, or Failed when one is over the limit.
Accepted(chunks, limit) == IF \E i \in 1..Len(chunks) : chunks[i].tokens > limit THEN Failed ELSE chunks

JoinedChunks(joined, spec, limit) ==
    FlattenSeq([i \in 1..Len(joined) |-> ElementChunks(joined[i], Local(spec, limit), limit)])

ChunkElements(els, spec, embed) ==
    LET limit == Smaller(spec.max, embed)
    IN  IF limit < 3 THEN Failed
        ELSE Accepted(JoinedChunks(JoinTextElements(els), spec, limit), limit)

(***************************************************************************)
(* Tables.  A record is [of, tokens]: of is the set of <<row, column, k>>  *)
(* it holds, row 0 for the header and column 0 for the caption.            *)
(***************************************************************************)
Total(numbers) == FoldLeft(LAMBDA n, x : n + x, 0, numbers)
RowTokens(t, r) == Total(t.rows[r])
BaseTokens(t) == 2 + t.caption + Total(t.header)

CellOf(t, r, c) == IF r = 0 THEN IF c = 0 THEN t.caption ELSE t.header[c] ELSE t.rows[r][c]
Cell(t, r, c) == {<<r, c, k>> : k \in 1..CellOf(t, r, c)}
RowOf(t, r) == UNION {Cell(t, r, c) : c \in 1..Len(t.header)}
HeadOf(t) == Cell(t, 0, 0) \cup RowOf(t, 0)

\* The sizes of the pieces of n tokens; no piece where none fits.
SplitSizes(n, budget) ==
    IF n + 2 <= budget THEN <<n>>
    ELSE IF budget < 3 THEN <<Failed>>
    ELSE [i \in 1..((n + budget - 3) \div (budget - 2)) |-> Smaller(budget - 2, n - (i - 1) * (budget - 2))]

\* The places that piece i holds of pieces of these sizes.
Stretch(sizes, i) == Total(SubSeq(sizes, 1, i - 1)) + 1 .. Total(SubSeq(sizes, 1, i))

\* Pieces of sizes, each behind an identity; at places a token in its text.
PieceRecords(sizes, identity, tokens, at(_)) ==
    IF sizes = <<Failed>> THEN <<Failed>>
    ELSE [i \in 1..Len(sizes) |->
            [of |-> identity.of \cup {x \in tokens : at(x) \in Stretch(sizes, i)},
             tokens |-> identity.tokens + sizes[i]]]

\* A cell in pieces; "(empty)" is a token.
CellPieces(t, r, c, identity, budget) ==
    PieceRecords(SplitSizes(Larger(1, CellOf(t, r, c)), budget), identity, Cell(t, r, c), LAMBDA x : x[3])

\* Row, column, its name and the key of the row, after the caption.
Identity(t, r, c) ==
    [of |-> Cell(t, 0, 0) \cup Cell(t, 0, c) \cup Cell(t, r, 1),
     tokens |-> 2 + t.caption + t.header[c] + t.rows[r][1]]
Reference == [of |-> {}, tokens |-> 3]

\* Fields behind a short reference; the caption and the header are fields too.
Fields(t) ==
    (IF t.caption > 0 THEN <<<<0, 0>>>> ELSE <<>>)
      \o FlattenSeq([r \in 1..(Len(t.rows) + 1) |-> [c \in 1..Len(t.header) |-> <<r - 1, c>>]])

FieldRecords(t, fields, budget) ==
    FlattenSeq([i \in 1..Len(fields) |-> CellPieces(t, fields[i][1], fields[i][2], Reference, budget)])

CompactTableRecords(t, spec) ==
    IF spec.max < 6 THEN <<Failed>> ELSE FieldRecords(t, Fields(t), spec.max - Reference.tokens - 2)

\* A cell per record; an identity that leaves no room makes the table compact.
CellRecords(t, r, c, identity, spec) ==
    IF spec.max - identity.tokens - 2 < 3 THEN <<Failed>>
    ELSE CellPieces(t, r, c, identity, spec.max - identity.tokens - 2)

WideTableRecords(t, spec) ==
    IF \E r \in 1..Len(t.rows), c \in 1..Len(t.header) : Identity(t, r, c).tokens >= spec.max - 3
    THEN CompactTableRecords(t, spec)
    ELSE FlattenSeq(FlattenSeq([r \in 1..Len(t.rows) |->
            [c \in 1..Len(t.header) |-> CellRecords(t, r, c, Identity(t, r, c), spec)]]))

RowsRecord(t, rows) ==
    [of |-> HeadOf(t) \cup UNION {RowOf(t, rows[i]) : i \in 1..Len(rows)},
     tokens |-> BaseTokens(t) + Total([i \in 1..Len(rows) |-> RowTokens(t, rows[i])])]

\* A row that only just fits is cut by tokens, whatever cells they belong to.
Place(t, x) == Total(SubSeq(t.rows[x[1]], 1, x[2] - 1)) + x[3]

RowPieces(t, r, budget) ==
    PieceRecords(SplitSizes(RowTokens(t, r), budget), [of |-> HeadOf(t), tokens |-> BaseTokens(t)],
                 RowOf(t, r), LAMBDA x : Place(t, x))

\* Rows under the repeated header, the last row of a record repeated in the next.
Flushed(t, acc) == IF acc.cur = <<>> THEN acc.out ELSE Append(acc.out, RowsRecord(t, acc.cur))

RowsAgain(t, spec, cur, rt) ==
    IF BaseTokens(t) + RowTokens(t, Last(cur)) + 2 + rt <= spec.max THEN <<Last(cur)>> ELSE <<>>

NextRecord(t, out, again, r) ==
    [out |-> out, cur |-> Append(again, r),
     tok |-> BaseTokens(t) + RowTokens(t, r) + 2
               + Total([i \in 1..Len(again) |-> RowTokens(t, again[i]) + 2])]

PackRow(t, spec, acc, r, rt) ==
    IF BaseTokens(t) + rt > spec.max
    THEN [out |-> Flushed(t, acc) \o RowPieces(t, r, Larger(1, spec.target - BaseTokens(t))),
          cur |-> <<>>, tok |-> BaseTokens(t)]
    ELSE IF acc.cur # <<>> /\ acc.tok + rt > spec.target
    THEN NextRecord(t, Flushed(t, acc), RowsAgain(t, spec, acc.cur, rt), r)
    ELSE [acc EXCEPT !.cur = Append(acc.cur, r), !.tok = acc.tok + rt]

PackRows(t, spec) ==
    Flushed(t, FoldLeft(LAMBDA acc, r : PackRow(t, spec, acc, r, RowTokens(t, r) + 2),
                        [out |-> <<>>, cur |-> <<>>, tok |-> BaseTokens(t)],
                        [r \in 1..Len(t.rows) |-> r]))

WholeOr(t, spec, whole) ==
    IF whole.tokens <= spec.max THEN <<whole>>
    ELSE IF \E r \in 1..Len(t.rows) : BaseTokens(t) + RowTokens(t, r) > spec.max
    THEN WideTableRecords(t, spec)
    ELSE PackRows(t, spec)

ChunkTable(t, spec) == WholeOr(t, spec, RowsRecord(t, [r \in 1..Len(t.rows) |-> r]))

(***************************************************************************)
(* A table without a header row is packed as paragraphs of sentences, each *)
(* given by its number of tokens.  A record is a sequence of tokens        *)
(* <<paragraph, sentence, k>>.                                             *)
(***************************************************************************)
Size(text) == Len(text) + 2
Starts(text) == {i \in 1..Len(text) : i = 1 \/ SubSeq(text[i], 1, 2) # SubSeq(text[i - 1], 1, 2)}

\* _tail_sentences: trailing whole sentences that fit in the overlap.
TailFrom(text, from) == IF from = {} THEN <<>> ELSE SubSeq(text, Min(from), Len(text))

TailSentences(text, budget) ==
    TailFrom(text, {i \in Starts(text) :
                      Len(text) - i + 1 + 2 * Cardinality({j \in Starts(text) : j >= i}) <= budget})

\* Texts gathered into groups of at most budget tokens, each group begun with what
\* seed takes from the one before.
Begun(out, again, text) ==
    [out |-> out, cur |-> again \o text, tok |-> Size(text) + (IF again = <<>> THEN 0 ELSE Size(again))]

Ended(acc) == IF acc.cur = <<>> THEN acc.out ELSE Append(acc.out, acc.cur)

Gather(texts, budget, seed(_)) ==
    LET add(acc, text) ==
            IF acc.cur # <<>> /\ acc.tok + Size(text) > budget
            THEN Begun(Append(acc.out, acc.cur), seed(acc.cur), text)
            ELSE [acc EXCEPT !.cur = acc.cur \o text, !.tok = acc.tok + Size(text)]
    IN  Ended(FoldLeft(add, [out |-> <<>>, cur |-> <<>>, tok |-> 0], texts))

\* _split_oversized: a sentence over the maximum is cut and stands by itself.
Sized(s, sizes) == [i \in 1..Len(sizes) |-> SubSeq(s, Total(SubSeq(sizes, 1, i - 1)) + 1, Total(SubSeq(sizes, 1, i)))]

Packed(sentences, spec) == Gather(sentences, spec.target, LAMBDA cur : <<>>)

\* Sentences up to the next that is over, in groups, and that one in pieces.
SplitOversized(sentences, spec) ==
    LET step(acc, s) ==
            IF Size(s) > spec.max
            THEN [out |-> acc.out \o Packed(acc.small, spec) \o Sized(s, SplitSizes(Len(s), spec.target)),
                  small |-> <<>>]
            ELSE [acc EXCEPT !.small = Append(@, s)]
        grouped(acc) == acc.out \o Packed(acc.small, spec)
    IN  grouped(FoldLeft(step, [out |-> <<>>, small |-> <<>>], sentences))

\* _to_units, _pack_units and _merge_small.
ToUnits(paragraph, whole, spec) ==
    IF Size(whole) <= spec.target THEN <<whole>> ELSE SplitOversized(paragraph, spec)

MergeSmall(chunks, spec) ==
    LET merged == chunks[Len(chunks) - 1] \o Last(chunks)
    IN  IF Len(chunks) > 1 /\ Size(Last(chunks)) < spec.min /\ Size(merged) <= spec.max
        THEN Append(SubSeq(chunks, 1, Len(chunks) - 2), merged) ELSE chunks

PackParagraphs(paragraphs, spec) ==
    MergeSmall(Gather(FlattenSeq([i \in 1..Len(paragraphs) |->
                                    ToUnits(paragraphs[i], FlattenSeq(paragraphs[i]), spec)]),
                      spec.target, LAMBDA cur : TailSentences(cur, spec.overlap)),
               spec)

\* The records of a table element, which are never split again.
UnderHeading(records, path, limit) ==
    IF \E i \in 1..Len(records) : records[i] = Failed \/ records[i].tokens > BodyBudget(path, limit)
    THEN Failed
    ELSE [i \in 1..Len(records) |-> [records[i] EXCEPT !.tokens = @ + BoundedHeading(path, limit)]]

TableChunks(t, path, spec, embed) ==
    LET limit == Smaller(spec.max, embed)
    IN  UnderHeading(ChunkTable(t, ReserveForPrefix(Local(spec, limit), path)), path, limit)

Fitting(records, budget) == IF \E i \in 1..Len(records) : Size(records[i]) > budget THEN Failed ELSE records

ParagraphChunks(paragraphs, path, spec, embed) ==
    LET limit == Smaller(spec.max, embed)
    IN  Fitting(PackParagraphs(paragraphs, ReserveForPrefix(Local(spec, limit), path)), BodyBudget(path, limit))

(***************************************************************************)
(* delta.py.  A passage: [hash, text]; hash "" for one without.            *)
(***************************************************************************)
HashOf(r) == IF r.hash # "" THEN r.hash ELSE r.text

Counts(rs) == ToBag([i \in 1..Len(rs) |-> HashOf(rs[i])])

\* Passages shown of those counted, in order, up to a limit.
Previews(rs, counted, limit) ==
    LET seen(i) == Cardinality({j \in 1..i : HashOf(rs[j]) = HashOf(rs[i])})
        copies(hash) == IF hash \in DOMAIN counted THEN counted[hash] ELSE 0
        shown == SelectSeq([i \in 1..Len(rs) |-> i], LAMBDA i : seen(i) <= copies(HashOf(rs[i])))
        cut == SubSeq(shown, 1, Smaller(limit, Len(shown)))
    IN  [of |-> [k \in 1..Len(cut) |-> HashOf(rs[cut[k]])], truncated |-> BagCardinality(counted) > Len(cut)]

DiffChunks(old, new, limit) ==
    LET added == Counts(new) (-) Counts(old)
        removed == Counts(old) (-) Counts(new)
    IN  [added |-> BagCardinality(added), removed |-> BagCardinality(removed),
         unchanged |-> BagCardinality(Counts(new) (-) added),
         added_preview |-> Previews(new, added, limit),
         removed_preview |-> Previews(old, removed, limit)]

(***************************************************************************)
(* Properties of results                                                   *)
(***************************************************************************)
\* Which characters of which elements a text holds, blanks aside.
Solid(t) == {<<t[i].el, t[i].k>> : i \in {j \in 1..Len(t) : ~Blank(t[j])}}

\* What the spans of a passage say it holds.
Spanned(spans) ==
    UNION {{<<spans[s].el, k>> : k \in (spans[s].element_start + 1)..spans[s].element_end}
             : s \in 1..Len(spans)}

HeadingOf(el) == SubSeq(el.text, 1, HeadingEnd(el))
HeadedIn(els) == {e \in 1..Len(els) : els[e].headed /\ els[e].modality = "text"}

\* The passages repeat a heading in front of them as far as a third of their limit.
HeadingsHeld(els, limit, chunks) ==
    \A e \in HeadedIn(els) :
       \/ Tokens(HeadingOf(els[e])) <= BoundedHeading(els[e].path, limit)
       \/ Solid(HeadingOf(els[e])) \subseteq UNION {Solid(chunks[i].text) : i \in 1..Len(chunks)}

\* Every character of the elements is in a passage, unless it is of a heading, which
\* HeadingsKept (Passages) is about; a passage's spans are where it came from; none is
\* over the limit, and there is a way to cut unless the limit is tiny.
ProseFaithful(els, limit, chunks) ==
    LET all == UNION {Solid(els[e].text) : e \in 1..Len(els)}
        headings == UNION {Solid(HeadingOf(els[e])) : e \in HeadedIn(els)}
    IN  /\ limit >= 4 => chunks # Failed
        /\ chunks # Failed =>
             /\ all \ headings \subseteq UNION {Solid(chunks[i].text) : i \in 1..Len(chunks)}
             /\ \A i \in 1..Len(chunks) :
                   /\ chunks[i].tokens <= limit
                   /\ Spanned(chunks[i].spans) \cap all = Solid(chunks[i].text)

\* A table that is accepted loses no cell, and no record is over the limit.
TableFaithful(t, limit, records) ==
    records # Failed =>
        /\ HeadOf(t) \cup UNION {RowOf(t, r) : r \in 1..Len(t.rows)}
             \subseteq UNION {records[i].of : i \in 1..Len(records)}
        /\ \A i \in 1..Len(records) : records[i].tokens <= limit

\* Every sentence is a unit of its own size at most the target, or is cut to the target.
SentencesFit(paragraphs, spec) ==
    \A p \in DOMAIN paragraphs : \A s \in DOMAIN paragraphs[p] :
       Size(paragraphs[p][s]) <= spec.target \/ Size(paragraphs[p][s]) > spec.max

\* No token of the paragraphs is lost.  They are accepted if every sentence fits and the
\* target with the overlap does; ParagraphsFit (Passages) is about any sentences.
ParagraphsFaithful(paragraphs, spec, budget, records) ==
    /\ SentencesFit(paragraphs, spec) /\ spec.target + spec.overlap <= budget => records # Failed
    /\ records # Failed =>
         ToSet(FlattenSeq(FlattenSeq(paragraphs))) \subseteq UNION {ToSet(records[i]) : i \in 1..Len(records)}

\* The counts of a delta add up, and its previews say when they leave some out.
DeltaAdds(old, new, limit, d) ==
    /\ d.added + d.unchanged = Len(new) /\ d.removed + d.unchanged = Len(old)
    /\ d.added_preview.truncated = (d.added > limit)
    /\ d.removed_preview.truncated = (d.removed > limit)
================================================================================
