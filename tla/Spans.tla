--------------------------------- MODULE Spans ---------------------------------
(***************************************************************************)
(* Where on a page the words of a vision model stand:                      *)
(*   loaders/pdf.py     lines of a damaged text layer, which still know    *)
(*                      their boxes, are found in the model's text         *)
(*   loaders/image.py   transcriptions of crops are found in the           *)
(*                      transcription of the whole frame                   *)
(*                                                                         *)
(* A text is a sequence of characters: letters, the space, "-" and "#",    *)
(* which stands for marks of markdown.  A span is [from, to, of, how]: the *)
(* characters it is about, the line or region they are pinned to, and how  *)
(* they were found ("chars", "window", "region" or "page").  Boxes, case   *)
(* and CID placeholders are left out.                                      *)
(***************************************************************************)
EXTENDS Integers, Sequences, FiniteSets, SequencesExt, Chunking

WholePage == 0                   \* what a span is pinned to that no line or region is known for
Absent == 0                      \* str.find found nothing

\* str.find(part, from)
FindFrom(s, part, from) ==
    LET at == {i \in from..(Len(s) - Len(part) + 1) : SubSeq(s, i, i + Len(part) - 1) = part}
    IN  IF at = {} THEN Absent ELSE Min(at)

(***************************************************************************)
(* pdf.py                                                                  *)
(***************************************************************************)
Letters == {"a", "b", "c", "d", "e", "f", "g", "h"}

\* Positions of the letters of a text, and the letters.
CompactCharOffsets(text) == SelectSeq([i \in 1..Len(text) |-> i], LAMBDA i : text[i] \in Letters)
CompactText(text) == SelectSeq(text, LAMBDA c : c \in Letters)

\* Runs of two characters and more without a space, as <<first, last>>.
MatchTokenOffsets(text) ==
    SelectSeq(SetToSortSeq({r \in (1..Len(text)) \X (1..Len(text)) :
                              /\ r[1] <= r[2]
                              /\ \A i \in r[1]..r[2] : text[i] # " "
                              /\ r[1] = 1 \/ text[r[1] - 1] = " "
                              /\ r[2] = Len(text) \/ text[r[2] + 1] = " "},
                           LAMBDA r, s : r[1] < s[1]),
              LAMBDA r : r[1] < r[2])

MatchTokens(text) ==
    LET at == MatchTokenOffsets(text) IN [k \in 1..Len(at) |-> SubSeq(text, at[k][1], at[k][2])]

WithoutHyphen(line) == IF line # <<>> /\ Last(line) = "-" THEN Front(line) ELSE line

\* SequenceMatcher: the longest common run, the first of them, and so on left and
\* right of it; how many tokens the runs have.
MatchedTokens(s, t) ==
    LET parts == (1..(Len(s) + 1)) \X (0..Len(s)) \X (1..(Len(t) + 1)) \X (0..Len(t))
        runs(p) == {r \in (p[1]..p[2]) \X (p[3]..p[4]) \X (1..Len(s)) :
                      /\ r[1] + r[3] - 1 <= p[2] /\ r[2] + r[3] - 1 <= p[4]
                      /\ SubSeq(s, r[1], r[1] + r[3] - 1) = SubSeq(t, r[2], r[2] + r[3] - 1)}
        best(p) == CHOOSE r \in runs(p) : \A o \in runs(p) :
                      \/ r[3] > o[3]
                      \/ r[3] = o[3] /\ r[1] < o[1]
                      \/ r[3] = o[3] /\ r[1] = o[1] /\ r[2] <= o[2]
        matched[p \in parts] ==
            IF runs(p) = {} THEN 0
            ELSE LET b == best(p)
                 IN  b[3] + matched[<<p[1], b[1] - 1, p[3], b[2] - 1>>]
                       + matched[<<b[1] + b[3], p[2], b[2] + b[3], p[4]>>]
    IN  matched[<<1, Len(s), 1, Len(t)>>]

\* Defect: the best window is taken even where another line holds it.
BestTokenWindowAnywhere(evidence, expected, used) ==
    LET windows == {w \in (1..Len(evidence)) \X (1..Len(evidence)) :
                      w[1] < w[2] /\ MatchedTokens(expected, SubSeq(evidence, w[1], w[2])) = Len(expected)}
    IN  IF windows = {} THEN <<>> ELSE CHOOSE w \in windows : \A o \in windows : w[1] <= o[1]

\* A window of the tokens and how many it has in common with the line's.
Measured(evidence, expected, from, to) ==
    [from |-> from, to |-> to, size |-> to - from + 1,
     matched |-> MatchedTokens(expected, SubSeq(evidence, from, to))]

\* Two tokens and 65 percent in common at least.
Alike(n, w) ==
    w.matched >= 2 /\ 100 * w.matched >= 65 * n /\ 200 * w.matched >= 65 * (n + w.size)

Further(n, w) == IF w.size > n THEN w.size - n ELSE n - w.size

Better(n, w, o) ==
    LET a == w.matched * (n + o.size)
        b == o.matched * (n + w.size)
    IN  \/ a > b
        \/ a = b /\ w.matched > o.matched
        \/ a = b /\ w.matched = o.matched /\ Further(n, w) < Further(n, o)
        \/ a = b /\ w.matched = o.matched /\ Further(n, w) = Further(n, o) /\ w.from <= o.from

BestOf(n, windows) ==
    IF windows = {} THEN <<>>
    ELSE LET w == CHOOSE w \in windows : \A o \in windows : Better(n, w, o) IN <<w.from, w.to>>

\* The window of unused tokens that is most like the line, as <<first, last>>.  A line
\* of one token must stand once.
BestTokenWindow(evidence, expected, used) ==
    LET n == Len(expected)
        once == {i \in 1..Len(evidence) : evidence[i] = expected[1]}
        unused == {w \in (1..Len(evidence)) \X (1..Len(evidence)) :
                     w[2] - w[1] + 1 \in Larger(2, n - 2)..(n + 2) /\ (w[1]..w[2]) \cap used = {}}
    IN  IF n = 0 THEN <<>>
        ELSE IF n = 1
        THEN IF Cardinality(once) = 1 /\ once \cap used = {} THEN <<Min(once), Min(once)>> ELSE <<>>
        ELSE BestOf(n, {w \in {Measured(evidence, expected, u[1], u[2]) : u \in unused} : Alike(n, w)})

\* Characters and tokens that are taken are counted apart.
Free(at, part, st) == at # Absent /\ (at..(at + Len(part) - 1)) \cap st.chars = {}

OrAgain(compact, part, first, st) ==
    IF first = Absent \/ Free(first, part, st) THEN first ELSE FindFrom(compact, part, first + 1)

\* Where the letters of a line stand, or stand once more if that place is taken.
PlaceOf(compact, part, st) ==
    IF Len(part) < 4 THEN Absent ELSE OrAgain(compact, part, FindFrom(compact, part, 1), st)

PinChars(offsets, l, part, at, st) ==
    [st EXCEPT !.chars = @ \cup (at..(at + Len(part) - 1)),
               !.spans = Append(@, [from |-> offsets[at], to |-> offsets[at + Len(part) - 1], of |-> l, how |-> "chars"])]

PinWindow(tokens, l, window, st) ==
    IF window = <<>> THEN st
    ELSE [st EXCEPT !.tokens = @ \cup (window[1]..window[2]),
                    !.spans = Append(@, [from |-> tokens[window[1]][1], to |-> tokens[window[2]][2], of |-> l, how |-> "window"])]

PinLine(known, line, l, part, at, st) ==
    IF Free(at, part, st) THEN PinChars(known.offsets, l, part, at, st)
    ELSE PinWindow(known.tokens, l, BestTokenWindow(known.words, MatchTokens(line), st.tokens), st)

PinPart(known, line, l, part, st) == PinLine(known, line, l, part, PlaceOf(known.compact, part, st), st)

\* Lines one after the other: letter by letter where the line stands, else by tokens.
MatchingRegionSpans(known, lines) ==
    IF known.tokens = <<>> THEN <<>>
    ELSE FoldLeft(LAMBDA st, l : PinPart(known, lines[l], l, CompactText(WithoutHyphen(lines[l])), st),
                  [spans |-> <<>>, chars |-> {}, tokens |-> {}],
                  [l \in 1..Len(lines) |-> l]).spans

PageText(text) == [compact |-> CompactText(text), offsets |-> CompactCharOffsets(text),
                tokens |-> MatchTokenOffsets(text), words |-> MatchTokens(text)]

\* An element of a page that was read whole: the lines it matches, else the one
\* region of the layout whose transcription has all of it, else the page.
Coarse(text, holding) ==
    IF Cardinality(holding) = 1
    THEN <<[from |-> 1, to |-> Len(text), of |-> CHOOSE r \in holding : TRUE, how |-> "region"]>>
    ELSE <<[from |-> 1, to |-> Len(text), of |-> WholePage, how |-> "page"]>>

LinesOr(spans, coarse) == IF spans # <<>> THEN spans ELSE coarse

Holding(regions, compact) ==
    {r \in 1..Len(regions) : compact # <<>> /\ FindFrom(CompactText(regions[r]), compact, 1) # Absent}

ElementSpans(text, lines, regions) ==
    LinesOr(MatchingRegionSpans(PageText(text), lines), Coarse(text, Holding(regions, CompactText(text))))

(***************************************************************************)
(* image.py                                                                *)
(***************************************************************************)
\* Positions kept of a text: no marks, and one space of those that follow each other.
NormalOffsets(text) ==
    LET unmarked == SelectSeq([i \in 1..Len(text) |-> i], LAMBDA i : text[i] # "#")
        again == {unmarked[k] : k \in {x \in 2..Len(unmarked) : text[unmarked[x]] = " " /\ text[unmarked[x - 1]] = " "}}
    IN  SelectSeq(unmarked, LAMBDA i : i \notin again)

Kept(text, at) == [at |-> at, text |-> [k \in 1..Len(at) |-> text[at[k]]]]

Normalized(text) == Kept(text, NormalOffsets(text))

Bare(s) ==
    LET solid == {i \in 1..Len(s) : s[i] # " "}
    IN  IF solid = {} THEN <<>> ELSE SubSeq(s, Min(solid), Max(solid))

\* Where needle stands in text between word boundaries: every place, or the first
\* and those after it that do not overlap the one before.
Bounded(text, needle, i) ==
    LET j == i + Len(needle) - 1
    IN  /\ SubSeq(text, i, j) = needle
        /\ i = 1 \/ text[i - 1] \notin Letters
        /\ j = Len(text) \/ text[j + 1] \notin Letters

Matches(text, needle) ==
    IF needle = <<>> THEN {}
    ELSE LET at == {i \in 1..(Len(text) - Len(needle) + 1) : Bounded(text, needle, i)}
         IN  FoldLeft(LAMBDA taken, i : IF i \in at /\ \A p \in taken : p + Len(needle) <= i
                                        THEN taken \cup {i} ELSE taken,
                      {}, [i \in 1..Len(text) |-> i])

Once(text, needle) == Cardinality(Matches(text, needle)) = 1

\* Crops that match once in the element and once in the frame, where they stand.
Within(normal, full, value) == Once(normal.text, value) /\ Once(full, value)

Around(normal, full, value) ==
    /\ Matches(normal.text, value) = {}
    /\ Once(value, Bare(normal.text)) /\ Once(full, Bare(normal.text))

CropSpan(normal, value, r, at) ==
    [from |-> normal.at[at], to |-> normal.at[at + Len(value) - 1], of |-> r, how |-> "region"]

CropSpans(text, normal, full, values) ==
    {CropSpan(normal, values[r], r, Min(Matches(normal.text, values[r]))) :
       r \in {x \in 1..Len(values) : Within(normal, full, values[x])}}
    \cup {[from |-> 1, to |-> Len(text), of |-> r, how |-> "region"] :
       r \in {x \in 1..Len(values) : Around(normal, full, values[x])}}

\* Those whose places overlap are left out, all of them.
Apart(spans) == {s \in spans : \A o \in spans \ {s} : s.to < o.from \/ o.to < s.from}

\* What is left between is pinned to the frame; what is only space is left out.
Solids(text, spans) == SelectSeq(spans, LAMBDA s : \E i \in s.from..s.to : text[i] # " ")

FrameSpan(from, to) == [from |-> from, to |-> to, of |-> WholePage, how |-> "page"]

Between(text, ordered) ==
    FlattenSeq([k \in 1..(Len(ordered) + 1) |->
        Solids(text, <<FrameSpan(IF k = 1 THEN 1 ELSE ordered[k - 1].to + 1,
                                 IF k > Len(ordered) THEN Len(text) ELSE ordered[k].from - 1)>>
                       \o SubSeq(ordered, k, Smaller(k, Len(ordered))))])

SourceSpans(text, regions, frame) ==
    Between(text, SetToSortSeq(Apart(CropSpans(text, Normalized(text), Normalized(frame).text,
                                               [r \in 1..Len(regions) |-> Bare(Normalized(regions[r]).text)])),
                               LAMBDA s, t : s.from < t.from))

(***************************************************************************)
(* Properties of results                                                   *)
(***************************************************************************)
Disjoint(spans) ==
    \A i, j \in 1..Len(spans) : i # j => spans[i].to < spans[j].from \/ spans[j].to < spans[i].from

\* No two lines share characters found letter by letter, nor tokens found by window;
\* what was found letter by letter is the line; a window has two of its tokens, or
\* the only one there is; and every element is pinned to something.
AlignedTruthful(text, lines, spans) ==
    /\ spans # <<>>
    /\ \A how \in {"chars", "window"} : Disjoint(SelectSeq(spans, LAMBDA s : s.how = how))
    /\ \A i \in 1..Len(spans) :
         LET said == SubSeq(text, spans[i].from, spans[i].to)
         IN  /\ spans[i].how = "chars" => CompactText(said) = CompactText(WithoutHyphen(lines[spans[i].of]))
             /\ spans[i].how = "window" =>
                  LET common == MatchedTokens(MatchTokens(lines[spans[i].of]), MatchTokens(said))
                  IN  common >= 2 \/ MatchTokens(said) = MatchTokens(lines[spans[i].of])

\* A text layer that agrees with the model is aligned line by line, each line in its
\* own place, whatever order its lines come in.
AlignedComplete(text, lines, spans) ==
    (\A l \in 1..Len(lines) :
        LET part == CompactText(lines[l])
            first == FindFrom(CompactText(text), part, 1)
        IN  /\ Len(part) >= 4 /\ first # Absent
            /\ FindFrom(CompactText(text), part, first + 1) = Absent
            /\ \A m \in 1..Len(lines) : m # l =>
                 LET other == FindFrom(CompactText(text), CompactText(lines[m]), 1)
                 IN  other = Absent \/ other + Len(CompactText(lines[m])) <= first \/ first + Len(part) <= other)
      => lines = <<>> \/ (Len(spans) = Len(lines) /\ \A i \in 1..Len(spans) : spans[i].how = "chars")

\* The spans of a picture's text lie one after the other and leave nothing out but
\* space; a region is named only for words its crop has, that no other crop claims
\* and that stand in the frame once.
PicturesTruthful(text, regions, frame, spans) ==
    /\ \A i \in 1..(Len(spans) - 1) : spans[i].to < spans[i + 1].from
    /\ \A k \in 1..Len(text) : text[k] # " " => \E i \in 1..Len(spans) : k \in spans[i].from..spans[i].to
    /\ \A i \in 1..Len(spans) : spans[i].of # WholePage =>
         LET said == Bare(Normalized(SubSeq(text, spans[i].from, spans[i].to)).text)
         IN  /\ Matches(Bare(Normalized(regions[spans[i].of]).text), said) # {}
             /\ Cardinality(Matches(Normalized(frame).text, said)) = 1
             /\ \A r \in 1..Len(regions) : r # spans[i].of =>
                  Bare(Normalized(regions[r]).text) # said
================================================================================
