--------------------------------- MODULE Layout ---------------------------------
(***************************************************************************)
(* Where things stand on a page:                                           *)
(*   ingest/pipeline/layout.py          the regions a layout model finds   *)
(*   ingest/pipeline/loaders/pdf.py     lines of words, their spans, and   *)
(*                                      the part of a picture that is cut  *)
(*   retrieval/rag/provenance.py        the places a citation shows        *)
(*                                                                         *)
(* A box is <<left, top, right, bottom>>, <<>> if there is none; a page or *)
(* number that is not there is 0.  Positions on a page are integers, those *)
(* of a citation are parts of the page's sides, of which there are PageParts    *)
(* (1,000,000 of them in the code).                                        *)
(***************************************************************************)
EXTENDS Integers, Sequences, FiniteSets, SequencesExt, FiniteSetsExt

CONSTANTS
    Unusable,
    PageParts,
    MostPixels,     \* settings.max_image_pixels
    RowTolerance,   \* 3 points from the top of the first word of a line
    WordGap,        \* 36 points between words of a line
    MaxRegions      \* _MAX_REGIONS, 4096

WidthOf(box) == box[3] - box[1]
HeightOf(box) == box[4] - box[2]
Meet(a, b) ==
    <<Max({a[1], b[1]}), Max({a[2], b[2]}), Min({a[3], b[3]}), Min({a[4], b[4]})>>
Wide(box) == box[1] < box[3] /\ box[2] < box[4]
Inside(a, b) == a[1] >= b[1] /\ a[2] >= b[2] /\ a[3] <= b[3] /\ a[4] <= b[4]
Hull(boxes) ==
    <<Min({b[1] : b \in boxes}), Min({b[2] : b \in boxes}), Max({b[3] : b \in boxes}), Max({b[4] : b \in boxes})>>

(***************************************************************************)
(* layout_profile and detect_layout, of g: the checkpoint ("there",        *)
(* "missing", "other") and an image [width, height] with the boxes         *)
(* [box, label, finite] that its model finds.                              *)
(***************************************************************************)
OnImage(g, found) == [box |-> Meet(found.box, <<0, 0, g.width, g.height>>), label |-> found.label]

Earlier(a, b) ==
    \/ a.box[2] < b.box[2]
    \/ a.box[2] = b.box[2] /\ a.box[1] < b.box[1]
    \/ a.box[2] = b.box[2] /\ a.box[1] = b.box[1] /\ a.label < b.label

Sorted(s, before(_, _)) ==
    LET order == SortSeq([i \in DOMAIN s |-> i], LAMBDA i, j : \/ before(s[i], s[j])
                                                                  \/ (~before(s[j], s[i]) /\ i < j))
    IN  [n \in DOMAIN s |-> s[order[n]]]

DetectLayout(g) ==
    IF g.checkpoint # "there" \/ g.width * g.height > MostPixels THEN Unusable
    ELSE LET found == SelectSeq(g.boxes, LAMBDA f : f.finite /\ Wide(OnImage(g, f).box))
             sorted == Sorted([i \in DOMAIN found |-> OnImage(g, found[i])], Earlier)
         IN  [i \in DOMAIN sorted |-> [id |-> i - 1, box |-> sorted[i].box, label |-> sorted[i].label]]

(***************************************************************************)
(* _native_word_regions: lines of the words that stand in no table.  A     *)
(* word is [box, text], its text a sequence of letters.                    *)
(***************************************************************************)
\* The middle of a word, in half points.
Holds(region, word) ==
    /\ word.box[1] + word.box[3] \in (2 * region[1])..(2 * region[3])
    /\ word.box[2] + word.box[4] \in (2 * region[2])..(2 * region[4])

\* Where a line of the words, from the top, ends and the next one begins.
Rows(words) ==
    FoldLeft(LAMBDA rows, w :
               IF rows # <<>> /\ w.box[2] - Last(rows)[1].box[2] <= RowTolerance
               THEN [rows EXCEPT ![Len(rows)] = Append(@, w)] ELSE Append(rows, <<w>>),
             <<>>, Sorted(words, LAMBDA a, b : \/ a.box[2] < b.box[2]
                                               \/ a.box[2] = b.box[2] /\ a.box[1] < b.box[1]))

Split(row) ==
    FoldLeft(LAMBDA groups, w :
               IF groups # <<>> /\ w.box[1] - Last(Last(groups)).box[3] <= WordGap
               THEN [groups EXCEPT ![Len(groups)] = Append(@, w)] ELSE Append(groups, <<w>>),
             <<>>, Sorted(row, LAMBDA a, b : a.box[1] < b.box[1]))

\* _word_layout: the smallest region around a word, the first of equals; 0 for none.
WordLayout(word, regions) ==
    LET around == {i \in DOMAIN regions : Holds(regions[i], word)}
        area(i) == WidthOf(regions[i]) * HeightOf(regions[i])
        smallest == {i \in around : \A j \in around : area(i) <= area(j)}
    IN  IF around = {} THEN 0 ELSE Min(smallest)

LineText(line) == FoldLeft(LAMBDA t, w : t \o <<" ">> \o w.text, Head(line).text, Tail(line))

\* The spans of a line's words in its text, counted from 0 as the code does.
WordSpans(line, regions) ==
    FoldLeft(LAMBDA acc, w :
               [at |-> acc.at + Len(w.text) + 1,
                spans |-> Append(acc.spans, [from |-> acc.at, to |-> acc.at + Len(w.text), word |-> w,
                                             layout |-> WordLayout(w, regions)])],
             [at |-> 0, spans |-> <<>>], line).spans

NativeLines(g) ==
    LET free == SelectSeq(g.words, LAMBDA w : \A t \in ToSet(g.tables) : ~Holds(t, w))
        lines == FlattenSeq([r \in DOMAIN Rows(free) |-> Split(Rows(free)[r])])
    IN  [l \in DOMAIN lines |->
           [text |-> LineText(lines[l]), box |-> Hull({w.box : w \in ToSet(lines[l])}),
            spans |-> WordSpans(lines[l], g.regions), layout |-> WordLayout(lines[l][1], g.regions)]]

(***************************************************************************)
(* Parts cut out of the rendered page [box, scale], which has scale pixels *)
(* for every Grain of its positions.                                      *)
(***************************************************************************)
Grain == 2
Below(n, many, of) == (n * many) \div of
Above(n, many, of) == -((-n * many) \div of)

\* _check_render_pixels
Renders(page) ==
    Below(WidthOf(page.box) * page.scale * HeightOf(page.box), page.scale, Grain * Grain) <= MostPixels

Bitmap(page) ==
    <<0, 0, Above(WidthOf(page.box), page.scale, Grain), Above(HeightOf(page.box), page.scale, Grain)>>

From(box, origin) == <<box[1] - origin[1], box[2] - origin[2], box[3] - origin[1], box[4] - origin[2]>>

\* _layout_crop: of the bitmap there is for the page's box.
OnBitmap(page, box) ==
    LET at == From(box, page.box)
        all == Bitmap(page)
    IN  <<Below(at[1], all[3], WidthOf(page.box)), Below(at[2], all[4], HeightOf(page.box)),
          Above(at[3], all[3], WidthOf(page.box)), Above(at[4], all[4], HeightOf(page.box))>>

LayoutCrop(page, box) == Meet(Bitmap(page), OnBitmap(page, box))

\* _crop_png: the picture's box as if the page began at 0, and what of it is made white
\* for the tables; a rectangle is drawn with its right and its bottom edge.
Truncated(box, scale) == [k \in 1..4 |-> Below(box[k], scale, Grain)]
Outwards(box, scale) ==
    [k \in 1..4 |-> IF k <= 2 THEN Below(box[k], scale, Grain) ELSE Above(box[k], scale, Grain)]

CropPng(page, box, tables) ==
    LET crop == Truncated(box, page.scale)
        table(t) == Meet(<<0, 0, WidthOf(crop), HeightOf(crop)>>, From(Outwards(t, page.scale), crop))
    IN  [box |-> crop, white |-> {table(t) : t \in {u \in ToSet(tables) : Wide(table(u))}}]

\* The pixels a rectangle colours.
Drawn(box) == (box[1]..box[3]) \X (box[2]..box[4])

CutParts(g) ==
    IF ~Renders(g.page) THEN Unusable
    ELSE [region |-> LayoutCrop(g.page, g.box), picture |-> CropPng(g.page, g.box, g.tables)]

(***************************************************************************)
(* citation_provenance, of the private metadata of a passage: [spans, own, *)
(* pages, page, locator, type].  A span is [box, size, page, pageBox,      *)
(* says]; own is the span the metadata itself is, says what a span holds   *)
(* of the text.  The page, size and page's box of a span are those of the  *)
(* metadata where it has none.                                             *)
(***************************************************************************)
Rounded(n, side) == (2 * n * PageParts + side) \div (2 * side)

Or(given, other) == IF given = <<>> THEN other ELSE given
OrPage(given, other) == IF given = 0 THEN other ELSE given

Candidate(meta, span) ==
    [span EXCEPT !.size = Or(@, meta.own.size), !.page = OrPage(@, meta.own.page),
                 !.pageBox = Or(Or(@, meta.own.pageBox), <<0, 0>> \o Or(span.size, meta.own.size))]

Showable(c) ==
    /\ c.box # <<>> /\ c.size # <<>> /\ c.page # 0
    /\ c.size[1] > 0 /\ c.size[2] > 0 /\ Wide(c.pageBox)
    /\ Wide(Meet(c.box, c.pageBox))

RegionOf(c) ==
    LET shown == From(Meet(c.box, c.pageBox), c.pageBox)
    IN  [page |-> c.page, says |-> c.says,
         box |-> <<Rounded(shown[1], WidthOf(c.pageBox)), Rounded(shown[2], HeightOf(c.pageBox)),
                   Rounded(WidthOf(shown), WidthOf(c.pageBox)), Rounded(HeightOf(shown), HeightOf(c.pageBox))>>]

\* Regions of an image differ by what they say too.
SameShown(meta, region) == IF meta.type = "image" THEN region ELSE [region EXCEPT !.says = ""]

RegionsOf(meta) ==
    LET spans == IF meta.spans = <<>> THEN <<meta.own>> ELSE meta.spans
        shown == SelectSeq([i \in DOMAIN spans |-> Candidate(meta, spans[i])], Showable)
    IN  FoldLeft(LAMBDA out, c :
                   IF \E r \in ToSet(out) : SameShown(meta, r) = SameShown(meta, RegionOf(c))
                   THEN out ELSE Append(out, RegionOf(c)),
                 <<>>, shown)

Right(region) == region.box[1] + region.box[3]
Bottom(region) == region.box[2] + region.box[4]

\* The extent of the whole passage on each of its pages, from all of its regions.
ChunkRegions(regions) ==
    LET pages == SetToSortSeq({r.page : r \in ToSet(regions)}, <)
        extent(of) == LET left == Min({r.box[1] : r \in of})
                          upper == Min({r.box[2] : r \in of})
                      IN  <<left, upper, Min({PageParts, Max({Right(r) : r \in of})}) - left,
                            Min({PageParts, Max({Bottom(r) : r \in of})}) - upper>>
    IN  [n \in DOMAIN pages |-> [page |-> pages[n], box |-> extent({r \in ToSet(regions) : r.page = pages[n]})]]

\* _locator_kind: the first of these that the metadata has.
LocatorKind(meta) ==
    IF meta.type \in {"pdf", "image"} THEN meta.type
    ELSE IF "sheet" \in meta.locator THEN "spreadsheet"
    ELSE IF "source_line" \in meta.locator THEN "source_lines"
    ELSE IF "body_index" \in meta.locator THEN "document_structure"
    ELSE IF "row_start" \in meta.locator THEN "table_rows" ELSE "section"

LocatorKeys == {"page", "sheet", "source_line", "body_index", "row_start"}

CitationProvenance(meta) ==
    LET regions == RegionsOf(meta)
        pages == (meta.pages \cup {meta.own.page}) \ {0}
        locator == {k \in LocatorKeys : k \in meta.locator \cup (IF meta.own.page = 0 THEN {} ELSE {"page"})}
    IN  [kind |-> LocatorKind(meta), pages |-> SetToSortSeq(pages, <), locator |-> locator,
         regions |-> SubSeq(regions, 1, Min({MaxRegions, Len(regions)})),
         extents |-> ChunkRegions(regions), truncated |-> Len(regions) > MaxRegions,
         status |-> IF regions # <<>> \/ locator # {} \/ pages # {} THEN "available" ELSE "unavailable"]

(***************************************************************************)
(* Properties of results                                                   *)
(***************************************************************************)
\* No finite box that reaches into the image is lost, none reaches out of it, and their
\* ids follow the page from top to bottom.
LayoutTruthful(g, regions) ==
    regions # Unusable =>
        /\ \A i \in DOMAIN g.boxes : g.boxes[i].finite /\ Wide(OnImage(g, g.boxes[i]).box) =>
              \E r \in ToSet(regions) : r.box = OnImage(g, g.boxes[i]).box /\ r.label = g.boxes[i].label
        /\ \A i \in DOMAIN regions :
              /\ regions[i].id = i - 1 /\ Wide(regions[i].box)
              /\ Inside(regions[i].box, <<0, 0, g.width, g.height>>)
              /\ i > 1 => regions[i - 1].box[2] <= regions[i].box[2]

\* Every word outside of tables is in one line, inside its box, once; a span is where
\* the word stands in the text of the line; and no line goes over a gap.
LinesTruthful(g, lines) ==
    LET spans == FlattenSeq([l \in DOMAIN lines |-> lines[l].spans]) IN
    /\ \A w \in ToSet(g.words) :
          Cardinality({n \in DOMAIN spans : spans[n].word = w})
            = IF \E t \in ToSet(g.tables) : Holds(t, w) THEN 0
              ELSE Cardinality({n \in DOMAIN g.words : g.words[n] = w})
    /\ \A l \in DOMAIN lines :
          /\ \A s \in ToSet(lines[l].spans) :
                /\ SubSeq(lines[l].text, s.from + 1, s.to) = s.word.text
                /\ Inside(s.word.box, lines[l].box)
                /\ s.layout # 0 => Holds(g.regions[s.layout], s.word)
          /\ \A n \in 2..Len(lines[l].spans) :
                lines[l].spans[n].word.box[1] - lines[l].spans[n - 1].word.box[3] <= WordGap

Pixels(box) == (box[1]..(box[3] - 1)) \X (box[2]..(box[4] - 1))
Moved(box, by) == <<box[1] + by[1], box[2] + by[2], box[3] + by[1], box[4] + by[2]>>

\* Where a box of the page stands in its bitmap, which is of the page's box alone.
OnPage(page, box) == Outwards(From(box, page.box), page.scale)

\* Of a picture is cut only what it covers; no pixel that a table reaches is left, and
\* none is made white but those and the next ones.
PictureCut(g, cut) ==
    LET picture == Pixels(cut.box)
        white == UNION {Drawn(Moved(w, cut.box)) : w \in cut.white}
        tables == {OnPage(g.page, t) : t \in ToSet(g.tables)}
    IN  /\ Inside(cut.box, OnPage(g.page, g.box))
        /\ picture \cap UNION {Pixels(t) : t \in tables} \subseteq white
        /\ picture \cap white \subseteq UNION {Drawn(t) : t \in tables}

BeginsAtOrigin(page) == page.box[1] = 0 /\ page.box[2] = 0

\* A region is cut whole, and no further than the next pixel.  A picture is cut where it
\* stands on a page that begins at 0; PicturesCutWhereTheyStand (Passages) is about any.
CutsTruthful(g, cuts) ==
    cuts # Unusable =>
        /\ LET shown == Meet(g.box, g.page.box)
               all == Bitmap(g.page)
               side(n, k) == n * (IF k \in {1, 3} THEN WidthOf(g.page.box) ELSE HeightOf(g.page.box))
               exact(k) == From(shown, g.page.box)[k] * all[IF k \in {1, 3} THEN 3 ELSE 4]
           IN  Wide(shown) =>
                 /\ \A k \in 1..2 : exact(k) \in side(cuts.region[k], k)..(side(cuts.region[k] + 1, k) - 1)
                 /\ \A k \in 3..4 : exact(k) \in (side(cuts.region[k] - 1, k) + 1)..side(cuts.region[k], k)
        /\ BeginsAtOrigin(g.page) => PictureCut(g, cuts.picture)

\* What a citation shows is on its page and has its page listed; the extent of a page
\* holds all the passage has there and no more, also what is left out of the regions;
\* nothing is shown of what has no place, and that anything is left out is said.
ProvenanceTruthful(meta, made) ==
    LET all == RegionsOf(meta)
        reach(e, r) == /\ e.box[1] <= r.box[1] /\ e.box[2] <= r.box[2]
                       /\ Min({PageParts, Right(r)}) <= Right(e) /\ Min({PageParts, Bottom(r)}) <= Bottom(e)
    IN  /\ \A r \in ToSet(made.regions) :
              /\ r.box[1] \in 0..PageParts /\ r.box[2] \in 0..PageParts /\ r.box[3] \in 0..PageParts /\ r.box[4] \in 0..PageParts
              /\ Right(r) <= PageParts /\ Bottom(r) <= PageParts
        /\ \A r \in ToSet(all) : \E e \in ToSet(made.extents) : e.page = r.page /\ reach(e, r)
        /\ \A e \in ToSet(made.extents) :
              /\ Inside(<<e.box[1], e.box[2], Right(e), Bottom(e)>>, <<0, 0, PageParts, PageParts>>)
              /\ \E r \in ToSet(all) : r.page = e.page /\ r.box[1] = e.box[1]
              /\ \E r \in ToSet(all) : r.page = e.page /\ Min({PageParts, Right(r)}) = Right(e)
        /\ made.truncated <=> ToSet(all) # ToSet(made.regions)
        /\ made.regions # <<>> => made.status = "available"
        /\ meta.own.page # 0 => Contains(made.pages, meta.own.page)
================================================================================
