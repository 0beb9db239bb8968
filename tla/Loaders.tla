-------------------------------- MODULE Loaders --------------------------------
(***************************************************************************)
(* What the loaders of app/ingest/pipeline make of a file:                 *)
(*   loaders/pdf.py, docx_loader.py, excel.py, image.py, table.py,         *)
(*   text.py, markdown.py and their dispatch                               *)
(*   blocks.py    the splitter of marked-up text                           *)
(*   safety.py    the limits of archives and pictures                      *)
(*                                                                         *)
(* A file is a record of what the format libraries find in it.  A loader   *)
(* is the sequence of its steps: an element is emitted, an omission is     *)
(* recorded, the vision model or the layout model is asked, or the file    *)
(* is refused.  Every step names the items of the file it accounts for,    *)
(* so that an item no step accounts for is one the loader lost.  Items are *)
(* all there is in a file; PassedOver is what a loader loses of them       *)
(* without a word.  Geometry is exact, on a small grid.  Wording, styles   *)
(* and cell values are left out.                                           *)
(***************************************************************************)
EXTENDS Lists, TLC

CONSTANTS
    MaxPages,      \* settings.max_pdf_pages, also the limit of image frames
    MaxSheets,     \* settings.max_workbook_sheets
    MaxRows,       \* settings.max_table_rows
    MaxCells,      \* settings.max_workbook_cells
    MaxEntries,    \* settings.max_zip_entries
    MaxExpanded,   \* settings.max_zip_expanded_bytes
    MaxRatio,      \* settings.max_zip_expansion_ratio
    MinChars,      \* MIN_CHARS_SCANNED
    MinSide,       \* MIN_IMAGE_SIDE_PX / RENDER_SCALE
    Width,         \* page width on the grid
    RowGap         \* the 3 points within which two tops are one row

ASSUME LoadersAssumption ==
    {MaxPages, MaxSheets, MaxRows, MaxCells, MaxEntries, MaxExpanded, MaxRatio,
     MinChars, MinSide, Width, RowGap} \subseteq Nat

(***************************************************************************)
(* Steps.  of: the items accounted for; box, top and left: where the       *)
(* element stands on its page; image: the picture sent to a model;         *)
(* how: what an empty answer of it leads to; at: the lines of the file.    *)
(***************************************************************************)
Step(op, items) ==
    [op |-> op, of |-> items, box |-> <<0, 0, Width, 0>>, top |-> 0, left |-> 0,
     image |-> <<>>, how |-> "none", at |-> <<>>]
At(step, box) == [step EXCEPT !.box = box, !.top = box[2], !.left = box[1]]
Emit(items, box) == At(Step("emit", items), box)
Omit(items) == Step("omit", items)
See(items, image, how) == [Step("see", items) EXCEPT !.image = image, !.how = how]
Refuse == <<Step("raise", {})>>

(***************************************************************************)
(* Limits.                                                                 *)
(***************************************************************************)
ArchiveAllowed(entries) ==
    LET total == FoldLeft(LAMBDA n, e : n + e.size, 0, entries)
    IN  /\ Len(entries) <= MaxEntries
        /\ total <= MaxExpanded
        /\ \A i \in 1..Len(entries) :
              /\ ~entries[i].encrypted
              /\ entries[i].size <= (IF entries[i].packed > 1 THEN entries[i].packed ELSE 1) * MaxRatio
              /\ entries[i].actual <= entries[i].size

(***************************************************************************)
(* Geometry.  A box is <<x0, top, x1, bottom>>.                            *)
(***************************************************************************)
Least(a, b) == IF a < b THEN a ELSE b
Greatest(a, b) == IF a > b THEN a ELSE b
Area(b) == (b[3] - b[1]) * (b[4] - b[2])

Overlap(a, b) ==
    Greatest(0, Least(a[3], b[3]) - Greatest(a[1], b[1]))
      * Greatest(0, Least(a[4], b[4]) - Greatest(a[2], b[2]))

\* At least percent of a lies in the boxes; an overlap of two of them counts twice.
CoveredBy(a, boxes, percent) ==
    /\ Area(a) > 0
    /\ LET covered[n \in 0..Len(boxes)] == IF n = 0 THEN 0 ELSE covered[n - 1] + Overlap(a, boxes[n])
       IN  100 * covered[Len(boxes)] >= percent * Area(a)

PointInBox(a, b) ==
    /\ 2 * b[1] <= a[1] + a[3] /\ a[1] + a[3] <= 2 * b[3]
    /\ 2 * b[2] <= a[2] + a[4] /\ a[2] + a[4] <= 2 * b[4]

ImageIsReadable(b) == b[3] - b[1] >= MinSide /\ b[4] - b[2] >= MinSide

\* A picture under most of the page whose native text lies on it.
ImageBacksNativeText(page, b) ==
    /\ 2 * Overlap(b, <<0, 0, Width, page.height>>) >= Width * page.height
    /\ page.lines # <<>>
    /\ 10 * Cardinality({i \in 1..Len(page.lines) : PointInBox(page.lines[i], b)})
          >= 9 * Len(page.lines)

NativeTextStatus(page) ==
    IF page.suspicious >= Greatest(2, (page.chars + 9) \div 10) \/ page.cids >= 2 THEN "corrupt"
    ELSE IF page.chars < MinChars THEN "sparse" ELSE "usable"

(***************************************************************************)
(* Reading order of the elements of a page: an order of their indices.     *)
(***************************************************************************)
Before(a, b) == a.top < b.top \/ (a.top = b.top /\ a.left < b.left)

\* Elements of one position stay in the order they came in.
Sooner(els) ==
    {p \in (1..Len(els)) \X (1..Len(els)) :
        \/ Before(els[p[1]], els[p[2]])
        \/ ~Before(els[p[2]], els[p[1]]) /\ p[1] < p[2]}

\* Rows of elements whose tops are close to the first of the row, left to right.
RowOrder(els, band) ==
    LET sorted == Arranged(band, Sooner(els))
        places == 1..Len(sorted)
        first[k \in places] ==
            IF k = 1 THEN 1
            ELSE IF els[sorted[k]].top - els[sorted[first[k - 1]]].top > RowGap THEN k ELSE first[k - 1]
        left(k) == els[sorted[k]].left
        along == {p \in places \X places :
                    \/ first[p[1]] < first[p[2]]
                    \/ /\ first[p[1]] = first[p[2]]
                       /\ left(p[1]) < left(p[2]) \/ (left(p[1]) = left(p[2]) /\ p[1] < p[2])}
        order == Arranged(places, along)
    IN  [k \in places |-> sorted[order[k]]]

IsLeft(e) == 2 * e.box[3] < Width
IsRight(e) == 2 * e.box[1] > Width

\* Two columns are read one after the other between the elements that span both;
\* labels: short aligned labels around full-width prose are rows, not columns.
ReadingOrder(els, labels) ==
    LET all == 1..Len(els)
        left == {i \in all : IsLeft(els[i])}
        right == {i \in all : IsRight(els[i])}
        dividers == Arranged(all \ (left \cup right), Sooner(els))
        above(n) == {i \in left \cup right : n <= Len(dividers) => els[i].top < els[dividers[n]].top}
        band(n) == above(n) \ UNION {above(m) : m \in 1..(n - 1)}
        order_band(b) ==
            IF labels THEN RowOrder(els, b)
            ELSE RowOrder(els, b \cap left) \o RowOrder(els, b \cap right)
        order == IF Cardinality(left) < 2 \/ Cardinality(right) < 2 THEN RowOrder(els, all)
                 ELSE Each(dividers, LAMBDA d, n : order_band(band(n)) \o <<d>>)
                        \o order_band(band(Len(dividers) + 1))
    IN  [k \in 1..Len(order) |-> els[order[k]]]

(***************************************************************************)
(* PDF.  A page: height, chars, suspicious, cids (of its native text),     *)
(* lines (boxes of native lines), found (table detection works), tables    *)
(* ([box, got]), images (boxes), figures and regions (boxes of the layout  *)
(* model), graphics, cropped (crops of it work), labels.                   *)
(***************************************************************************)
TableBoxes(page) ==
    Each(page.tables, LAMBDA t, i : IF page.found /\ t.got = "rows" THEN <<t.box>> ELSE <<>>)

\* Lines whose centre lies in a table are part of the table.
InTable(page, line) == \E i \in 1..Len(TableBoxes(page)) : PointInBox(line, TableBoxes(page)[i])

Backing(page) ==
    {i \in 1..Len(page.images) :
        /\ NativeTextStatus(page) = "usable"
        /\ ImageBacksNativeText(page, page.images[i])}
InTables(page) == {i \in 1..Len(page.images) : CoveredBy(page.images[i], TableBoxes(page), 95)}
InFigures(page) == {i \in 1..Len(page.images) : CoveredBy(page.images[i], page.figures, 90)}

PageItems(p, page) ==
    (IF page.found THEN {<<p, "table", i>> : i \in {j \in 1..Len(page.tables) :
                                                      page.tables[j].got # "empty"}}
     ELSE {<<p, "tables", 0>>})
      \cup {<<p, "line", i>> : i \in 1..Len(page.lines)}
      \cup {<<p, "image", i>> : i \in 1..Len(page.images)}
      \cup {<<p, "figure", i>> : i \in 1..Len(page.figures)}
      \cup (IF page.graphics THEN {<<p, "graphics", 0>>} ELSE {})

\* A failure of one table is an omission and leaves the others and the text.
TableSteps(p, page) ==
    IF ~page.found THEN <<Omit({<<p, "tables", 0>>})>>
    ELSE Each(page.tables, LAMBDA t, i :
           IF t.got = "rows"
           THEN <<Emit({<<p, "table", i>>}
                         \cup {<<p, "line", l>> : l \in {k \in 1..Len(page.lines) :
                                                           PointInBox(page.lines[k], t.box)}}
                         \cup {<<p, "image", k>> : k \in InTables(page) \cup Backing(page)}, t.box)>>
           ELSE IF t.got = "error" THEN <<Omit({<<p, "table", i>>})>> ELSE <<>>)

NeedsFullPage(page) ==
    \/ NativeTextStatus(page) = "corrupt"
    \/ /\ NativeTextStatus(page) = "sparse"
       /\ page.images # <<>> \/ page.graphics
       /\ TableBoxes(page) = <<>>

\* What is drawn on a page with tables is taken for their lines.
PagePassedOver(p, page) ==
    IF page.graphics /\ TableBoxes(page) # <<>> /\ ~NeedsFullPage(page) THEN {<<p, "graphics", 0>>} ELSE {}

\* The regions of the layout, then the whole page: only the latter is kept.
FullPageSteps(p, page) ==
    Each(page.regions, LAMBDA r, i : <<See({}, <<p, "region", i>>, "skip")>>)
      \o <<See(PageItems(p, page), <<p, "page", 0>>, "raise")>>

GraphicsSteps(p, page) ==
    IF NativeTextStatus(page) = "usable" /\ page.graphics /\ TableBoxes(page) = <<>>
    THEN <<Omit({<<p, "graphics", 0>>})>> ELSE <<>>

NativeWordRegions(p, page) ==
    Each(page.lines, LAMBDA line, i :
       IF InTable(page, line) THEN <<>>
       ELSE <<Emit({<<p, "line", i>>} \cup {<<p, "image", k>> : k \in Backing(page)}, line)>>)

FigureSteps(p, page) ==
    Each(page.figures, LAMBDA box, i :
       <<At(See({<<p, "figure", i>>} \cup {<<p, "image", k>> : k \in InFigures(page)},
                <<p, "figure", i>>, "omit"), box)>>)

\* Defect: a picture too small to read leaves no trace.
UnreadableForgotten(p, i, box) == <<>>

UnreadableImage(p, i, box) ==
    <<[Omit({<<p, "image", i>>}) EXCEPT !.top = box[2], !.left = box[1]]>>

\* The page was rendered before with the same limit, so rendering it again works.
ImageSteps(p, page) ==
    Each(page.images, LAMBDA box, i :
       IF i \in InFigures(page) THEN <<>>
       ELSE IF ~ImageIsReadable(box) THEN UnreadableImage(p, i, box)
       ELSE IF i \in Backing(page) \cup InTables(page) THEN <<>>
       ELSE IF ~page.cropped THEN <<At(Omit({<<p, "image", i>>}), box)>>
       ELSE <<At(See({<<p, "image", i>>}, <<p, "image", i>>, "omit"), box)>>)

\* A page is rendered, its layout is asked for, and its elements are put in order.
PageSteps(page, p) ==
    IF page.huge THEN Refuse
    ELSE <<[Step("layout", {}) EXCEPT !.image = <<p, "layout", 0>>]>>
           \o (IF NeedsFullPage(page) THEN FullPageSteps(p, page)
               ELSE TableSteps(p, page) \o GraphicsSteps(p, page) \o NativeWordRegions(p, page)
                      \o FigureSteps(p, page) \o ImageSteps(p, page))
           \o <<[Step("page", {}) EXCEPT !.how = IF page.labels THEN "rows" ELSE "columns"]>>

PdfSteps(file) == IF Len(file.pages) > MaxPages THEN Refuse ELSE Each(file.pages, PageSteps)

(***************************************************************************)
(* Headings.  A stack of [level, at]; a heading closes those of its level  *)
(* and below.                                                              *)
(***************************************************************************)
Under(stack, heading) ==
    Append(Each(stack, LAMBDA h, i : IF h.level < heading.level THEN <<h>> ELSE <<>>), heading)

\* The path shown is the first heading and the last three.
ShownPath(stack) ==
    IF Len(stack) <= 4 THEN stack
    ELSE <<stack[1]>> \o SubSeq(stack, Len(stack) - 2, Len(stack))

(***************************************************************************)
(* Marked-up text.  A line: [kind, level, cols]; kind is "blank", "prose", *)
(* "heading", "fence", "pipe" (a row with |), "rule" (| ---) or "tab".     *)
(* The splitter walks the lines with a heading stack and the prose it has  *)
(* gathered; flush makes the prose an element.                             *)
(***************************************************************************)
NotBlank(lines, at) == {i \in at : lines[i].kind # "blank"}

\* The last line of the run from i of the lines that are in those.
RunEnd(lines, i, those) ==
    LET stops == (i..Len(lines)) \ those
    IN  IF stops = {} THEN Len(lines) ELSE Min(stops) - 1

Block(route, lines, from, to, stack) ==
    [route |-> route, from |-> from, to |-> to,
     of |-> NotBlank(lines, from..to)
              \cup (IF route = "table" /\ stack # <<>> THEN {Last(stack).at} ELSE {}),
     path |-> ShownPath(stack)]

Flush(lines, st) ==
    LET prose == NotBlank(lines, st.start..(st.i - 1))
    IN  IF prose = {} THEN st.els
        ELSE Append(st.els, Block("prose", lines, st.start, st.i - 1, st.stack))

\* A code block ends with the next fence, or with the text.
FenceEnd(lines, i) ==
    Least(RunEnd(lines, i + 1, {j \in 1..Len(lines) : lines[j].kind # "fence"}) + 1, Len(lines))

PipeTable(lines, i) ==
    /\ lines[i].kind \in {"pipe", "rule"}
    /\ i < Len(lines) /\ lines[i + 1].kind = "rule"

TabTable(lines, i) ==
    /\ i + 2 <= Len(lines)
    /\ \A j \in i..(i + 2) : lines[j].kind = "tab" /\ lines[j].cols = lines[i].cols

\* A table takes the lines from i to end, after the prose before it.
TakeBlock(lines, st, route, end) ==
    [els |-> Append(Flush(lines, st), Block(route, lines, st.i, end, st.stack)),
     i |-> end + 1, start |-> end + 1, stack |-> st.stack]

SplitFrom(lines, st) ==
    IF lines[st.i].kind = "fence" THEN TakeBlock(lines, st, "code", FenceEnd(lines, st.i))
    ELSE IF PipeTable(lines, st.i)
    THEN TakeBlock(lines, st, "table",
                   RunEnd(lines, st.i + 2, {j \in 1..Len(lines) : lines[j].kind \in {"pipe", "rule"}}))
    ELSE IF TabTable(lines, st.i)
    THEN TakeBlock(lines, st, "table",
                   RunEnd(lines, st.i, {j \in 1..Len(lines) :
                                     lines[j].kind = "tab" /\ lines[j].cols = lines[st.i].cols}))
    ELSE IF lines[st.i].kind = "heading"
    THEN [els |-> Flush(lines, st), i |-> st.i + 1, start |-> st.i,
          stack |-> Under(st.stack, [level |-> lines[st.i].level, at |-> st.i])]
    ELSE [st EXCEPT !.i = st.i + 1]

\* Every step takes a line or more, so that as many steps as lines are enough.
SplitRest(lines) ==
    LET walk[n \in 0..Len(lines)] ==
            IF n = 0 THEN [els |-> <<>>, i |-> 1, start |-> 1, stack |-> <<>>]
            ELSE LET st == walk[n - 1] IN IF st.i > Len(lines) THEN st ELSE SplitFrom(lines, st)
    IN  walk[Len(lines)]

\* A heading alone is dropped when the table after it carries it as its caption.
DropRedundantHeadings(lines, els) ==
    LET redundant(i) ==
            /\ els[i].route = "prose" /\ i < Len(els) /\ els[i + 1].route = "table"
            /\ \E h \in els[i].of : els[i].of = {h} /\ lines[h].kind = "heading"
                                     /\ h \in els[i + 1].of
    IN  Each(els, LAMBDA b, i : IF redundant(i) THEN <<>> ELSE <<b>>)

SplitBlocks(lines) == DropRedundantHeadings(lines, Flush(lines, SplitRest(lines)))

TextSteps(file) ==
    LET els == SplitBlocks(file.lines)
    IN  [k \in 1..Len(els) |->
           [Step("emit", {<<1, "line", i>> : i \in els[k].of}) EXCEPT !.at = <<els[k].from, els[k].to>>]]
TextItems(file) == {<<1, "line", i>> : i \in NotBlank(file.lines, 1..Len(file.lines))}

(***************************************************************************)
(* DOCX.  The body is a sequence of [kind, text, link, pics, boxes]: kind  *)
(* "p", "tbl" or "other" (content controls, which the loader passes over); *)
(* text: there is any in the runs, link: in hyperlinks; pics: pictures,    *)
(* that can be read or not and stand in a run of the paragraph (direct) or *)
(* deeper; boxes: how many text boxes and embedded objects.  parts:        *)
(* [linked, name, text, picture] of headers and footers.                   *)
(***************************************************************************)
\* An unreadable picture, or one the model finds nothing in, is an omission.
PictureStep(b, i, readable) ==
    IF readable THEN See({<<b, "image", i>>}, <<b, "image", i>>, "omit") ELSE Omit({<<b, "image", i>>})

PictureSteps(b, pics) == Each(pics, LAMBDA readable, i : <<PictureStep(b, i, readable)>>)

\* A paragraph with a picture is read run by run, which leaves out its hyperlinks.
ByRuns(item) == item.kind = "p" /\ item.pics # <<>>

BodyText(item, b) ==
    {<<b, part, 0>> : part \in (IF item.text THEN {"text"} ELSE {})
                                 \cup (IF item.link /\ ~ByRuns(item) THEN {"link"} ELSE {})}

BodySteps(item, b) ==
    (IF item.kind # "other" /\ BodyText(item, b) # {} THEN <<Step("emit", BodyText(item, b))>> ELSE <<>>)
      \o Each(item.pics, LAMBDA pic, i :
               IF item.kind = "tbl" \/ (item.kind = "p" /\ pic.direct) THEN <<PictureStep(b, i, pic.readable)>>
               ELSE <<>>)
      \o [i \in 1..item.boxes |-> Omit({<<b, "object", i>>})]

BodyItems(item, b) ==
    {<<b, part, 0>> : part \in (IF item.text THEN {"text"} ELSE {}) \cup (IF item.link THEN {"link"} ELSE {})}
      \cup {<<b, "image", i>> : i \in 1..Len(item.pics)}
      \cup {<<b, "object", i>> : i \in 1..item.boxes}

BodyPassedOver(item, b) ==
    IF item.kind = "other" THEN {x \in BodyItems(item, b) : x[2] # "object"}
    ELSE IF ByRuns(item) THEN {<<b, "link", 0>>} \cup {<<b, "image", i>> : i \in {j \in 1..Len(item.pics) : ~item.pics[j].direct}}
    ELSE {}

\* Headers and footers of their own are recorded, once each, never extracted.
PartSteps(parts) ==
    Each(parts, LAMBDA part, i :
       IF part.linked \/ (\E j \in 1..(i - 1) : ~parts[j].linked /\ parts[j].name = part.name) \/ ~part.text
       THEN <<>> ELSE <<Omit({<<0, part.name, 0>>})>>)

DocxSteps(file) == Each(file.body, BodySteps) \o PartSteps(file.parts)

\* A header or footer with a picture alone is not recorded.
PicturesAlone(parts) ==
    {<<0, parts[i].name, 1>> : i \in {j \in 1..Len(parts) : ~parts[j].linked /\ ~parts[j].text /\ parts[j].picture}}

DocxItems(file) ==
    (UNION {BodyItems(file.body[b], b) : b \in 1..Len(file.body)})
      \cup {<<0, file.parts[i].name, 0>> : i \in {j \in 1..Len(file.parts) : ~file.parts[j].linked /\ file.parts[j].text}}
      \cup PicturesAlone(file.parts)

DocxPassedOver(file) ==
    (UNION {BodyPassedOver(file.body[b], b) : b \in 1..Len(file.body)}) \cup PicturesAlone(file.parts)

(***************************************************************************)
(* Workbooks.  A sheet: rows, cols, filled (some cell is), odd (a number   *)
(* format is not supported), charts (how many), pics.                      *)
(***************************************************************************)
\* Cells are counted over all sheets so far, before the sheet is read.
WithinWorkbook(sheets) ==
    /\ Len(sheets) <= MaxSheets
    /\ \A i \in 1..Len(sheets) : sheets[i].rows <= MaxRows
    /\ FoldLeft(LAMBDA n, s : n + s.rows * s.cols, 0, sheets) <= MaxCells

SheetSteps(sheet, s) ==
    (IF sheet.filled THEN <<Step("emit", {<<s, "cells", 0>>})>> ELSE <<>>)
      \o (IF sheet.odd THEN <<Omit({<<s, "formats", 0>>})>> ELSE <<>>)
      \o [i \in 1..sheet.charts |-> Omit({<<s, "chart", i>>})]
      \o PictureSteps(s, sheet.pics)

\* .xls: formulas and display are never verified, which every sheet records.
LegacySheetSteps(sheet, s) ==
    IF sheet.rows = 0 THEN <<>>
    ELSE <<Step("emit", {<<s, "cells", 0>>}), Omit({<<s, "formats", 0>>})>>

WorkbookSteps(file) ==
    IF ~WithinWorkbook(file.sheets) THEN Refuse
    ELSE IF file.legacy THEN Each(file.sheets, LegacySheetSteps) ELSE Each(file.sheets, SheetSteps)

WorkbookItems(file) ==
    UNION {(IF file.sheets[s].filled THEN {<<s, "cells", 0>>} ELSE {})
             \cup (IF file.sheets[s].odd THEN {<<s, "formats", 0>>} ELSE {})
             \cup {<<s, "chart", i>> : i \in 1..file.sheets[s].charts}
             \cup {<<s, "image", i>> : i \in 1..Len(file.sheets[s].pics)}
             : s \in 1..Len(file.sheets)}

\* Of .xls only cells are read.
WorkbookPassedOver(file) ==
    IF ~file.legacy THEN {}
    ELSE {x \in WorkbookItems(file) : x[2] \in {"chart", "image"}}

(***************************************************************************)
(* Pictures: every frame is shown whole, after the regions of its layout.  *)
(***************************************************************************)
FrameSteps(frame, f) ==
    IF frame.huge THEN Refuse
    ELSE <<[Step("layout", {}) EXCEPT !.image = <<f, "layout", 0>>]>>
           \o [i \in 1..frame.regions |-> See({}, <<f, "region", i>>, "skip")]
           \o <<See({<<f, "frame", 0>>}, <<f, "frame", 0>>, "raise")>>

ImageFileSteps(file) == IF Len(file.frames) > MaxPages THEN Refuse ELSE Each(file.frames, FrameSteps)

(***************************************************************************)
(* CSV and HTML.  A node of the tree, in document order: tag "hidden",     *)
(* "visual" (with alt text or not), "table", "heading", "block" or         *)
(* "inline"; text: it has any; inner: how many pictures or captions stand  *)
(* inside a paragraph, a heading or a table, beside the text that is taken *)
(* of it.                                                                  *)
(***************************************************************************)
CsvSteps(file) ==
    IF file.rows > MaxRows \/ file.malformed THEN Refuse
    ELSE IF file.columns = 0 THEN <<>> ELSE <<Step("emit", {<<1, "rows", 0>>})>>

HtmlSteps(file) ==
    Each(file.nodes, LAMBDA node, i :
       CASE node.tag = "hidden" -> <<>>
         [] node.tag = "visual" ->
              <<Omit({<<i, "visual", 0>>})>>
                \o IF node.text THEN <<Step("emit", {<<i, "text", 0>>})>> ELSE <<>>
         [] OTHER -> IF node.text THEN <<Step("emit", {<<i, "text", 0>>})>> ELSE <<>>)

HtmlItems(file) ==
    {<<i, "visual", 0>> : i \in {j \in 1..Len(file.nodes) : file.nodes[j].tag = "visual"}}
      \cup {<<i, "text", 0>> : i \in {j \in 1..Len(file.nodes) :
                                     file.nodes[j].tag # "hidden" /\ file.nodes[j].text}}
      \cup UNION {{<<i, "inner", k>> : k \in 1..file.nodes[i].inner} :
                     i \in {j \in 1..Len(file.nodes) : file.nodes[j].tag \in {"table", "heading", "block"}}}

HtmlPassedOver(file) == {x \in HtmlItems(file) : x[2] = "inner"}

(***************************************************************************)
(* What the format libraries find in a file.  A name is the name of one    *)
(* part of a package, and a sheet with anything in it has rows.            *)
(***************************************************************************)
Boxes == Int \X Int \X Int \X Int

PdfPages ==
    [height : Nat, chars : Nat, suspicious : Nat, cids : Nat, found : BOOLEAN, graphics : BOOLEAN,
     cropped : BOOLEAN, labels : BOOLEAN, huge : BOOLEAN, lines : Seq(Boxes), images : Seq(Boxes),
     figures : Seq(Boxes), regions : Seq(Boxes),
     tables : Seq([box : Boxes, got : {"rows", "empty", "error"}])]

TextLines ==
    [kind : {"blank", "prose", "heading", "fence", "pipe", "rule", "tab"}, level : Nat, cols : Nat]

BodyChildren ==
    [kind : {"p", "tbl", "other"}, text : BOOLEAN, link : BOOLEAN,
     pics : Seq([readable : BOOLEAN, direct : BOOLEAN]), boxes : Nat]

NamedParts ==
    {parts \in Seq([linked : BOOLEAN, name : STRING, text : BOOLEAN, picture : BOOLEAN]) :
        \A i, j \in 1..Len(parts) : parts[i].name = parts[j].name /\ parts[i].linked = parts[j].linked
                                       => parts[i].text = parts[j].text}

FilledSheets ==
    {sheet \in [rows : Nat, cols : Nat, filled : BOOLEAN, odd : BOOLEAN, charts : Nat, pics : Seq(BOOLEAN)] :
        sheet.filled \/ sheet.odd => sheet.rows > 0}

WellFormed(file) ==
    /\ file.kind = "pdf" => file.pages \in Seq(PdfPages)
    /\ file.kind \in {"md", "txt", "rtf"} => file.lines \in Seq(TextLines)
    /\ file.kind = "docx" => file.body \in Seq(BodyChildren) /\ file.parts \in NamedParts
    /\ file.kind \in {"xlsx", "xls"} => file.sheets \in Seq(FilledSheets) /\ file.legacy \in BOOLEAN
    /\ file.kind = "image" => file.frames \in Seq([huge : BOOLEAN, regions : Nat])
    /\ file.kind = "html" => file.nodes \in Seq([tag : {"hidden", "visual", "table", "heading", "block", "inline"},
                                                 text : BOOLEAN, inner : Nat])

(***************************************************************************)
(* The dispatch by extension.                                              *)
(***************************************************************************)
Steps(file) ==
    CASE file.kind = "pdf" -> PdfSteps(file)
      [] file.kind \in {"md", "txt", "rtf"} -> TextSteps(file)
      [] file.kind = "docx" -> IF ArchiveAllowed(file.entries) THEN DocxSteps(file) ELSE Refuse
      [] file.kind = "xlsx" -> IF ArchiveAllowed(file.entries) THEN WorkbookSteps(file) ELSE Refuse
      [] file.kind = "xls" -> WorkbookSteps(file)
      [] file.kind = "image" -> ImageFileSteps(file)
      [] file.kind = "csv" -> CsvSteps(file)
      [] file.kind = "html" -> HtmlSteps(file)
      [] OTHER -> Refuse

\* All there is in a file.
Items(file) ==
    CASE file.kind = "pdf" -> UNION {PageItems(p, file.pages[p]) : p \in 1..Len(file.pages)}
      [] file.kind \in {"md", "txt", "rtf"} -> TextItems(file)
      [] file.kind = "docx" -> DocxItems(file)
      [] file.kind \in {"xlsx", "xls"} -> WorkbookItems(file)
      [] file.kind = "image" -> {<<f, "frame", 0>> : f \in 1..Len(file.frames)}
      [] file.kind = "csv" -> IF file.columns = 0 THEN {} ELSE {<<1, "rows", 0>>}
      [] file.kind = "html" -> HtmlItems(file)
      [] OTHER -> {}

\* What of it the extraction neither has nor says it leaves out.
PassedOver(file) ==
    CASE file.kind = "pdf" -> UNION {PagePassedOver(p, file.pages[p]) : p \in 1..Len(file.pages)}
      [] file.kind = "docx" -> DocxPassedOver(file)
      [] file.kind \in {"xlsx", "xls"} -> WorkbookPassedOver(file)
      [] file.kind = "html" -> HtmlPassedOver(file)
      [] OTHER -> {}

\* Nothing with text was extracted of a file that is not empty: pages and plain
\* text may be blank, the other kinds are refused, and so are mere omissions.
NoEvidence(file, texts, omitted) ==
    /\ texts = 0
    /\ file.kind \notin {"pdf", "txt", "md", "rtf"} \/ omitted > 0
================================================================================
