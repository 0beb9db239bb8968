--------------------------------- MODULE Sources ---------------------------------
(***************************************************************************)
(* What a reader is shown of a stored version (app/api/ingest_routes.py):  *)
(* its bytes, whole or a range of them, its preview, one page of a PDF,    *)
(* one frame of an image.  Which version that is, is in DocumentViews.     *)
(*                                                                         *)
(* A stored file is read twice for a range, and may change in between: it  *)
(* is what it is at each of the two reads, its bytes or Gone.  A text is a *)
(* sequence of characters.                                                 *)
(***************************************************************************)
EXTENDS Integers, Sequences, FiniteSets, SequencesExt

CONSTANTS
    Gone,             \* no file
    Open,             \* the end that a range does not name
    PreviewChars,     \* the 2,000,000 characters of a preview
    PreviewBlocks,    \* its 2000 blocks
    PreviewRows,      \* settings.max_table_rows
    PreviewCells,     \* settings.max_workbook_cells
    MaxPixels         \* settings.max_image_pixels

ASSUME SourcesAssumption == {PreviewChars, PreviewBlocks} \subseteq Nat \ {0}

\* Between cells, rows, and blocks or sheets.
TabSign == <<"tab">>
LineSign == <<"line">>
BlankLine == <<"blank">>

Refused(code) == [status |-> code]
Lower(a, b) == IF a < b THEN a ELSE b
Higher(a, b) == IF a > b THEN a ELSE b

\* The hash a file is named by is that of the version's content.
Get(now, content) == IF now = content THEN now ELSE Gone

GetRange(now, from, to) ==
    IF now = Gone \/ to >= Len(now) THEN Gone ELSE SubSeq(now, from + 1, to + 1)

(***************************************************************************)
(* Bytes                                                                   *)
(***************************************************************************)
\* A header asks for nothing in particular, for a range [first, last], or for
\* something that is not one range.
\* _byte_range: the first and the last byte of a reply, counted from 0, or an error.
ByteRange(header, size) ==
    IF header.asks = "nothing" THEN {}
    ELSE IF header.asks = "other" \/ size = 0 THEN {Refused(416)}
    ELSE IF header.first = Open
    THEN IF header.last \in {Open, 0} THEN {Refused(416)}
         ELSE {[status |-> 206, from |-> Higher(0, size - header.last), to |-> size - 1]}
    ELSE LET end == IF header.last = Open THEN size - 1 ELSE Lower(header.last, size - 1)
         IN  IF header.first >= size \/ end < header.first THEN {Refused(416)}
             ELSE {[status |-> 206, from |-> header.first, to |-> end]}

\* _source_response.  Only a whole file is compared with the hash of the version.
SourceResponse(g) ==
    IF g.before = Gone THEN Refused(404)
    ELSE LET selected == ByteRange(g.header, Len(g.before)) IN
         IF selected = {}
         THEN LET data == Get(g.after, g.content)
              IN  IF data = Gone THEN Refused(404) ELSE [status |-> 200, data |-> data]
         ELSE LET range == CHOOSE r \in selected : TRUE IN
              IF range.status # 206 THEN range
              ELSE LET data == GetRange(g.after, range.from, range.to)
                   IN  IF data = Gone THEN Refused(404)
                       ELSE [status |-> 206, data |-> data, from |-> range.from, to |-> range.to,
                             of |-> Len(g.before)]

(***************************************************************************)
(* Preview                                                                 *)
(***************************************************************************)
Joint(parts, separator) ==
    IF parts = <<>> THEN <<>> ELSE FoldLeft(LAMBDA t, part : t \o <<separator>> \o part, Head(parts), Tail(parts))

RowText(row) == Joint(row, TabSign)
RowsText(rows) == Joint([r \in DOMAIN rows |-> RowText(rows[r])], LineSign)

\* A child of a document's body: a paragraph, a table, or something else, which is
\* passed over.
ChildText(child) ==
    IF child.tag = "p" THEN child.text ELSE IF child.tag = "tbl" THEN RowsText(child.rows) ELSE <<>>

\* The level of a style "Heading n".
BlockLevel(child) ==
    IF child.tag = "p" /\ child.heading # Open THEN Lower(6, Higher(1, child.heading)) ELSE 0

DocxBlocks(body) ==
    LET kept == SelectSeq([i \in DOMAIN body |-> i], LAMBDA i : ChildText(body[i]) # <<>>)
    IN  [n \in DOMAIN kept |-> [text |-> ChildText(body[kept[n]]), at |-> <<kept[n]>>, level |-> BlockLevel(body[kept[n]])]]

SheetBlocks(sheets) ==
    FlattenSeq([s \in DOMAIN sheets |->
        [r \in DOMAIN sheets[s].rows |-> [text |-> RowText(sheets[s].rows[r]), at |-> <<s, r>>, level |-> 0]]])

SheetText(sheet) == sheet.title \o <<LineSign>> \o RowsText(sheet.rows)

SheetTooLarge(sheet) ==
    Len(sheet.rows) > PreviewRows \/ Len(sheet.rows) * sheet.columns > PreviewCells

\* Rows are counted with the header, which is not one of the rows allowed.
CsvBlocks(rows) == [r \in DOMAIN rows |-> [text |-> RowText(rows[r]), at |-> <<r>>, level |-> 0]]

\* Of what can be parsed: its text, and the blocks it is of.
PreviewOf(document) ==
    CASE document.kind = "docx" ->
           LET blocks == DocxBlocks(document.body)
           IN  [text |-> Joint([b \in DOMAIN blocks |-> blocks[b].text], BlankLine), blocks |-> blocks]
      [] document.kind \in {"xlsx", "xls"} ->
           [text |-> Joint([s \in DOMAIN document.sheets |-> SheetText(document.sheets[s])], BlankLine),
            blocks |-> SheetBlocks(document.sheets)]
      [] document.kind = "csv" -> [text |-> RowsText(document.rows), blocks |-> CsvBlocks(document.rows)]
      [] document.kind \in {"rtf", "plain"} -> [text |-> document.text, blocks |-> <<>>]

Unpreviewable(document) ==
    \/ document.kind = "broken"
    \/ document.kind \in {"xlsx", "xls"} /\ \E s \in DOMAIN document.sheets : SheetTooLarge(document.sheets[s])
    \/ document.kind = "csv" /\ Len(document.rows) > PreviewRows + 1

\* The blocks there is room for, the last of them cut to it.
BoundedBlocks(blocks) ==
    FoldLeft(LAMBDA acc, block :
               IF acc.used >= PreviewChars \/ Len(acc.blocks) >= PreviewBlocks THEN acc
               ELSE LET text == SubSeq(block.text, 1, Lower(Len(block.text), PreviewChars - acc.used))
                    IN  [blocks |-> Append(acc.blocks, [block EXCEPT !.text = text]), used |-> acc.used + Len(text)],
             [blocks |-> <<>>, used |-> 0], blocks).blocks

\* preview_document_version
PreviewResponse(g) ==
    IF Get(g.stored, g.content) = Gone THEN Refused(404)
    ELSE IF Unpreviewable(g.content) THEN Refused(422)
    ELSE LET preview == PreviewOf(g.content)
             blocks == BoundedBlocks(preview.blocks)
         IN  [status |-> 200, text |-> SubSeq(preview.text, 1, Lower(Len(preview.text), PreviewChars)),
              truncated |-> Len(preview.text) > PreviewChars, blocks |-> blocks,
              blocksTruncated |-> Len(blocks) < Len(preview.blocks)]

(***************************************************************************)
(* Pages and frames                                                        *)
(***************************************************************************)
\* render_pdf_page: a file that is not the PDF it is named is an error of the server.
PageResponse(g) ==
    IF g.content.kind # "pdf" THEN Refused(400)
    ELSE IF Get(g.stored, g.content) = Gone THEN Refused(404)
    ELSE IF g.content.broken THEN Refused(500)
    ELSE IF g.number \notin 1..Len(g.content.pages) THEN Refused(404)
    ELSE [status |-> 200, picture |-> g.content.pages[g.number]]

\* render_image_frame: a file that is not there, and one that is no image, are alike.
FrameResponse(g) ==
    IF g.content.kind # "image" THEN Refused(400)
    ELSE IF Get(g.stored, g.content) = Gone \/ g.content.broken THEN Refused(422)
    ELSE IF g.number \notin 1..Len(g.content.pages) THEN Refused(404)
    ELSE IF g.content.pages[g.number].pixels > MaxPixels THEN Refused(413)
    ELSE [status |-> 200, picture |-> g.content.pages[g.number]]

(***************************************************************************)
(* Properties                                                              *)
(***************************************************************************)
Answers(reply) == reply.status \in {200, 206}

\* The positions a range asks for, from 0, in a file of size bytes.
AskedFor(header, size) ==
    {k \in 0..(size - 1) :
       IF header.first = Open THEN header.last # Open /\ k >= size - header.last
       ELSE k >= header.first /\ (header.last = Open \/ k <= header.last)}

\* A whole source is the content of its version.  A range is the bytes asked for of the
\* file as it was first read, where the reply says they stood, with what stands there
\* when they are read; it is refused only if it asks for none, and not found only if
\* the file was not there or no longer has them all.
RangeTruthful(g, reply) ==
    /\ reply.status = 200 => reply.data = g.content /\ g.header.asks = "nothing"
    /\ g.before = Gone => reply.status = 404
    /\ g.before # Gone /\ g.header.asks = "range" =>
         LET asked == AskedFor(g.header, Len(g.before))
         IN  IF asked = {} THEN reply.status = 416
             ELSE IF g.after = Gone \/ \E k \in asked : k >= Len(g.after) THEN reply.status = 404
             ELSE /\ reply.status = 206
                  /\ asked = reply.from..reply.to
                  /\ reply.data = [k \in 1..Cardinality(asked) |-> g.after[reply.from + k]]
                  /\ reply.of = Len(g.before)

Visibles(text) == SelectSeq(text, LAMBDA ch : ch \notin {TabSign, LineSign, BlankLine})

\* Everything a document has to show, in its order.
ContentOf(document) ==
    CASE document.kind = "docx" ->
           FlattenSeq([i \in DOMAIN document.body |->
               IF document.body[i].tag = "p" THEN document.body[i].text
               ELSE IF document.body[i].tag = "tbl" THEN FlattenSeq(FlattenSeq(document.body[i].rows)) ELSE <<>>])
      [] document.kind \in {"xlsx", "xls"} ->
           FlattenSeq([s \in DOMAIN document.sheets |->
               document.sheets[s].title \o FlattenSeq(FlattenSeq(document.sheets[s].rows))])
      [] document.kind = "csv" -> FlattenSeq(FlattenSeq(document.rows))
      [] document.kind \in {"rtf", "plain"} -> document.text

\* What stands where a block says it stood.
StandsAt(document, at) ==
    CASE document.kind = "docx" ->
           LET child == document.body[at[1]] IN IF child.tag = "p" THEN child.text ELSE FlattenSeq(FlattenSeq(child.rows))
      [] document.kind \in {"xlsx", "xls"} -> FlattenSeq(document.sheets[at[1]].rows[at[2]])
      [] document.kind = "csv" -> FlattenSeq(document.rows[at[1]])

\* What only the text of a preview has, and none of its blocks.
Titles(document) ==
    IF document.kind \notin {"xlsx", "xls"} THEN {}
    ELSE UNION {ToSet(document.sheets[s].title) : s \in DOMAIN document.sheets}

\* A preview shows a version from its beginning and says so when it does not show
\* all of it; its blocks are in order, and each but the last is all that stood at its
\* place, the last too unless the preview says that something is left out.
PreviewTruthful(g, reply) ==
    Answers(reply) =>
        /\ IsPrefix(Visibles(reply.text), ContentOf(g.content))
        /\ ~reply.truncated => Visibles(reply.text) = ContentOf(g.content)
        /\ \A b \in DOMAIN reply.blocks :
             LET shown == Visibles(reply.blocks[b].text)
                 there == StandsAt(g.content, reply.blocks[b].at)
             IN  IF b < Len(reply.blocks) THEN shown = there
                 ELSE IsPrefix(shown, there) /\ (shown = there \/ reply.truncated \/ reply.blocksTruncated)
        /\ reply.blocks # <<>> /\ ~reply.truncated /\ ~reply.blocksTruncated =>
             ToSet(ContentOf(g.content)) \ Titles(g.content)
                 \subseteq UNION {ToSet(reply.blocks[b].text) : b \in DOMAIN reply.blocks}

\* A picture is the page or frame asked for of the version's own content.
PictureTruthful(g, reply) ==
    Answers(reply) => g.stored = g.content /\ reply.picture.number = g.number
================================================================================
