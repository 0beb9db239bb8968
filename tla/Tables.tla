--------------------------------- MODULE Tables ---------------------------------
(***************************************************************************)
(* Tables as the text they are kept as (ingest/pipeline/tables.py), and    *)
(* the cells and lines the chunker reads from it again                     *)
(* (ingest/pipeline/chunker.py).  A text is a sequence of characters:      *)
(* letters, the signs below, and Feed for what ends a line for splitlines  *)
(* though it is neither \n nor \r (\v, \f, \x1c to \x1e, \x85, U+2028).    *)
(***************************************************************************)
EXTENDS Integers, Sequences, FiniteSets, SequencesExt, FiniteSetsExt

Pipe == "|"
Slash == "\\"
Gap == " "
NewLine == "n"
Feed == "v"

\* str.strip
Gaps == {Gap, NewLine, Feed}
Trimmed(text) ==
    LET kept == {i \in DOMAIN text : text[i] \notin Gaps}
    IN  IF kept = {} THEN <<>> ELSE SubSeq(text, Min(kept), Max(kept))

\* _esc
EscapedChar(c) ==
    IF c = Slash THEN <<Slash, Slash>> ELSE IF c = Pipe THEN <<Slash, Pipe>>
    ELSE IF c = NewLine THEN <<Gap>> ELSE <<c>>

Esc(text) == Trimmed(FlattenSeq([i \in DOMAIN text |-> EscapedChar(text[i])]))

RowLine(cells) ==
    <<Pipe, Gap>>
      \o FoldLeft(LAMBDA t, cell : t \o <<Gap, Pipe, Gap>> \o cell, Head(cells), Tail(cells))
      \o <<Gap, Pipe>>

\* rows_to_markdown, but for the rule under its first row: rows of different lengths
\* are made as long as the longest.
ColumnCount(rows) == Max({0} \cup {Len(rows[r]) : r \in DOMAIN rows})

Padded(row, columns) == [c \in 1..columns |-> IF c <= Len(row) THEN Esc(row[c]) ELSE <<>>]

RowsToMarkdown(rows) ==
    IF ColumnCount(rows) = 0 THEN <<>>
    ELSE [r \in DOMAIN rows |-> RowLine(Padded(rows[r], ColumnCount(rows)))]

\* df_to_markdown: the names of the columns are escaped twice.
DfToMarkdown(columns, rows) == RowsToMarkdown(<<[c \in DOMAIN columns |-> Esc(columns[c])]>> \o rows)

\* splitlines, of one row: the places of a line's end.
SplitLines(line) ==
    LET ends == SetToSortSeq({i \in DOMAIN line : line[i] \in {NewLine, Feed}}, <)
        from(n) == IF n = 1 THEN 1 ELSE ends[n - 1] + 1
    IN  [n \in 1..(Len(ends) + 1) |-> SubSeq(line, from(n), IF n <= Len(ends) THEN ends[n] - 1 ELSE Len(line))]

\* str.strip("|")
WithoutPipes(text) ==
    LET kept == {i \in DOMAIN text : text[i] # Pipe}
    IN  IF kept = {} THEN <<>> ELSE SubSeq(text, Min(kept), Max(kept))

\* _table_cells: a pipe after a backslash ends no cell.
TableCells(line) ==
    LET text == WithoutPipes(Trimmed(line))
        ends == SetToSortSeq({i \in DOMAIN text : text[i] = Pipe /\ (i = 1 \/ text[i - 1] # Slash)}, <)
        from(n) == IF n = 1 THEN 1 ELSE ends[n - 1] + 1
    IN  [n \in 1..(Len(ends) + 1) |->
           Trimmed(SubSeq(text, from(n), IF n <= Len(ends) THEN ends[n] - 1 ELSE Len(text)))]

Written(g) == IF g.frame THEN DfToMarkdown(g.rows[1], Tail(g.rows)) ELSE RowsToMarkdown(g.rows)

(***************************************************************************)
(* Properties of results                                                   *)
(***************************************************************************)
Fed(row) == \E c \in DOMAIN row : Feed \in ToSet(row[c])

\* A table reads back as it was written: a line for every row, as many cells as there
\* are columns, each of them the text of the cell, whatever its pipes and backslashes,
\* and only a cell with a Feed breaks its row.
TableReadsBack(g, lines) ==
    LET columns == ColumnCount(g.rows)
        text(r, c) == IF c > Len(g.rows[r]) THEN <<>>
                      ELSE IF g.frame /\ r = 1 THEN Esc(Esc(g.rows[r][c])) ELSE Esc(g.rows[r][c])
    IN  columns # 0 =>
          /\ Len(lines) = Len(g.rows)
          /\ \A r \in DOMAIN lines :
                /\ Fed(g.rows[r]) \/ SplitLines(lines[r]) = <<lines[r]>>
                /\ TableCells(lines[r]) = [c \in 1..columns |-> text(r, c)]
================================================================================
