------------------------------- MODULE Sections -------------------------------
(***************************************************************************)
(* The sections of a PDF: the end of app/ingest/pipeline/loaders/pdf.py.   *)
(*                                                                         *)
(* An element: [kind, outline, page, gap, major].  kind is "heading" for a *)
(* short styled line (which lines are is left out), "beside" for one on    *)
(* the right that shares the baseline of the line before, "detail", or     *)
(* "omission"; gap: it stands well below the line before; major: capitals  *)
(* off the left margin; outline: the bookmark of its page, 0 for none.     *)
(* Headings are named by their position.                                   *)
(***************************************************************************)
EXTENDS Integers, Sequences, FiniteSets, SequencesExt

SectionStart == [major |-> <<>>, heading |-> <<>>, pending |-> <<>>,
                 active |-> <<>>, outline |-> 0, path |-> <<>>]

\* The scope of the gathered headings, given to every line they were gathered from.
CloseHeading(st) ==
    LET active == IF st.heading = <<>> THEN st.active
                  ELSE st.major \o SelectSeq(st.heading, LAMBDA h : ~Contains(st.major, h))
    IN  [st EXCEPT !.active = active, !.heading = <<>>, !.pending = <<>>,
                   !.path = [i \in 1..Len(@) |-> IF Contains(st.pending, i) THEN active ELSE @[i]]]

SamePage(els, st, i) == st.pending # <<>> /\ els[i].page = els[Last(st.pending)].page

EnterOutline(st, outline) ==
    IF outline = st.outline THEN st
    ELSE [CloseHeading(st) EXCEPT !.major = <<>>, !.active = <<>>, !.outline = outline]

\* A heading after a gap, or capitals, begins a scope of its own.
TakeHeading(els, st, i) ==
    LET apart == IF st.heading = <<>> \/ (SamePage(els, st, i) /\ els[i].gap)
                 THEN CloseHeading(st) ELSE st
        opened == IF els[i].major THEN [CloseHeading(apart) EXCEPT !.major = <<i>>, !.active = <<>>]
                  ELSE apart
    IN  [opened EXCEPT !.heading = Append(@, i), !.pending = Append(@, i), !.path = Append(@, <<>>)]

TakeElement(els, st, i) ==
    LET entered == EnterOutline(st, els[i].outline)
        detail == CloseHeading(entered)
    IN  IF els[i].kind = "omission" THEN [st EXCEPT !.path = Append(@, <<>>)]
        ELSE IF els[i].kind = "heading" THEN TakeHeading(els, entered, i)
        ELSE IF els[i].kind = "beside" /\ SamePage(els, entered, i)
        THEN [entered EXCEPT !.pending = Append(@, i), !.path = Append(@, <<>>)]
        ELSE [detail EXCEPT !.path = Append(@, detail.active)]

\* The heading path of every element, below its bookmark.
AnnotateSections(els) ==
    CloseHeading(FoldLeft(LAMBDA st, i : TakeElement(els, st, i), SectionStart,
                          [i \in 1..Len(els) |-> i])).path

(***************************************************************************)
(* Bookmarks: [level, titled, page], page 0 for no destination.  The stack *)
(* holds the bookmarks above; titles are named by position.                *)
(***************************************************************************)
OutlineStarts(bookmarks) ==
    LET step(acc, i) ==
            LET above == SelectSeq(acc.stack, LAMBDA j : bookmarks[j].level < bookmarks[i].level)
                stack == IF bookmarks[i].titled THEN Append(above, i) ELSE above
            IN  [stack |-> stack,
                 starts |-> IF bookmarks[i].titled /\ bookmarks[i].page > 0
                            THEN acc.starts \cup {<<bookmarks[i].page, stack>>} ELSE acc.starts]
    IN  FoldLeft(step, [stack |-> <<>>, starts |-> {}], [i \in 1..Len(bookmarks) |-> i]).starts

\* A page's path: the deepest that starts on the last page before it where one
\* does, unless unrelated bookmarks start there together; <<>> for none.
OutlineSections(bookmarks, pages) ==
    LET starts == OutlineStarts(bookmarks)
        first(p) == {s[1] : s \in {x \in starts : x[1] <= p}}
        paths(p) == {s[2] : s \in {x \in starts : x[1] = Max(first(p))}}
        deepest(p) == CHOOSE path \in paths(p) : \A other \in paths(p) : Len(other) <= Len(path)
    IN  [p \in 1..pages |->
           IF first(p) = {} \/ \E other \in paths(p) : ~IsPrefix(other, deepest(p)) THEN <<>>
           ELSE deepest(p)]

(***************************************************************************)
(* Properties of results                                                   *)
(***************************************************************************)
\* Between i and j nothing belongs to another bookmark.
SameRun(els, i, j) ==
    \A k \in i..j : els[k].kind = "omission" \/ els[k].outline = els[i].outline

\* The headings of an element are of its own run under a bookmark, none after a
\* detail is of it, and the last heading before a detail is among them.
ScopesTruthful(els, path) ==
    \A i \in 1..Len(els) :
      LET above == {h \in 1..(i - 1) : els[h].kind = "heading" /\ SameRun(els, h, i)}
      IN  /\ els[i].kind = "omission" => path[i] = <<>>
          /\ \A h \in ToSet(path[i]) :
                /\ els[h].kind = "heading"
                /\ SameRun(els, Min({h, i}), Max({h, i}))
                /\ els[i].kind = "detail" => h < i
          /\ els[i].kind = "detail" /\ above # {} => Contains(path[i], Max(above))
          /\ els[i].kind = "heading" => Contains(path[i], i)

\* A page's bookmark path is one that starts no later, with no other start since.
OutlineTruthful(bookmarks, section) ==
    \A p \in 1..Len(section) : section[p] # <<>> =>
      LET b == Last(section[p])
      IN  /\ bookmarks[b].page <= p
          /\ \A other \in 1..Len(bookmarks) :
                bookmarks[other].titled /\ bookmarks[other].page \in bookmarks[b].page..p =>
                   Contains(section[p], other)
================================================================================
