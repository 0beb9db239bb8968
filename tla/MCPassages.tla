------------------------------ MODULE MCPassages ------------------------------
\* Small files, element sequences, corpora and replies for TLC.
EXTENDS Passages

(***************************************************************************)
(* Files                                                                   *)
(***************************************************************************)
MCPage ==
    [height |-> 10, chars |-> 40, suspicious |-> 0, cids |-> 0, found |-> TRUE, graphics |-> FALSE,
     cropped |-> TRUE, labels |-> FALSE, huge |-> FALSE, lines |-> <<>>, tables |-> <<>>,
     images |-> <<>>, figures |-> <<>>, regions |-> <<>>]

MCLines == <<<<0, 1, 3, 2>>, <<5, 1, 8, 2>>, <<0, 4, 3, 5>>, <<5, 4, 8, 5>>, <<0, 8, 8, 9>>>>
MCTable == [box |-> <<0, 0, 8, 3>>, got |-> "rows"]
MCPdf(pages) == [kind |-> "pdf", pages |-> pages]

MCPages == {
    [MCPage EXCEPT !.lines = MCLines],
    [MCPage EXCEPT !.lines = MCLines, !.labels = TRUE, !.graphics = TRUE],
    [MCPage EXCEPT !.lines = MCLines, !.tables = <<MCTable, [MCTable EXCEPT !.got = "error"]>>,
                   !.images = <<<<1, 1, 3, 3>>>>],
    [MCPage EXCEPT !.lines = MCLines, !.found = FALSE, !.images = <<<<0, 0, 1, 1>>, <<0, 0, 8, 10>>>>],
    [MCPage EXCEPT !.lines = <<<<0, 1, 3, 2>>>>, !.figures = <<<<4, 4, 8, 8>>>>,
                   !.images = <<<<4, 4, 8, 8>>, <<0, 4, 3, 7>>>>],
    [MCPage EXCEPT !.lines = <<<<0, 1, 3, 2>>>>, !.cropped = FALSE, !.images = <<<<0, 4, 3, 7>>>>],
    [MCPage EXCEPT !.chars = 1, !.graphics = TRUE, !.regions = <<<<0, 0, 4, 4>>>>],
    [MCPage EXCEPT !.cids = 2, !.lines = MCLines, !.images = <<<<0, 0, 8, 10>>>>],
    [MCPage EXCEPT !.huge = TRUE]}

MCLineKinds == {[kind |-> k, level |-> 1, cols |-> 0] : k \in {"blank", "prose", "fence", "pipe", "rule"}}
                 \cup {[kind |-> "heading", level |-> l, cols |-> 0] : l \in {1, 2}}
                 \cup {[kind |-> "tab", level |-> 0, cols |-> 2]}

MCEntry == [size |-> 4, packed |-> 2, actual |-> 4, encrypted |-> FALSE]
MCPart == [linked |-> FALSE, name |-> "head", text |-> TRUE, picture |-> TRUE]
MCPicture(readable, direct) == [readable |-> readable, direct |-> direct]
MCChild(kind, text, pics, boxes) == [kind |-> kind, text |-> text, link |-> TRUE, pics |-> pics, boxes |-> boxes]
MCDocx(body, entries) ==
    [kind |-> "docx", body |-> body, parts |-> <<MCPart, MCPart, [MCPart EXCEPT !.linked = TRUE], [MCPart EXCEPT !.name = "foot", !.text = FALSE]>>,
     entries |-> entries]
MCSheet == [rows |-> 2, cols |-> 2, filled |-> TRUE, odd |-> TRUE, charts |-> 1, pics |-> <<TRUE, FALSE>>]
MCBook(kind, sheets) == [kind |-> kind, sheets |-> sheets, legacy |-> kind = "xls", entries |-> <<MCEntry>>]
MCNode(tag, text) == [tag |-> tag, text |-> text, inner |-> 1]

MCFiles ==
    {MCPdf(<<p>>) : p \in MCPages} \cup {MCPdf(<<MCPage, MCPage, MCPage>>)}
      \cup {[kind |-> k, lines |-> lines] : k \in {"md"}, lines \in SeqOf(MCLineKinds, 3)}
      \cup {[kind |-> "md", lines |-> <<h>> \o SubSeq(lines, 1, 3) \o <<h>>] :
               h \in {[kind |-> "heading", level |-> 1, cols |-> 0], [kind |-> "tab", level |-> 0, cols |-> 2]},
               lines \in TupleOf({x \in MCLineKinds : x.kind \in {"tab", "pipe", "rule", "prose"}}, 3)}
      \cup {MCDocx(body, entries) :
               body \in {<<MCChild("p", a, <<MCPicture(TRUE, TRUE), MCPicture(TRUE, FALSE)>>, 1),
                           MCChild("tbl", b, <<MCPicture(FALSE, FALSE)>>, 0),
                           MCChild("other", TRUE, <<MCPicture(TRUE, TRUE)>>, 1), MCChild("p", c, <<>>, 0)>> :
                            a \in BOOLEAN, b \in BOOLEAN, c \in BOOLEAN} \cup {<<>>},
               entries \in {<<MCEntry>>, <<[MCEntry EXCEPT !.encrypted = TRUE]>>,
                            <<[MCEntry EXCEPT !.actual = 5]>>, <<[MCEntry EXCEPT !.size = 5]>>}}
      \cup {MCBook("xlsx", <<MCSheet>>), MCBook("xls", <<MCSheet>>),
            MCBook("xlsx", <<[MCSheet EXCEPT !.filled = FALSE]>>),
            MCBook("xlsx", <<MCSheet, MCSheet, MCSheet>>), MCBook("xlsx", <<[MCSheet EXCEPT !.rows = 9]>>)}
      \cup {[kind |-> "image", frames |-> f] :
               f \in {<<[huge |-> FALSE, regions |-> 1]>>, <<[huge |-> TRUE, regions |-> 0]>>,
                      <<[huge |-> FALSE, regions |-> 0], [huge |-> FALSE, regions |-> 0]>>}}
      \cup {[kind |-> "csv", rows |-> r, columns |-> c, malformed |-> m] :
               r \in {0, 1, 9}, c \in {0, 2}, m \in BOOLEAN}
      \cup {[kind |-> "html", nodes |-> <<MCNode("hidden", TRUE), MCNode(a, b), MCNode("visual", c)>>] :
               a \in {"table", "heading", "block"}, b \in BOOLEAN, c \in BOOLEAN}
      \cup {[kind |-> "exe"]}

MCIdleFile == [kind |-> "exe"]

(***************************************************************************)
(* Elements of a PDF and bookmarks: two pages, under one bookmark or two.  *)
(***************************************************************************)
MCElementKinds ==
    {[kind |-> "heading", gap |-> FALSE, major |-> m] : m \in BOOLEAN}
      \cup {[kind |-> k, gap |-> FALSE, major |-> FALSE] : k \in {"beside", "detail", "omission"}}
      \cup {[kind |-> "heading", gap |-> TRUE, major |-> FALSE]}

MCElements ==
    {[i \in 1..4 |-> ks[i] @@ [page |-> IF i <= n THEN 1 ELSE 2, outline |-> IF i <= n THEN 1 ELSE o]] :
       ks \in TupleOf(MCElementKinds, 4), n \in 2..4, o \in {1, 2}}

MCBookmarks ==
    [bookmarks : TupleOf([level : 1..2, titled : BOOLEAN, page : 0..2], 3), pages : {3}]

(***************************************************************************)
(* Texts, tables, and what may be left for a passage                       *)
(***************************************************************************)
MCChars == {
    <<"x", "x", "x", "_", "x", "S", "x", "x">>,
    <<"x", "x", "P", "x", "x", "x", "x", "x", "x", "_", "x">>,
    <<"x", "S", "x", "S", "x", "x", "S", "x", "P", "x">>,
    <<"x", "_", "x">>}

MCText(e, chars) == [k \in 1..Len(chars) |-> [c |-> chars[k], el |-> e, k |-> k]]

MCSpecs == [target : {3, 5, 6}, overlap : {1, 3}, max : {6, 8}, min : {4}]

MCProse ==
    {[spec |-> s, embed |-> embed,
      elements |-> [e \in 1..2 |->
        [modality |-> IF e = 1 THEN m ELSE "text", text |-> MCText(e, IF e = 1 THEN a ELSE b),
         run |-> IF together THEN 1 ELSE e, pdf |-> together, headed |-> e = 1 /\ m = "text" /\ path > 5,
         path |-> path]]] :
      s \in MCSpecs, embed \in {4, 20}, m \in {"text", "image", "code"},
      a \in MCChars, b \in MCChars, together \in BOOLEAN, path \in {0, 3, 6}}

MCTables ==
    {[table |-> [caption |-> caption, header |-> <<1, 1>>, rows |-> rows],
      path |-> path, spec |-> [target |-> target, overlap |-> 1, max |-> target + 2, min |-> 4],
      embed |-> embed] :
      caption \in 0..1, rows \in TupleOf({<<1, 1>>, <<0, 5>>, <<2, 1>>}, 3), path \in {0, 2},
      target \in {4, 6, 7, 8, 10, 12}, embed \in {9, 20}}

MCSentences(lengths, p) == [s \in 1..Len(lengths) |-> [k \in 1..lengths[s] |-> <<p, s, k>>]]

MCParagraphs ==
    {[paragraphs |-> [p \in 1..2 |-> MCSentences(IF p = 1 THEN a ELSE b, p)],
      path |-> path, spec |-> [target |-> target, overlap |-> 5, max |-> target + 5, min |-> 5],
      embed |-> 20] :
      a \in TupleOf({1, 3, 9}, 3), b \in TupleOf({1, 2}, 2), path \in {0, 2}, target \in 5..12}

MCHashes == {[hash |-> "a", text |-> "t"], [hash |-> "b", text |-> "t"], [hash |-> "", text |-> "t"]}
MCVersions == [old : SeqOf(MCHashes, 3), new : SeqOf(MCHashes, 3), limit : {1, 2}]

(***************************************************************************)
(* Texts of a vision model with the lines of a text layer, or of crops.    *)
(***************************************************************************)
MCJoined(words) == FoldLeft(LAMBDA t, w : IF t = <<>> THEN w ELSE t \o <<" ">> \o w, <<>>, words)

MCWords == {<<"a", "b">>, <<"c", "d">>, <<"e", "f">>}
MCLayer ==
    {MCJoined(ws) : ws \in SeqOf(MCWords, 2) \ {<<>>}}
      \cup {MCJoined(<<v, w>>) \o end : v, w \in MCWords, end \in {<<"-">>, <<" ", "g", "h">>}}

MCAlignments ==
    {[text |-> MCJoined(<<<<"a", "b">>>> \o ws), lines |-> <<one, other>>, regions |-> <<r, <<"c", "d">>>>] :
       ws \in TupleOf(MCWords, 3) \cup TupleOf(MCWords, 1), one \in MCLayer,
       other \in MCWords \cup {MCJoined(<<v, <<"c", "d">>>>) : v \in MCWords} \cup {<<"c", "d", " ", "e", "-">>},
       r \in {<<"a", "b", " ", "c", "d", " ", "g">>}}

MCPictures ==
    {[text |-> mark \o MCJoined(ws), regions |-> <<<<"#">> \o r, q>>, frame |-> f] :
       mark \in {<<>>, <<"#", " ">>}, ws \in SeqOf(MCWords, 3) \ {<<>>},
       r \in {MCJoined(vs) : vs \in SeqOf(MCWords, 2)},
       q \in {<<"a", "b">>, <<"c", "d", " ", "e", "f">>, <<"b">>},
       f \in {MCJoined(<<<<"a", "b">>, <<"c", "d">>, <<"e", "f">>>>),
              MCJoined(<<<<"a", "b">>, <<"c", "d">>, <<"a", "b">>>>)}}

(***************************************************************************)
(* Texts for embedders, replies of models, and the order of loads.         *)
(***************************************************************************)
MCSizes == {1, 2, 4}
MCStore(sizes, blank, local, batch, most, asked, sound, orders) ==
    [texts |-> [i \in 1..Len(sizes) |-> [id |-> i, size |-> sizes[i], blank |-> blank = i]],
     local |-> local, batch |-> batch, most |-> 4, max |-> most, dim |-> 2, asked |-> asked, sound |-> sound,
     instruction |-> 1, orders |-> orders]

MCSizeSeqs == SeqOf(MCSizes, 3) \cup {<<1, 1, 1, 1>>}

MCStores ==
    {MCStore(sizes, blank, TRUE, batch, max, asked, sound, <<>>) :
       sizes \in MCSizeSeqs, blank \in {0, 2}, batch \in {1, 2, 3}, max \in {2, 4}, asked \in {2, 3}, sound \in BOOLEAN}
    \cup {MCStore(sizes, 0, FALSE, batch, 4, asked, sound, <<order, other, <<0>>, <<0>>>>) :
       sizes \in MCSizeSeqs, batch \in {2, 3}, asked \in {2, 3}, sound \in BOOLEAN,
       order \in {<<0>>, <<0, 1>>, <<1, 0>>, <<1, 1>>, <<0, 2>>, <<2, 0, 1>>, <<0, 1, 0>>}, other \in {<<0>>, <<1, 0>>}}

MCWarmings ==
    TupleOf({[object |-> o, key |-> IF o = 3 THEN 2 ELSE 1, request |-> r, found |-> f, ok |-> ok] :
               o \in 1..3, r \in BOOLEAN, f \in BOOLEAN, ok \in BOOLEAN}, 3)

MCRulers ==
    {[cooldown |-> 3, calls |-> [i \in 1..4 |-> [at |-> times[i], ok |-> oks[i]]]] :
       times \in {<<1, 2, 4, 7>>, <<1, 1, 3, 4>>, <<2, 5, 6, 8>>}, oks \in TupleOf(BOOLEAN, 4)}

MCFields == {"text", "blank", "odd", "none"}
MCMetadata ==
    {[text |-> text, budget |-> budget, headroom |-> 2,
      reply |-> [json |-> json, lists |-> lists, author |-> author, date |-> "text",
                 topics |-> <<a, b>>, entities |-> <<>>]] :
       text \in SeqOf(0..2, 4), budget \in {1, 3}, json \in BOOLEAN, lists \in BOOLEAN,
       author \in {"text", "blank"}, a \in {"text", "odd"}, b \in {"odd", "blank"}}

MCDocument(heading, body, parted, needle) ==
    [heading |-> heading, chars |-> 2 * heading, parted |-> parted, body |-> body, needle |-> needle]

MCReranks ==
    {[query |-> query, max |-> 16, window |-> 4, stride |-> 2, headingChars |-> chars, batch |-> 2, finite |-> finite,
      documents |-> <<MCDocument(h, n, p, needle), MCDocument(1, 6, TRUE, 7), MCDocument(0, b, FALSE, 3)>>] :
       query \in {1, 9}, chars \in {3, 20}, finite \in BOOLEAN, h \in {0, 1, 3, 9}, n \in {0, 4, 7, 9}, p \in BOOLEAN,
       needle \in {1, 4, 8, 10}, b \in {0, 5}}

MCParts == {"a", "c", "", "long"}
MCPlans ==
    {[question |-> [list |-> list, items |-> items, then |-> then],
      reply |-> [json |-> json, decompose |-> d, parts |-> <<"c">> \o parts]] :
       list \in BOOLEAN, items \in SeqOf({"a", "b", ""}, 2) \cup {<<"a", "", "b">>, <<"a", "b", "c", "d", "e">>},
       then \in {"none", "plain", "more", "also"}, json \in BOOLEAN, d \in BOOLEAN,
       parts \in SeqOf(MCParts, 2) \cup {<<"a", "c", "b", "odd">>}}

MCModelReplies ==
    {[asked |-> asked,
      reply |-> [schema |-> schema, refusal |-> refusal, finish |-> finish, text |-> text, used |-> used],
      override |-> [url |-> url, key |-> key], settings |-> [url |-> "env", key |-> "env"],
      count |-> 2, values |-> values] :
       asked \in 0..2, schema \in BOOLEAN, refusal \in BOOLEAN, finish \in {"none", "stop", "length"},
       text \in {"none", "", "t"}, used \in -1..3, url \in {"", "db"}, key \in {"", "db"},
       values \in {<<1, 2>>, <<1>>, <<2, NotNumber>>}}

(***************************************************************************)
(* Corpora: five passages, two documents; which of them may be seen, their *)
(* scores, furniture and rosters vary.                                     *)
(***************************************************************************)
MCPassage ==
    [tenant |-> "t", doc |-> 1, gen |-> 1, ordinal |-> 1, section |-> 1, live |-> TRUE, owner |-> "o",
     visibility |-> "tenant", acl |-> {"u"}, scope |-> "tenant", dense |-> <<1, 1>>, lex |-> <<0, 0>>,
     rerank |-> <<1, 1>>, table |-> FALSE, header |-> "h", rows |-> <<>>, where |-> "body", text |-> "t",
     pages |-> {1}]

MCScores == {<<<<5, 4, 3, 2, 1>>, <<1, 2, 3, 4, 5>>, <<0, 0, 0, 1, 2>>>>,
             <<<<1, 5, 4, 3, 2>>, <<3, 1, 2, 5, 4>>, <<2, 0, 1, 1, 0>>>>}

MCSights == {[live |-> TRUE, visibility |-> "tenant"], [live |-> TRUE, visibility |-> "private"],
             [live |-> FALSE, visibility |-> "tenant"], [live |-> TRUE, visibility |-> "shared"],
             [live |-> TRUE, visibility |-> "global"]}

MCCorpus(sights, scores, roster, furniture) ==
    [i \in 1..5 |->
       [MCPassage EXCEPT
          !.live = sights[i].live, !.visibility = sights[i].visibility,
          !.acl = IF i = 2 THEN {"v"} ELSE {"u"},
          !.scope = IF sights[i].visibility = "global" THEN "global" ELSE "tenant",
          !.tenant = IF sights[i].visibility = "global" THEN "g" ELSE "t",
          !.doc = IF i <= 3 THEN 1 ELSE 2, !.ordinal = i, !.section = IF i = 3 THEN 2 ELSE 1,
          !.dense = <<scores[1][i], scores[2][i]>>, !.lex = <<scores[3][i], scores[3][6 - i]>>,
          !.rerank = <<scores[2][i], scores[1][i]>>,
          !.table = roster, !.rows = IF roster THEN <<i, (i % 3) + 10>> ELSE <<i>>,
          !.where = IF furniture /\ i \in {1, 2} THEN "top" ELSE IF furniture /\ i = 5 THEN "logo" ELSE "body",
          !.pages = {i}]]

MCSettings ==
    [multiplier |-> 1, candidates |-> 1, reranker |-> TRUE, failing |-> FALSE, floor |-> 2, wider |-> 1,
     least |-> 2, lexical |-> TRUE]

MCQuestion == [parts |-> 1, collection |-> FALSE, collected |-> "h", furniture |-> FALSE]

MCSearches ==
    {[corpus |-> MCCorpus(<<s1, s2, s3, s4, [live |-> TRUE, visibility |-> "tenant"]>>, scores, q.collection, furniture),
      access |-> [tenant |-> "t", user |-> "u", role |-> "user", docs |-> docs],
      question |-> q, k |-> k, settings |-> st] :
      s1 \in {s \in MCSights : s.visibility # "shared"}, s2 \in {s \in MCSights : s.live},
      s3 \in {[live |-> b, visibility |-> "tenant"] : b \in BOOLEAN},
      s4 \in {[live |-> TRUE, visibility |-> v] : v \in {"private", "tenant"}},
      scores \in MCScores, furniture \in BOOLEAN, docs \in {AllDocs, {1}},
      q \in {MCQuestion, [MCQuestion EXCEPT !.parts = 2], [MCQuestion EXCEPT !.collection = TRUE]},
      k \in {1, 3},
      st \in {MCSettings, [MCSettings EXCEPT !.reranker = FALSE, !.lexical = FALSE],
              [MCSettings EXCEPT !.failing = TRUE, !.floor = NoFloor]}}
    \cup {[corpus |-> [MCCorpus(<<s1, s2, s2, s1, s2>>, CHOOSE x \in MCScores : TRUE, FALSE, FALSE) EXCEPT ![4].owner = "w"],
           access |-> [tenant |-> tenant, user |-> user, role |-> role, docs |-> docs],
           question |-> MCQuestion, k |-> 3, settings |-> MCSettings] :
          s1 \in MCSights, s2 \in MCSights, tenant \in {"t", "g"},
          user \in {"u", "o", "w"}, role \in {"user", "admin"}, docs \in {AllDocs, {2}}}

(***************************************************************************)
(* Evidence of three passages and replies about it                         *)
(***************************************************************************)
MCSpan(box, text) == [page |-> 1, box |-> box, text |-> text]

MCEvidence(d, o, sections, last) ==
    <<[doc |-> 1, gen |-> 1, section |-> sections[1], ordinal |-> 1, text |-> <<"a">>, short |-> TRUE,
       size |-> 2, spans |-> <<>>],
      [doc |-> d, gen |-> 1, section |-> sections[2], ordinal |-> o, text |-> <<"a", "b", "c", "a", "b">>, short |-> FALSE,
       size |-> 2, spans |-> <<MCSpan(<<0, 0, 9, 2>>, <<"a", "b", "c">>), MCSpan(<<0, 2, 4, 3>>, <<"a", "b">>),
                               MCSpan(<<5, 5, 6, 6>>, <<"c">>)>>],
      [doc |-> 1, gen |-> 1, section |-> NoSection, ordinal |-> last, text |-> <<"b">>, short |-> FALSE, size |-> 2,
       spans |-> <<>>]>>

MCQuoteSets == {
    <<>>,
    <<[source |-> 2, occurrence |-> 1, words |-> <<<<"a", "b">>, <<"b", "c">>>>]>>,
    <<[source |-> 2, occurrence |-> Unbound, words |-> <<<<"c", "a">>, <<>>, <<"b", "c", "a">>, <<"c">>, <<"b", "c">>>>]>>,
    <<[source |-> 1, occurrence |-> 2, words |-> <<<<"a">>>>], [source |-> 3, occurrence |-> 1, words |-> <<<<"b">>>>]>>}

MCReply(shape, cites, sources, qs) == [shape |-> shape, cites |-> cites, sources |-> sources, quotes |-> qs]

MCReplies ==
    {MCReply("answered", cs, ss, qs) :
       cs \in {<<>>, <<2>>, <<2, 1, 2>>, <<1>>}, ss \in {<<2>>, <<1, 2>>, <<3, 3>>}, qs \in MCQuoteSets}
      \cup {MCReply("abstained", <<>>, <<>>, <<>>), MCReply("broken", <<>>, <<2>>, <<>>)}

MCAnswers ==
    {[evidence |-> MCEvidence(d, o, sections, last), budget |-> budget,
      replies |-> IF complex THEN <<third, third, first>> ELSE <<first, third, third>>,
      repair |-> MCReply("answered", <<>>, <<>>, qs), complex |-> complex] :
      d \in {1, 2}, o \in {2, 3}, sections \in {<<NoSection, NoSection>>, <<7, NoSection>>}, last \in {3, 4},
      budget \in {4, 6},
      first \in MCReplies, third \in {MCReply("answered", <<>>, <<3>>, <<>>), MCReply("broken", <<>>, <<>>, <<>>)},
      qs \in {<<>>, <<[source |-> 2, occurrence |-> 1, words |-> <<<<"a", "b">>, <<"c">>>>]>>},
      complex \in BOOLEAN}

(***************************************************************************)
(* Stored versions, and what is asked of them.                             *)
(***************************************************************************)
MCBytes == {<<"x">>, <<"x", "y">>, <<"x", "y", "z">>}
MCHeaders ==
    [asks : {"nothing", "other"}, first : {Open}, last : {Open}]
      \cup [asks : {"range"}, first : 0..3 \cup {Open}, last : 0..4 \cup {Open}]

\* A file is repaired, damaged or removed between two reads of it, or is as it was.
MCStored == MCBytes \cup {<<>>, Gone}
MCSources == [content : {<<"x", "y", "z">>}, header : MCHeaders, before : MCStored, after : MCStored]

MCValue(place, n) == [k \in 1..n |-> <<place, k>>]
MCCells(s, lengths) == [r \in DOMAIN lengths |-> [c \in 1..2 |-> MCValue(<<s, r, c>>, IF c = 1 THEN lengths[r] ELSE 1)]]

MCDocuments ==
    {[kind |-> "docx", body |-> [i \in 1..3 |->
        [tag |-> tags[i], text |-> MCValue(<<0, i, 0>>, sizes[i]), heading |-> IF i = 1 THEN level ELSE Open,
         rows |-> IF tags[i] = "tbl" THEN MCCells(i, <<sizes[i], 0>>) ELSE <<>>]]] :
       tags \in TupleOf({"p", "tbl", "other"}, 3), sizes \in TupleOf({0, 2, 5}, 3), level \in {0, 7, Open}}
    \cup {[kind |-> kind, sheets |-> [s \in DOMAIN sizes |->
             [title |-> MCValue(<<s, 0, 0>>, 1), rows |-> MCCells(s, sizes[s]), columns |-> 2]]] :
            kind \in {"xlsx", "xls"}, sizes \in SeqOf(SeqOf({0, 3}, 3), 2)}
    \cup {[kind |-> "csv", rows |-> MCCells(1, sizes)] : sizes \in SeqOf({0, 2, 4}, 5)}
    \cup {[kind |-> kind, text |-> MCValue(<<1, 1, 1>>, n)] : kind \in {"rtf", "plain"}, n \in {0, 12, 13}}

MCDamaged == [kind |-> "broken"]
MCPreviews ==
    {[content |-> document, stored |-> document] : document \in MCDocuments \cup {MCDamaged}}
      \cup [content : {[kind |-> "plain", text |-> MCValue(<<1, 1, 1>>, 2)]}, stored : {MCDamaged, Gone}]

MCPictured ==
    {[kind |-> kind, broken |-> broken, pages |-> [n \in DOMAIN sizes |-> [number |-> n, pixels |-> sizes[n]]]] :
       kind \in {"pdf", "image", "plain"}, broken \in BOOLEAN, sizes \in SeqOf({1, 3}, 2)}
MCShown ==
    {[content |-> content, number |-> number, stored |-> IF intact THEN content ELSE MCDamaged] :
       content \in MCPictured, number \in 0..3, intact \in BOOLEAN}

(***************************************************************************)
(* Questions asked one after the other, and passages supplied.             *)
(***************************************************************************)
MCRequest ==
    [user |-> 1, text |-> "q", topK |-> 2, docs |-> Unset, enforce |-> Unset, floor |-> Unset, model |-> Unset,
     cache |-> Unset, general |-> TRUE, style |-> Unset]

MCRequests ==
    {MCRequest} \cup {[MCRequest EXCEPT !.text = t] : t \in {"", "blank", "other"}}
      \cup {[MCRequest EXCEPT !.topK = k] : k \in {0, 3, 4}}
      \cup {[MCRequest EXCEPT !.docs = d] : d \in {<<>>, <<"a">>, <<"a", "bad">>}}
      \cup {[MCRequest EXCEPT !.enforce = b] : b \in BOOLEAN} \cup {[MCRequest EXCEPT !.cache = b] : b \in BOOLEAN}
      \cup {[MCRequest EXCEPT !.floor = f, !.style = s] : f \in {Unset, "some", "bad"}, s \in {Unset, "some", "bad"}}
      \cup {[MCRequest EXCEPT !.model = m] : m \in {"", "claude", "mini", "other"}}
      \cup {[MCRequest EXCEPT !.general = FALSE], [MCRequest EXCEPT !.user = 2]}

MCRun(packed, replies, complex, unquoted, change) ==
    [packed |-> packed, replies |-> replies, complex |-> complex, unquoted |-> unquoted, change |-> change]
MCUnchanged == [what |-> "nothing", from |-> 1]
MCPlainRun == MCRun(1, <<"answered", "answered", "answered">>, FALSE, FALSE, MCUnchanged)

MCRuns ==
    {MCRun(1, replies, complex, unquoted, change) :
       replies \in TupleOf({"answered", "abstained", "broken"}, 3), complex \in BOOLEAN, unquoted \in BOOLEAN,
       change \in {MCUnchanged} \cup [what : {"sources", "epoch"}, from : 1..6]}
      \cup {[MCPlainRun EXCEPT !.packed = 0]}

MCWorld ==
    [chat |-> "chat", allowed |-> {"mini"}, catalog |-> "offers", cache |-> TRUE, schema |-> 1, epoch |-> 1,
     profile |-> 1, near |-> TRUE, valid |-> TRUE, run |-> MCPlainRun, generally |-> "general_answer"]

MCWorlds ==
    {MCWorld, [MCWorld EXCEPT !.schema = 2], [MCWorld EXCEPT !.epoch = 2], [MCWorld EXCEPT !.profile = 2],
     [MCWorld EXCEPT !.near = FALSE], [MCWorld EXCEPT !.valid = FALSE], [MCWorld EXCEPT !.cache = FALSE],
     [MCWorld EXCEPT !.catalog = "fails"], [MCWorld EXCEPT !.catalog = "none"], [MCWorld EXCEPT !.chat = "claude"]}

MCAsked ==
    {[requests |-> <<a, b>>, worlds |-> <<[MCWorld EXCEPT !.run.packed = n], MCWorld>>] :
       a \in MCRequests, b \in MCRequests, n \in 0..1}
      \cup {[requests |-> <<MCRequest, r>>, worlds |-> <<MCWorld, w>>] : r \in MCRequests, w \in MCWorlds}
      \cup {[requests |-> <<MCRequest, r>>,
             worlds |-> <<MCWorld, [MCWorld EXCEPT !.cache = FALSE, !.run = run]>>] :
            r \in {MCRequest, [MCRequest EXCEPT !.docs = <<"a">>], [MCRequest EXCEPT !.general = FALSE]},
            run \in MCRuns}
      \cup {[requests |-> <<MCRequest, [MCRequest EXCEPT !.user = 2]>>,
             worlds |-> <<MCWorld, [MCWorld EXCEPT !.run = run, !.generally = "insufficient_evidence"]>>] :
            run \in {r \in MCRuns : r.change = MCUnchanged}}

MCSupplies ==
    {[hits |-> [n \in 1..3 |-> [id |-> n, score |-> 4 - n, region |-> IF n = 2 THEN width ELSE 1]],
      searches |-> searches, edit |-> edit, packed |-> packed, used |-> used] :
      width \in 0..1, searches \in 0..4, edit \in {"none", "unnamed", "doubled", "uncited"},
      packed \in {<<1, 2, 3>>, <<1, 3>>}, used \in {<<>>, <<1>>, <<3, 1>>, <<3>>}}

(***************************************************************************)
(* Pages: what is found on them, their words, parts and places.            *)
(***************************************************************************)
MCBoxes == {<<-1, -1, 1, 2>>, <<1, 0, 3, 2>>, <<1, 0, 2, 5>>, <<4, 1, 6, 2>>, <<2, 2, 2, 3>>}
MCDetected ==
    {[checkpoint |-> checkpoint, width |-> width, height |-> 3,
      boxes |-> [n \in 1..3 |-> [box |-> boxes[n], label |-> IF n = 3 THEN 1 ELSE 2, finite |-> n # lost]]] :
       checkpoint \in {"there", "missing", "other"}, width \in {3, 9}, boxes \in TupleOf(MCBoxes, 3), lost \in {0, 2}}

MCWord(box, text) == [box |-> box, text |-> text]
MCWordLines ==
    {[words |-> <<MCWord(<<x, top, x + 1, top + 1>>, <<"a", "b">>), MCWord(<<3, y, 4, y + 1>>, <<"c">>),
                  MCWord(<<z, 1, z + 2, 2>>, <<"d", "e", "f">>)>>,
      tables |-> tables, regions |-> <<<<0, 0, 9, 9>>, <<0, 0, 5, 2>>, <<3, 0, 6, 4>>, <<0, 0, 5, 2>>>>] :
       x \in {0, 5, 9}, top \in 0..3, y \in 0..3, z \in {0, 4, 6}, tables \in {<<>>, <<<<0, 0, 2, 2>>>>}}

MCCuts ==
    {[page |-> [box |-> box, scale |-> scale], box |-> part, tables |-> tables] :
       box \in {<<0, 0, 5, 4>>, <<2, 1, 7, 5>>, <<0, 1, 20, 9>>}, scale \in {1, 2, 3},
       part \in {<<0, 1, 3, 3>>, <<1, 2, 4, 4>>, <<3, 2, 5, 4>>, <<3, 3, 9, 9>>},
       tables \in {<<>>, <<<<0, 0, 2, 2>>>>, <<<<2, 1, 3, 5>>, <<4, 4, 5, 5>>>>, <<<<1, 1, 9, 2>>>>}}

MCSpanAt(box, size, on, pageBox, says) ==
    [box |-> box, size |-> size, page |-> on, pageBox |-> pageBox, says |-> says]
MCSpansAt ==
    {MCSpanAt(<<1, 1, 3, 2>>, <<>>, 0, <<>>, "a"), MCSpanAt(<<1, 1, 3, 2>>, <<>>, 0, <<>>, "b"),
     MCSpanAt(<<2, 2, 20, 3>>, <<6, 6>>, 2, <<>>, "c"), MCSpanAt(<<5, 5, 6, 18>>, <<18, 18>>, 1, <<3, 3, 9, 21>>, "d"),
     MCSpanAt(<<0, 0, 1, 1>>, <<>>, 1, <<2, 2, 8, 8>>, "e"), MCSpanAt(<<0, 3, 1, 6>>, <<0, 6>>, 1, <<>>, "f"),
     MCSpanAt(<<>>, <<>>, 1, <<>>, "g")}

MCPlaces ==
    {[type |-> type, own |-> own, spans |-> spans, pages |-> pages, locator |-> locator] :
       type \in {"pdf", "image", "xlsx"},
       own \in {MCSpanAt(<<>>, <<>>, 0, <<>>, "o"), MCSpanAt(<<1, 1, 4, 4>>, <<6, 6>>, 2, <<>>, "o"),
                MCSpanAt(<<>>, <<18, 18>>, 1, <<0, 0, 18, 18>>, "o")},
       spans \in SeqOf(MCSpansAt, 2) \cup {<<a, b, c>> : a, b, c \in {s \in MCSpansAt : s.says \in {"a", "b", "c"}}},
       pages \in {{}, {0, 3}}, locator \in {{}, {"sheet", "row_start"}, {"body_index"}}}

(***************************************************************************)
(* Cells of tables: letters, pipes, backslashes, spaces and ends of lines. *)
(***************************************************************************)
MCCellTexts == SeqOf({"a", Pipe, Slash, Gap, NewLine, Feed}, 2)
MCFewCells == {<<>>, <<"a", Pipe>>, <<Slash, Slash, Pipe>>, <<Pipe, Gap>>, <<"a", NewLine, "b">>, <<"a", Feed, "b">>}
MCWritten ==
    {[frame |-> frame, rows |-> <<<<a, b>>, <<b>>, <<b, a>>>>] : frame \in BOOLEAN, a \in MCCellTexts, b \in MCFewCells}
      \cup {[frame |-> FALSE, rows |-> rows] : rows \in {<<>>, <<<<>>>>, <<<<>>, <<<<"a">>>>>>}}

MCInputs ==
    [sections |-> MCElements, outline |-> MCBookmarks, prose |-> MCProse, table |-> MCTables,
     paragraphs |-> MCParagraphs, delta |-> MCVersions, align |-> MCAlignments,
     picture |-> MCPictures, store |-> MCStores, ruler |-> MCRulers, warm |-> MCWarmings,
     metadata |-> MCMetadata, rerank |-> MCReranks, plan |-> MCPlans, reply |-> MCModelReplies,
     search |-> MCSearches, answer |-> MCAnswers, source |-> MCSources, preview |-> MCPreviews,
     page |-> MCShown, ask |-> MCAsked, supply |-> MCSupplies, layout |-> MCDetected,
     lines |-> MCWordLines, cut |-> MCCuts, places |-> MCPlaces,
     markdown |-> MCWritten]
================================================================================
