------------------------------- MODULE Passages -------------------------------
(***************************************************************************)
(* The way of a text from its file to a citation, stage by stage: the      *)
(* extraction of the file (Extraction), the sections of its pages          *)
(* (Sections), its passages and what a new version changes (Chunking), the *)
(* evidence for a question (Retrieval), the cited answer (Grounding), and  *)
(* what is shown of the source that is cited (Sources).                    *)
(*                                                                         *)
(* Every stage works on what the one before stored, in a process of its    *)
(* own, so a behaviour begins at any stage, with any input that stage may  *)
(* find.  Extraction runs as a system; the other stages are functions of   *)
(* their input: given is the input, made what the stage makes of it.       *)
(***************************************************************************)
EXTENDS Extraction, Chunking, Sections, Spans, Models, Retrieval, Grounding, Sources,
    Questions, Layout, Tables

CONSTANTS
    Inputs,    \* stage -> inputs
    IdleFile   \* the file of a behaviour that begins after the extraction

ASSUME SearchAssumption == "search" \in DOMAIN Inputs => \A g \in Inputs["search"] : SearchInput(g)

VARIABLES stage, given, made

vars == <<extractionVars, stage, given, made>>

Nothing == <<>>

Limit(g) == Smaller(g.spec.max, g.embed)
LocalSpec(g) == ReserveForPrefix(Local(g.spec, Limit(g)), g.path)

Evidenced(g, ids) ==
    [ids |-> ids, evidence |-> ExpandEvidence(g.corpus, g.access, g.question, ids)]

Made(s, g) ==
    CASE s = "layout" -> DetectLayout(g)
      [] s = "lines" -> NativeLines(g)
      [] s = "cut" -> CutParts(g)
      [] s = "markdown" -> Written(g)
      [] s = "sections" -> AnnotateSections(g)
      [] s = "outline" -> OutlineSections(g.bookmarks, g.pages)
      [] s = "prose" -> ChunkElements(g.elements, g.spec, g.embed)
      [] s = "table" -> TableChunks(g.table, g.path, g.spec, g.embed)
      [] s = "paragraphs" -> ParagraphChunks(g.paragraphs, g.path, g.spec, g.embed)
      [] s = "delta" -> DiffChunks(g.old, g.new, g.limit)
      [] s = "align" -> ElementSpans(g.text, g.lines, g.regions)
      [] s = "picture" -> SourceSpans(g.text, g.regions, g.frame)
      [] s = "store" -> [points |-> Points(g), queries |-> Queries(g)]
      [] s = "ruler" -> Counted(g.calls, g.cooldown)
      [] s = "warm" -> Warmed(g)
      [] s = "metadata" -> [sample |-> TruncateToBudget(g.text, g.budget, g.headroom),
                            it |-> ExtractMetadata(g.text, g.reply)]
      [] s = "rerank" -> CrossScore(g)
      [] s = "plan" -> DecomposeQuestion(g.question, g.reply)
      [] s = "reply" -> [vision |-> VisionReply(g.reply, g.asked), chat |-> ChatReply(g.reply),
                         config |-> ResolveConfig(g.override, g.settings), list |-> ListScore(g.count, g.values)]
      [] s = "search" ->
           Evidenced(g, RetrieveChunks(g.corpus, g.access, g.question, g.k, g.settings))
      [] s = "answer" -> GroundAnswer(g)
      [] s = "places" -> CitationProvenance(g)
      [] s = "ask" -> AskTwice(g)
      [] s = "supply" -> AnswerFrom(g)
      [] s = "source" -> SourceResponse(g)
      [] s = "preview" -> PreviewResponse(g)
      [] s = "page" -> [page |-> PageResponse(g), frame |-> FrameResponse(g)]

Init ==
    /\ ExtractionInit
    /\ made = Nothing
    /\ \/ stage = "extract" /\ given = Nothing
       \/ /\ file = IdleFile
          /\ stage \in DOMAIN Inputs
          /\ given \in Inputs[stage]

Stays == UNCHANGED <<stage, given, made>>

Extract ==
    /\ stage = "extract"
    /\ ExtractionNext
    /\ Stays

Make ==
    /\ stage # "extract" /\ made = Nothing
    /\ made' = [it |-> Made(stage, given)]
    /\ UNCHANGED <<extractionVars, stage, given>>

Next == Extract \/ Make

Spec == Init /\ [][Next]_vars

\* The parent's loop, its calls, which are timed, and the clock.
Fairness ==
    /\ WF_vars(ParentStep /\ Stays)
    /\ WF_vars(ExtractionTick /\ Stays)

FairSpec == Spec /\ Fairness

(***************************************************************************)
(* Properties                                                              *)
(***************************************************************************)
\* Type invariant.
TypeOK ==
    /\ ExtractionTypeOK
    /\ stage \in {"extract"} \cup DOMAIN Inputs
    /\ stage # "extract" => parent = "idle"

\* From elements to passages nothing is lost, nothing is over the limit of the
\* embedder, and the spans of a passage are where its text stood: for prose and
\* pictures, tables, and what a new version says it changed.  Nor is anything put
\* under a heading or bookmark of another part of the file.  A passage is scored, and
\* a question searched, with all its parts.
PassagesFaithful ==
    made # Nothing =>
        /\ stage = "layout" => LayoutTruthful(given, made.it)
        /\ stage = "lines" => LinesTruthful(given, made.it)
        /\ stage = "cut" => CutsTruthful(given, made.it)
        /\ stage = "markdown" => TableReadsBack(given, made.it)
        /\ stage = "sections" => ScopesTruthful(given, made.it)
        /\ stage = "outline" => OutlineTruthful(given.bookmarks, made.it)
        /\ stage = "prose" => ProseFaithful(given.elements, Limit(given), made.it)
        /\ stage = "table" => TableFaithful(given.table, Limit(given), made.it)
        /\ stage = "paragraphs" =>
             ParagraphsFaithful(given.paragraphs, LocalSpec(given), BodyBudget(given.path, Limit(given)), made.it)
        /\ stage = "align" =>
             /\ AlignedTruthful(given.text, given.lines, made.it)
             /\ AlignedComplete(given.text, given.lines, made.it)
        /\ stage = "picture" => PicturesTruthful(given.text, given.regions, given.frame, made.it)
        /\ stage = "store" =>
             /\ PointsTruthful(given, made.it.points)
             /\ QueriesTruthful(given, made.it.queries)
             /\ RequestsTruthful(given.texts, given.batch, given.most)
        /\ stage = "metadata" => MetadataTruthful(given, made.it)
        /\ stage = "warm" => WarmTruthful(given, made.it)
        /\ stage = "ruler" => CountedTruthful(given.calls, given.cooldown, made.it)
        /\ stage = "reply" => RepliesTruthful(given, made.it)
        /\ stage = "rerank" => ScoresTruthful(given, made.it)
        /\ stage = "plan" => SearchesTruthful(given.question, given.reply, made.it)
        /\ stage = "delta" => DeltaAdds(given.old, given.new, given.limit, made.it)

\* The evidence for a question is what its user may see, and all of it that there
\* is room for: passages that may not be seen take no place, every part of the
\* question has its best passage, and neighbours come from the same section.
EvidenceVisible ==
    made # Nothing /\ stage = "search" =>
        /\ RulesAgree(given.corpus, given.access)
        /\ Retrieved(given.corpus, given.access, given.k, made.it.ids)
        /\ Full(given.corpus, given.access, given.question, given.k, given.settings, made.it.ids)
        /\ Covered(given.corpus, given.access, given.question, given.k, given.settings, made.it.ids)
        /\ Expanded(given.corpus, given.access, given.question, made.it.ids, made.it.evidence)

\* A citation points to a passage the model was shown, under a heading of its own
\* source, and what is quoted from it stands there, in one place; an earlier answer
\* or general knowledge stands in only where nothing that was asked tells them apart.
\* Who follows a citation
\* is shown the bytes, the preview and the page of that version, and told what is
\* left out.
CitationsTruthful ==
    made # Nothing =>
        /\ stage = "answer" =>
             /\ PackedTruthful(given.evidence, given.budget)
             /\ AnswerTruthful(given, made.it)
        /\ stage = "places" => ProvenanceTruthful(given, made.it)
        /\ stage = "ask" => AskTruthful(given, made.it)
        /\ stage = "supply" => SuppliedTruthful(given, made.it)
        /\ stage = "source" => RangeTruthful(given, made.it)
        /\ stage = "preview" => PreviewTruthful(given, made.it)
        /\ stage = "page" => PictureTruthful(given, made.it.page) /\ PictureTruthful(given, made.it.frame)

(***************************************************************************)
(* What the code says of itself and does not do.                           *)
(***************************************************************************)
\* A picture is cut out of its page where it stands, and so are the tables in it made
\* white, also on a page whose crop box does not begin at 0 (pdf.py 74-77: positions
\* are of the media box, the bitmap of the crop box).
PicturesCutWhereTheyStand ==
    made # Nothing /\ stage = "cut" /\ made.it # Unusable => PictureCut(given, made.it.picture)

\* Paragraphs of whatever sentences are packed into passages that fit (chunker.py
\* 441-443: no unit exceeds the target, and no passage the target with the overlap).
ParagraphsFit ==
    made # Nothing /\ stage = "paragraphs" => made.it # Failed

\* A heading that stands in no passage of its own is whole in front of those under it
\* (chunker.py 14-16: every passage carries its section heading).
HeadingsKept ==
    made # Nothing /\ stage = "prose" /\ made.it # Failed =>
        HeadingsHeld(given.elements, Limit(given), made.it)

\* What a query replied may be supplied to /answer as it is (retrieval_routes.py
\* 121-123: the fields of POST /query, passed straight through).
RepliesPassThrough ==
    made # Nothing /\ stage = "supply" /\ given.edit = "none" => made.it.status = 200

\* General knowledge answers only where the documents gave no answer (README.md
\* 160-163: a question without sufficient retrieved evidence may receive one).
GeneralIsLastResort ==
    made # Nothing /\ stage = "ask" =>
        \A n \in 1..2 :
           made.it[n].status = 200 /\ made.it[n].answer.status = "general_answer" =>
               WithoutEvidence(given.worlds[n].run)
================================================================================
