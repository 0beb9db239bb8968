------------------------------ MODULE MCPromises ------------------------------
(***************************************************************************)
(* What the code says of itself and does not do, over the small inputs of  *)
(* MCPassages: one promise after the other, each at the stage it is about, *)
(* and on to the next one only where it was seen broken.  The file is      *)
(* there all along, and its extraction comes last.                         *)
(***************************************************************************)
EXTENDS MCPassages

VARIABLE promise   \* the promise in question; those before it were seen broken

MCDocxFile == MCDocx(<<MCChild("p", TRUE, <<MCPicture(TRUE, TRUE)>>, 0)>>, <<MCEntry>>)
MCLinkedFile == [MCDocxFile EXCEPT !.parts = <<>>]
MCLinkedFiles == {MCLinkedFile}

\* Parts of a page inside it; sentences, headings and replies as a query may give them.
MCCutInside == {g \in MCCuts : Inside(g.box, g.page.box) /\ g.page.scale = 2}
MCUnheaded == {g \in MCParagraphs : g.path = 0}
MCHeaded ==
    {[spec |-> [target |-> 6, overlap |-> 1, max |-> 12, min |-> 4], embed |-> 20,
      elements |-> <<[modality |-> "text", text |-> MCText(1, heading \o <<"P">> \o body), run |-> 1, pdf |-> FALSE,
                      headed |-> TRUE, path |-> path]>>] :
       path \in {3, 4}, heading \in {<<"x", "x">>, <<"x", "x", "x">>}, body \in {<<"x">>, <<"x", "x", "_", "x">>}}
MCWide == {g \in MCSupplies : \A n \in DOMAIN g.hits : g.hits[n].region > 0}
MCFewSearches == {g \in MCSupplies : g.searches <= MostSearches}

Promised ==
    <<[stage |-> "cut", inputs |-> MCCutInside], [stage |-> "paragraphs", inputs |-> MCUnheaded],
      [stage |-> "prose", inputs |-> MCHeaded], [stage |-> "supply", inputs |-> MCWide],
      [stage |-> "supply", inputs |-> MCFewSearches], [stage |-> "ask", inputs |-> MCAsked],
      [stage |-> "extract", inputs |-> {Nothing}]>>
MCPromisedInputs ==
    [cut |-> MCCutInside, paragraphs |-> MCUnheaded, prose |-> MCHeaded, supply |-> MCSupplies, ask |-> MCAsked]

\* Each of these is about one stage only, and so about the promise in question.
PromiseKept ==
    /\ PicturesCutWhereTheyStand /\ ParagraphsFit /\ HeadingsKept
    /\ RepliesPassThrough /\ GeneralIsLastResort /\ NothingPassedOver

PromisesInit ==
    /\ promise = 1
    /\ stage = Promised[1].stage /\ given \in Promised[1].inputs /\ made = Nothing
    /\ file = IdleFile /\ ExtractionInit

NextPromise ==
    /\ ~PromiseKept /\ promise < Len(Promised)
    /\ promise' = promise + 1
    /\ stage' = Promised[promise'].stage /\ given' \in Promised[promise'].inputs /\ made' = Nothing
    /\ UNCHANGED extractionVars

PromisesSpec == PromisesInit /\ [][NextPromise \/ (Next /\ UNCHANGED promise)]_<<vars, promise>>

\* Of what the code says of itself, one thing at least is so: pictures are cut where
\* they stand (pdf.py 74-77), no passage exceeds the target with its overlap (chunker.py
\* 441-443) nor is without its heading (14-16), what a query replied may be supplied to
\* /answer, with its searches and with its regions (retrieval_routes.py 121-123), general
\* knowledge answers only without evidence (README.md 160-163), and a DOCX file is emitted
\* with all it holds (docx_loader.py 3).
SomePromiseKept == promise = Len(Promised) => PromiseKept
================================================================================
