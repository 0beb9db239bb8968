------------------------------ MODULE Extraction ------------------------------
(***************************************************************************)
(* The extraction of a file by a child process:                            *)
(*   app/ingest/pipeline/parse_process.py   both ends of the pipe          *)
(*   app/ingest/pipeline/loaders/__init__.py  extract_document, in the     *)
(*                                            child                        *)
(*                                                                         *)
(* The child walks the steps of the file's loader and sends a message when *)
(* it needs a model; the parent polls the pipe, watches the lease and the  *)
(* clock, calls the models, keeps every answer as an artifact of the job,  *)
(* and counts calls and tokens.  Either may die.  A job is tried again     *)
(* with the artifacts of the earlier tries.                                *)
(*                                                                         *)
(* left is the time until native_deadline; Tick counts it down, but not    *)
(* during a vision call, whose time is added to the deadline.  The vision  *)
(* call has a time limit of its own.                                       *)
(***************************************************************************)
EXTENDS Loaders

CONSTANTS
    Files,            \* the files that may come
    MaxVisionCalls,   \* settings.max_vision_calls
    MaxVisionTokens,  \* settings.max_vision_tokens
    VisionMaxTokens,  \* settings.vision_max_tokens
    ParseTime,        \* settings.parse_timeout_seconds
    MaxTries          \* bound on the attempts of a job

ASSUME ExtractionAssumption ==
    /\ {MaxVisionCalls, MaxVisionTokens, VisionMaxTokens, ParseTime, MaxTries} \subseteq Nat \ {0}

\* A file is whatever a format library may find in one.
ASSUME FilesAssumption == \A f \in Files : WellFormed(f)

VARIABLES
    file,       \* the file of the job
    plan,       \* the steps of its loader and the items there are in it
    tries,      \* attempts of the job so far
    saved,      \* extraction artifacts of the job: picture -> answer, and the result
    parent,     \* "idle", "poll", "look", "asking", "done", "failed", "refused"
    child,      \* "none", "run", "wait" or "over"
    at,         \* the step of the loader the child is at
    message,    \* the step whose message is in the pipe, 0 for none
    answer,     \* what the parent wrote back, "" for nothing
    page,       \* elements of the page in hand
    elements,   \* elements in order
    calls,      \* vision messages of this attempt
    reused,     \* those answered from an artifact
    tokens,     \* completion tokens of this attempt
    left,       \* time until native_deadline
    asks,       \* history: calls of the vision model of this attempt
    paid,       \* history: all of the job's
    cut         \* history: those whose answer never was saved

pipe == <<message, answer>>
childVars == <<child, at, page, elements>>
counts == <<calls, reused, tokens>>
history == <<asks, paid, cut>>
extractionVars == <<file, plan, tries, saved, parent, pipe, childVars, counts, left, history>>

Result == <<0, "result", 0>>
LoaderSteps == plan.steps
Send(k) == message' = k
TheEnd == Len(LoaderSteps) + 1
Broken == TheEnd + 1          \* an "error" message
Texts(els) == Cardinality({i \in 1..Len(els) : els[i].op # "omit"})
Omitted(els) == Len(els) - Texts(els)
Busy == parent \in {"poll", "look", "asking"}

\* An artifact of the job is written unless there is one of that name.
Keep(key, what) == saved' = [i \in DOMAIN saved \cup {key} |-> IF i \in DOMAIN saved THEN saved[i] ELSE what]

ExtractionTypeOK ==
    /\ tries \in 0..MaxTries
    /\ \A i \in DOMAIN saved : saved[i] \in {"text", "empty", "regions", "elements"}
    /\ parent \in {"idle", "poll", "look", "asking", "done", "failed", "refused"}
    /\ child \in {"none", "run", "wait", "over"}
    /\ at \in 0..TheEnd
    /\ message \in 0..Broken
    /\ answer \in {"", "text", "empty", "regions"}
    /\ calls \in 0..(MaxVisionCalls + 1) /\ reused \in 0..MaxVisionCalls
    /\ tokens \in 0..MaxVisionTokens
    /\ left \in 0..ParseTime
    /\ asks \in Nat /\ paid \in Nat /\ cut \in Nat

ExtractionInit ==
    /\ file \in Files
    /\ plan = [steps |-> Steps(file), items |-> Items(file)]
    /\ tries = 0
    /\ saved = <<>>
    /\ parent = "idle" /\ child = "none"
    /\ at = 0 /\ message = 0 /\ answer = ""
    /\ page = <<>> /\ elements = <<>>
    /\ calls = 0 /\ reused = 0 /\ tokens = 0
    /\ left = 0
    /\ asks = 0 /\ paid = 0 /\ cut = 0

(***************************************************************************)
(* extract_bounded                                                         *)
(***************************************************************************)
\* The finally clause: the child is killed and joined.
End(how) ==
    /\ parent' = how
    /\ child' = "none"
    /\ at' = 0 /\ message' = 0 /\ answer' = ""
    /\ page' = <<>>
    /\ left' = 0

\* A finished extraction of the same file under the same settings is used again.
Reuse ==
    /\ parent = "idle" /\ tries < MaxTries
    /\ Result \in DOMAIN saved
    /\ tries' = tries + 1
    /\ parent' = "done"
    /\ calls' = 0 /\ reused' = 0 /\ tokens' = 0 /\ asks' = 0
    /\ UNCHANGED <<file, plan, saved, childVars, pipe, left, paid, cut>>

Spawn ==
    /\ parent = "idle" /\ tries < MaxTries
    /\ Result \notin DOMAIN saved
    /\ tries' = tries + 1
    /\ parent' = "poll" /\ child' = "run"
    /\ at' = 1 /\ page' = <<>> /\ elements' = <<>>
    /\ calls' = 0 /\ reused' = 0 /\ tokens' = 0 /\ asks' = 0
    /\ left' = ParseTime
    /\ UNCHANGED <<file, plan, saved, pipe, paid, cut>>

\* check_lease raises, between polls.
LeaseLost ==
    /\ parent = "poll"
    /\ End("failed")
    /\ UNCHANGED <<file, plan, tries, saved, elements, counts, history>>

\* Defect: the deadline is only looked at when the child is gone.
TimesOutWhenGone ==
    /\ parent = "poll" /\ left = 0 /\ child = "over"
    /\ End("failed")
    /\ UNCHANGED <<file, plan, tries, saved, elements, counts, history>>

TimesOut ==
    /\ parent = "poll" /\ left = 0
    /\ End("failed")
    /\ UNCHANGED <<file, plan, tries, saved, elements, counts, history>>

\* poll() found the pipe empty; whether the child lives is asked after that.
PollNothing ==
    /\ parent = "poll" /\ left > 0
    /\ message = 0 /\ child # "over"
    /\ parent' = "look"
    /\ UNCHANGED <<file, plan, tries, saved, childVars, pipe, counts, left, history>>

\* A child that is gone by now counts as one that sent nothing.
LookAtChild ==
    /\ parent = "look"
    /\ IF child = "over" THEN End("refused")
       ELSE /\ parent' = "poll"
            /\ UNCHANGED <<child, at, page, pipe, left>>
    /\ UNCHANGED <<file, plan, tries, saved, elements, counts, history>>

\* The pipe ended before a whole message.
ReceiveEnd ==
    /\ parent = "poll" /\ left > 0 /\ message = 0 /\ child = "over"
    /\ End("refused")
    /\ UNCHANGED <<file, plan, tries, saved, elements, counts, history>>

ReceiveError ==
    /\ parent = "poll" /\ left > 0 /\ message = Broken
    /\ End("refused")
    /\ UNCHANGED <<file, plan, tries, saved, elements, counts, history>>

ReceiveResult ==
    /\ parent = "poll" /\ left > 0 /\ message = TheEnd
    /\ Keep(Result, "elements")
    /\ End("done")
    /\ UNCHANGED <<file, plan, tries, elements, counts, history>>

\* Writing the answer into the pipe of a child that died is an error.
Answer(how) ==
    IF child = "over" THEN End("failed")
    ELSE /\ parent' = "poll" /\ message' = 0 /\ answer' = how
         /\ UNCHANGED <<child, at, page, left>>

Asked(op) == parent = "poll" /\ left > 0 /\ message \in 1..Len(LoaderSteps) /\ LoaderSteps[message].op = op
Image == LoaderSteps[message].image

\* The lease is checked before the layout is kept.
ReceiveLayout ==
    /\ Asked("layout")
    /\ \/ /\ Keep(Image, "regions")
          /\ Answer("regions")
       \/ /\ End("failed")
          /\ UNCHANGED saved
    /\ UNCHANGED <<file, plan, tries, elements, counts, history>>

TooManyCalls == calls + 1 > MaxVisionCalls

\* Defect: answers of earlier attempts are not looked for.
KnownForgotten(image) == FALSE
Known(image) == image \in DOMAIN saved

ReceiveVision ==
    /\ Asked("see")
    /\ calls' = calls + 1
    /\ IF TooManyCalls \/ (~Known(Image) /\ tokens >= MaxVisionTokens)
       THEN End("refused") /\ UNCHANGED <<reused, history>>
       ELSE IF Known(Image)
       THEN /\ reused' = reused + 1
            /\ Answer(saved[Image])
            /\ UNCHANGED history
       ELSE /\ parent' = "asking"
            /\ asks' = asks + 1 /\ paid' = paid + 1
            /\ UNCHANGED <<child, at, page, pipe, left, reused, cut>>
    /\ UNCHANGED <<file, plan, tries, saved, elements, tokens>>

\* Defect: every call may spend the most a call may.
RequestTokensUncapped == VisionMaxTokens

\* What the model may still spend on the picture.
RequestTokens == Least(VisionMaxTokens, MaxVisionTokens - tokens)

VisionAnswers ==
    /\ parent = "asking"
    /\ \E used \in {0, RequestTokens}, text \in {"text", "empty"} :
          /\ tokens' = tokens + used
          /\ Keep(Image, text)
          /\ Answer(text)
    /\ UNCHANGED <<file, plan, tries, elements, calls, reused, history>>

\* The gateway fails or accounts for more than was asked, or the lease is lost
\* while it works: the answer is not kept.
VisionFails ==
    /\ parent = "asking"
    /\ cut' = cut + 1
    /\ \/ End("failed")
       \/ End("refused")
    /\ UNCHANGED <<file, plan, tries, saved, elements, counts, asks, paid>>

\* The worker dies; the child is left with a broken pipe.
WorkerDies ==
    /\ Busy
    /\ cut' = IF parent = "asking" THEN cut + 1 ELSE cut
    /\ End("failed")
    /\ UNCHANGED <<file, plan, tries, saved, elements, counts, asks, paid>>

\* The failed job is due again, or a later stage of the run failed; a refused file
\* is not tried again.
TryAgain ==
    /\ parent \in {"failed", "done"} /\ tries < MaxTries
    /\ parent' = "idle"
    /\ elements' = IF parent = "done" THEN elements ELSE <<>>
    /\ UNCHANGED <<file, plan, tries, saved, child, at, page, pipe, counts, left, history>>

(***************************************************************************)
(* _native_child                                                           *)
(***************************************************************************)
\* One step of the loader that needs nobody.
ChildStep ==
    /\ child = "run" /\ at <= Len(LoaderSteps)
    /\ LET step == LoaderSteps[at]
       IN  \/ /\ step.op \in {"emit", "omit"}
              /\ page' = Append(page, step)
              /\ at' = at + 1
              /\ UNCHANGED <<elements, child, message>>
           \/ /\ step.op = "page"
              /\ elements' = elements \o ReadingOrder(page, step.how = "rows")
              /\ page' = <<>>
              /\ at' = at + 1
              /\ UNCHANGED <<child, message>>
           \/ /\ step.op \in {"layout", "see"}
              /\ Send(at)
              /\ child' = "wait"
              /\ UNCHANGED <<at, page, elements>>
           \/ /\ step.op = "raise"
              /\ Send(Broken)
              /\ child' = "over"
              /\ UNCHANGED <<at, page, elements>>
    /\ UNCHANGED <<file, plan, tries, saved, parent, answer, counts, left, history>>

\* The answer of a model; an empty one is skipped, an omission, or the end.
ChildReads ==
    /\ child = "wait" /\ answer # ""
    /\ answer' = ""
    /\ LET step == LoaderSteps[at]
       IN  IF answer = "empty" /\ step.how = "raise"
           THEN /\ Send(Broken)
                /\ child' = "over"
                /\ UNCHANGED <<at, page>>
           ELSE /\ page' = IF step.op = "layout" \/ step.how = "skip" THEN page
                           ELSE IF answer = "empty" THEN Append(page, [step EXCEPT !.op = "omit"])
                           ELSE Append(page, [step EXCEPT !.op = "emit"])
                /\ at' = at + 1
                /\ child' = "run"
                /\ UNCHANGED message
    /\ UNCHANGED <<file, plan, tries, saved, parent, elements, counts, left, history>>

\* extract_document returns or finds that there is no evidence; the child exits.
ChildEnds ==
    /\ child = "run" /\ at = TheEnd
    /\ LET all == elements \o page
       IN  /\ elements' = all
           /\ Send(IF NoEvidence(file, Texts(all), Omitted(all)) THEN Broken ELSE TheEnd)
    /\ page' = <<>>
    /\ child' = "over"
    /\ UNCHANGED <<file, plan, tries, saved, parent, at, answer, counts, left, history>>

\* Memory or CPU limits, or a fault in a library.
ChildDies ==
    /\ child \in {"run", "wait"}
    /\ child' = "over"
    /\ UNCHANGED <<file, plan, tries, saved, parent, at, page, elements, pipe, counts, left, history>>

ExtractionTick ==
    /\ parent \in {"poll", "look"} /\ left > 0
    /\ left' = left - 1
    /\ UNCHANGED <<file, plan, tries, saved, parent, childVars, pipe, counts, history>>

Receive == ReceiveEnd \/ ReceiveError \/ ReceiveResult \/ ReceiveLayout \/ ReceiveVision
ParentStep == TimesOut \/ PollNothing \/ LookAtChild \/ Receive \/ VisionAnswers \/ VisionFails

ExtractionNext ==
    \/ Reuse \/ Spawn \/ LeaseLost \/ ParentStep \/ WorkerDies \/ TryAgain
    \/ ChildStep \/ ChildReads \/ ChildEnds \/ ChildDies \/ ExtractionTick

(***************************************************************************)
(* Properties                                                              *)
(***************************************************************************)
\* An extraction that is handed on accounts for every item of the file but those a
\* loader passes over, which are named: a table, picture, figure, chart, line or sheet
\* is in an element, in an omission, or in what covers it, whatever order the page was
\* read in, however often the parsing was cut off and tried again.
SourceAccounted ==
    parent = "done" /\ elements # <<>> =>
        /\ plan.items \ PassedOver(file) \subseteq UNION {elements[i].of : i \in 1..Len(elements)}
        /\ Texts(elements) > 0
        /\ \A i \in 1..Len(elements) : elements[i].at # <<>> =>
              \A item \in elements[i].of :
                 \/ item[3] \in elements[i].at[1]..elements[i].at[2]
                 \/ file.lines[item[3]].kind = "heading"

\* Of a file whose extraction is handed on, everything is in an element or recorded as
\* left out (docx_loader.py 1-6: paragraphs, tables and embedded images are emitted;
\* loaders/__init__.py 116-118: an extraction without omissions is "complete").
NothingPassedOver ==
    parent = "done" /\ elements # <<>> =>
        plan.items \subseteq UNION {elements[i].of : i \in 1..Len(elements)}

\* Every call of the vision model is one whose answer is kept for the retries of
\* the job, or one that was cut off: no picture is paid for twice.  The calls and
\* tokens an attempt reports are those it made, within its budget.
VisionAccounted ==
    /\ paid = cut + Cardinality({i \in DOMAIN saved : saved[i] \in {"text", "empty"}})
                + (IF parent = "asking" THEN 1 ELSE 0)
    /\ parent = "done" => calls - reused = asks
    /\ tokens <= MaxVisionTokens

\* An attempt ends, whether or not the child ever answers.
ExtractionEnds == Busy ~> ~Busy
================================================================================
