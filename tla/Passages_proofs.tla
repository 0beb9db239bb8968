---------------------------- MODULE Passages_proofs ----------------------------
(***************************************************************************)
(* Theorems about two stages of Passages (the specification the runs       *)
(* check), the extraction of a file and the search:                        *)
(*                                                                         *)
(*   PassagesTyped                  TypeOK                                 *)
(*   ExtractionAccountsForSource    SourceAccounted                        *)
(*   ExtractionAccountsForVision    VisionAccounted                        *)
(*   EvidenceIsVisible              EvidenceVisible                        *)
(*                                                                         *)
(* The first three follow from one inductive invariant, PassagesInv: what  *)
(* the child has passed of its loader is in its elements or on its page    *)
(* (Read), what it waits for is what its parent was asked (Attended), and  *)
(* the counts and artifacts tell what was paid for (Ledger).  That the     *)
(* steps of every loader account for its file is LoadersAccountForFiles    *)
(* (Loaders_proofs).                                                       *)
(*                                                                         *)
(* The last follows from what the operators of the search return, stated   *)
(* once for every list they make (Finds: visible passages, none twice;     *)
(* Enough: as many as there are to be had) and carried from Search through *)
(* RetrieveChunks to ExpandEvidence.                                       *)
(***************************************************************************)
EXTENDS Passages, Loaders_proofs

(***************************************************************************)
(* The invariant of the extraction.                                        *)
(***************************************************************************)
\* What an attempt has read: steps, with the answer they got.
ReadSteps == {e \in LoaderStep : ReadsThere(file, e)}

ModelAnswers == {"text", "empty"}

\* An artifact is kept under the name of the picture, the layout or the result it is.
SavedSound(s) ==
    /\ IsFiniteSet(DOMAIN s)
    /\ \A i \in DOMAIN s :
          \/ i[2] = "result" /\ s[i] = "elements"
          \/ i[2] = "layout" /\ s[i] = "regions"
          \/ i[2] \notin {"result", "layout"} /\ s[i] \in ModelAnswers

Typed ==
    /\ file \in Files
    /\ plan = [steps |-> Steps(file), items |-> Items(file)]
    /\ tries \in 0..MaxTries
    /\ SavedSound(saved)
    /\ parent \in {"idle", "poll", "look", "asking", "done", "failed", "refused"}
    /\ child \in {"none", "run", "wait", "over"}
    /\ at \in 0..TheEnd
    /\ message \in 0..Broken
    /\ answer \in {"", "text", "empty", "regions"}
    /\ page \in Seq(ReadSteps) /\ elements \in Seq(ReadSteps)
    /\ left \in 0..ParseTime

CountsTyped ==
    /\ calls \in 0..(MaxVisionCalls + 1) /\ reused \in 0..MaxVisionCalls
    /\ tokens \in 0..MaxVisionTokens
    /\ asks \in Nat /\ paid \in Nat /\ cut \in Nat

\* The child has sent the step it waits at, or been answered; what the vision model
\* is asked is the picture of that step, which no attempt had an answer to.
Attended ==
    /\ ~Busy => child = "none" /\ message = 0 /\ answer = "" /\ page = <<>>
    /\ Busy => child # "none" /\ at \in 1..TheEnd
    /\ child = "run" => message = 0 /\ answer = ""
    /\ child = "wait" =>
         /\ at \in 1..Len(LoaderSteps)
         /\ LoaderSteps[at].op \in {"layout", "see"}
         /\ (message = at /\ answer = "") \/ (message = 0 /\ answer # "")
    /\ message \in 1..Len(LoaderSteps) => LoaderSteps[message].op \in {"layout", "see"} /\ answer = ""
    /\ parent = "asking" =>
         /\ message \in 1..Len(LoaderSteps)
         /\ LoaderSteps[message].op = "see"
         /\ Image \notin DOMAIN saved

\* What the extraction of the file has to account for.
Due == plan.items \ PassedOver(file)

\* Everything there is in the file is in the elements, but what is passed over.
Whole ==
    /\ Due \subseteq Told(elements)
    /\ elements # <<>> => Texts(elements) > 0

\* What the child has passed is read; what it sends at the end is everything.
Read ==
    /\ child \in {"run", "wait"} =>
         \A k \in 1..(at - 1) :
            LoaderSteps[k].op # "raise" /\ LoaderSteps[k].of \subseteq Told(elements) \cup Told(page)
    /\ message = TheEnd => Whole
    /\ parent \in {"idle", "done"} /\ elements # <<>> => Whole

AnsweredPictures(s) == {i \in DOMAIN s : s[i] \in ModelAnswers}

\* Every call was one of this attempt's, or its answer is kept, or it was cut off.
Ledger ==
    /\ paid = cut + Cardinality(AnsweredPictures(saved)) + (IF parent = "asking" THEN 1 ELSE 0)
    /\ parent \in {"poll", "look", "asking", "done"} => calls = reused + asks /\ calls <= MaxVisionCalls

ExtractionInv == Typed /\ CountsTyped /\ Attended /\ Read /\ Ledger

PassagesInv ==
    /\ stage \in {"extract"} \cup DOMAIN Inputs
    /\ stage # "extract" => parent = "idle"
    /\ ExtractionInv

\* The steps an attempt walks account for the file.
LEMMA PlanSound ==
  ASSUME Typed
  PROVE  /\ AccountsFor(file, LoaderSteps, Due)
         /\ LoaderSteps \in Seq(SoundSteps) /\ Len(LoaderSteps) \in Nat
         /\ \A k \in 1..Len(LoaderSteps) : LoaderSteps[k] \in SoundSteps
<1>1. file \in Files /\ plan.steps = Steps(file) /\ plan.items = Items(file)
  BY DEF Typed
<1>2. WellFormed(file)
  BY <1>1, FilesAssumption
<1>3. AccountsFor(file, LoaderSteps, Due)
  BY <1>1, <1>2, LoadersAccountForFiles DEF LoaderSteps, Due
<1>4. LoaderSteps \in Seq(SoundSteps)
  BY <1>3 DEF AccountsFor
<1> HIDE DEF LoaderSteps
<1>5. Len(LoaderSteps) \in Nat /\ \A k \in 1..Len(LoaderSteps) : LoaderSteps[k] \in SoundSteps
  BY <1>4, BoxesOfSeq
<1> QED
  BY <1>3, <1>4, <1>5

\* A step of the loader, with the answer it got, is a step that is read.
LEMMA StepRead ==
  ASSUME Typed, NEW k \in 1..Len(LoaderSteps), NEW op \in {"emit", "omit"}
  PROVE  /\ LoaderSteps[k] \in ReadSteps
         /\ [LoaderSteps[k] EXCEPT !.op = op] \in ReadSteps
         /\ [LoaderSteps[k] EXCEPT !.op = op].of = LoaderSteps[k].of
<1> DEFINE s == LoaderSteps[k]
           t == [s EXCEPT !.op = op]
<1>1. s \in SoundSteps /\ ReadsThere(file, s)
  BY PlanSound DEF AccountsFor
<1> HIDE DEF s
<1>2. s \in LoaderStep
  BY <1>1 DEF SoundSteps
<1>3. t \in LoaderStep /\ t.of = s.of /\ t.at = s.at
  BY <1>2 DEF LoaderStep
<1> HIDE DEF t
<1>4. ReadsThere(file, t)
  BY <1>1, <1>3 DEF ReadsThere
<1>5. s \in ReadSteps /\ t \in ReadSteps
  BY <1>1, <1>2, <1>3, <1>4 DEF ReadSteps
<1> QED
  BY <1>3, <1>5 DEF s, t

\* What is told depends on which elements there are, not on their order.
LEMMA ToldRange ==
  ASSUME NEW T, NEW els, els \in Seq(T)
  PROVE  Told(els) = UNION {b.of : b \in ToSet(els)}
<1>1. ToSet(els) = {els[k] : k \in 1..Len(els)}
  BY DEF ToSet
<1>2. \A x : x \in Told(els) <=> \E k \in 1..Len(els) : x \in els[k].of
  BY DEF Told
<1>3. \A x : x \in UNION {b.of : b \in ToSet(els)} <=> \E b \in ToSet(els) : x \in b.of
  OBVIOUS
<1> DEFINE u == UNION {b.of : b \in ToSet(els)}
<1> HIDE DEF u
<1>4. \A x : x \in u <=> \E b \in ToSet(els) : x \in b.of
  BY <1>3 DEF u
<1>5. Told(els) = u
  BY <1>1, <1>2, <1>4
<1> QED
  BY <1>5 DEF u

\* Two sequences tell what each of them tells.
LEMMA ToldTogether ==
  ASSUME NEW T, NEW s, s \in Seq(T), NEW t, t \in Seq(T)
  PROVE  s \o t \in Seq(T) /\ Told(s \o t) = Told(s) \cup Told(t)
<1> DEFINE u == s \o t
<1>1. u \in Seq(T) /\ ToSet(u) = ToSet(s) \cup ToSet(t)
  BY ConcatRange
<1> HIDE DEF u
<1>2. /\ Told(u) = UNION {b.of : b \in ToSet(u)}
      /\ Told(s) = UNION {b.of : b \in ToSet(s)}
      /\ Told(t) = UNION {b.of : b \in ToSet(t)}
  BY <1>1, ToldRange
<1>3. Told(u) = Told(s) \cup Told(t)
  BY <1>1, <1>2
<1> QED
  BY <1>1, <1>3 DEF u

\* Putting a page in its reading order keeps what it tells.
LEMMA PageTold ==
  ASSUME NEW els, els \in Seq(ReadSteps), NEW labels
  PROVE  ReadingOrder(els, labels) \in Seq(ReadSteps) /\ Told(ReadingOrder(els, labels)) = Told(els)
<1> DEFINE r == ReadingOrder(els, labels)
<1>1. \A k \in 1..Len(els) : els[k] \in ReadSteps
  BY BoxesOfSeq
<1>2. \A k \in 1..Len(els) : els[k].top \in Int /\ els[k].left \in Int
  BY <1>1 DEF ReadSteps, LoaderStep
<1>3. Standing(els)
  BY <1>2 DEF Standing
<1>4. r \in Seq(ReadSteps) /\ ToSet(r) = ToSet(els)
  BY <1>3, ReadingOrderRange
<1> HIDE DEF r
<1>5. Told(r) = UNION {b.of : b \in ToSet(r)} /\ Told(els) = UNION {b.of : b \in ToSet(els)}
  BY <1>4, ToldRange
<1> QED
  BY <1>4, <1>5 DEF r

\* Elements that are evidence are some with text, or none at all.
LEMMA EvidenceHasText ==
  ASSUME NEW T, NEW els, els \in Seq(T), els # <<>>, ~NoEvidence(file, Texts(els), Omitted(els))
  PROVE  Texts(els) > 0
<1> DEFINE S == {i \in 1..Len(els) : els[i].op # "omit"}
<1>1. Len(els) \in Nat /\ Len(els) > 0
  OBVIOUS
<1>2. IsFiniteSet(S)
  <2>1. IsFiniteSet(1..Len(els))
    BY <1>1, FS_Interval
  <2> QED
    BY <2>1, FS_Subset
<1>3. Cardinality(S) \in Nat
  BY <1>2, FS_CardinalityType
<1>4. Texts(els) = Cardinality(S)
  BY DEF Texts
<1> HIDE DEF S
<1>5. Texts(els) = 0 => Omitted(els) > 0
  BY <1>1 DEF Omitted
<1> QED
  BY <1>3, <1>4, <1>5 DEF NoEvidence

(***************************************************************************)
(* The artifacts.                                                          *)
(***************************************************************************)
AfterKeeping(s, key, what) == [i \in DOMAIN s \cup {key} |-> IF i \in DOMAIN s THEN s[i] ELSE what]

\* An artifact that is kept under its own name leaves the artifacts sound.
LEMMA SoundAfterKeeping ==
  ASSUME NEW s, SavedSound(s), NEW key, NEW what,
         \/ key[2] = "result" /\ what = "elements"
         \/ key[2] = "layout" /\ what = "regions"
         \/ key[2] \notin {"result", "layout"} /\ what \in ModelAnswers
  PROVE  SavedSound(AfterKeeping(s, key, what))
<1> DEFINE k == AfterKeeping(s, key, what)
<1>1. /\ DOMAIN k = DOMAIN s \cup {key} /\ (key \notin DOMAIN s => k[key] = what)
      /\ \A i \in DOMAIN s : k[i] = s[i]
  BY DEF AfterKeeping
<1> HIDE DEF k
<1>2. IsFiniteSet(DOMAIN s \cup {key})
  BY FS_AddElement DEF SavedSound
<1> QED
  BY <1>1, <1>2 DEF SavedSound, k

\* The pictures that have an answer can be counted.
LEMMA AnsweredFinite ==
  ASSUME NEW s, SavedSound(s)
  PROVE  IsFiniteSet(AnsweredPictures(s)) /\ Cardinality(AnsweredPictures(s)) \in Nat
<1>1. AnsweredPictures(s) \subseteq DOMAIN s /\ IsFiniteSet(DOMAIN s)
  BY DEF AnsweredPictures, SavedSound
<1>2. IsFiniteSet(AnsweredPictures(s))
  BY <1>1, FS_Subset
<1> QED
  BY <1>2, FS_CardinalityType

\* A first answer is one more; a layout or a result is none.
LEMMA AnswersAfterKeeping ==
  ASSUME NEW s, SavedSound(s), NEW key, NEW what
  PROVE  /\ what \in ModelAnswers /\ key \notin DOMAIN s =>
              Cardinality(AnsweredPictures(AfterKeeping(s, key, what))) = Cardinality(AnsweredPictures(s)) + 1
         /\ what \notin ModelAnswers /\ key[2] \in {"layout", "result"} =>
              Cardinality(AnsweredPictures(AfterKeeping(s, key, what))) = Cardinality(AnsweredPictures(s))
<1> DEFINE k == AfterKeeping(s, key, what)
<1>1. /\ DOMAIN k = DOMAIN s \cup {key} /\ (key \notin DOMAIN s => k[key] = what)
      /\ \A i \in DOMAIN s : k[i] = s[i]
  BY DEF AfterKeeping
<1> HIDE DEF k
<1>2. ASSUME what \in ModelAnswers, key \notin DOMAIN s
      PROVE  Cardinality(AnsweredPictures(k)) = Cardinality(AnsweredPictures(s)) + 1
  <2>1. AnsweredPictures(k) = AnsweredPictures(s) \cup {key} /\ key \notin AnsweredPictures(s)
    BY <1>1, <1>2 DEF AnsweredPictures
  <2> QED
    BY <2>1, AnsweredFinite, FS_AddElement
<1>3. ASSUME what \notin ModelAnswers, key[2] \in {"layout", "result"}
      PROVE  AnsweredPictures(k) = AnsweredPictures(s)
  <2>1. key \in DOMAIN s => s[key] \notin ModelAnswers
    BY <1>3 DEF SavedSound, ModelAnswers
  <2> QED
    BY <1>1, <1>3, <2>1 DEF AnsweredPictures
<1>4. k = AfterKeeping(s, key, what)
  BY DEF k
<1> QED
  BY <1>2, <1>3, <1>4

\* What holds of the attempt in hand is the same of it a step later.
LEMMA SameFile ==
  ASSUME Typed, file' = file, plan' = plan
  PROVE  /\ ReadSteps' = ReadSteps /\ LoaderSteps' = LoaderSteps
         /\ TheEnd' = TheEnd /\ Broken' = Broken
         /\ file' \in Files /\ plan' = [steps |-> Steps(file'), items |-> Items(file')]
         /\ TheEnd = Len(LoaderSteps) + 1 /\ Broken = Len(LoaderSteps) + 2 /\ Len(LoaderSteps) \in Nat
<1>1. Len(LoaderSteps) \in Nat
  BY PlanSound
<1>2. ReadSteps' = ReadSteps
  BY DEF ReadSteps
<1>3. LoaderSteps' = LoaderSteps
  BY DEF LoaderSteps
<1>4. file' \in Files /\ plan' = [steps |-> Steps(file'), items |-> Items(file')]
  BY DEF Typed
<1> HIDE DEF LoaderSteps
<1>5. TheEnd' = TheEnd /\ Broken' = Broken /\ TheEnd = Len(LoaderSteps) + 1 /\ Broken = Len(LoaderSteps) + 2
  BY <1>1, <1>3 DEF TheEnd, Broken
<1> QED
  BY <1>1, <1>2, <1>3, <1>4, <1>5

\* An attempt that ends in a failure or a refusal leaves its job as it should be.
LEMMA EndKeeps ==
  ASSUME ExtractionInv, NEW how \in {"failed", "refused"}, End(how),
         file' = file, plan' = plan, tries' = tries, elements' = elements,
         SavedSound(saved'), CountsTyped', paid' = cut' + Cardinality(AnsweredPictures(saved'))
  PROVE  ExtractionInv'
<1>0. Typed /\ Attended
  BY DEF ExtractionInv
<1>1. /\ parent' = how /\ child' = "none" /\ at' = 0 /\ message' = 0 /\ answer' = ""
      /\ page' = <<>> /\ left' = 0
  BY DEF End
<1>2. /\ ReadSteps' = ReadSteps /\ LoaderSteps' = LoaderSteps
      /\ TheEnd' = TheEnd /\ Broken' = Broken
      /\ file' \in Files /\ plan' = [steps |-> Steps(file'), items |-> Items(file')]
      /\ TheEnd = Len(LoaderSteps) + 1 /\ Broken = Len(LoaderSteps) + 2 /\ Len(LoaderSteps) \in Nat
  BY <1>0, SameFile
<1>3. Typed'
  <2>1. tries' \in 0..MaxTries /\ elements' \in Seq(ReadSteps')
    BY <1>0, <1>2 DEF Typed
  <2>2. at' \in 0..TheEnd' /\ message' \in 0..Broken' /\ left' \in 0..ParseTime
    <3>1. 0 \in 0..TheEnd /\ 0 \in 0..Broken
      BY <1>2
    <3>2. 0 \in 0..ParseTime
      BY ExtractionAssumption
    <3> QED
      BY <1>1, <1>2, <3>1, <3>2, Zenon
  <2>3. page' \in Seq(ReadSteps')
    <3>1. \A S : <<>> \in Seq(S)
      OBVIOUS
    <3> QED
      BY <1>1, <3>1, Zenon
  <2> QED
    BY <1>1, <1>2, <2>1, <2>2, <2>3 DEF Typed
<1>4. ~Busy' /\ parent' # "asking" /\ parent' \notin {"idle", "done", "poll", "look"}
  BY <1>1 DEF Busy
<1>5. message' \notin 1..Len(LoaderSteps') /\ message' # TheEnd'
  <2>1. 0 \notin 1..Len(LoaderSteps) /\ 0 # TheEnd
    BY <1>2
  <2> QED
    BY <1>1, <1>2, <2>1, Zenon
<1>6. Attended'
  BY <1>1, <1>4, <1>5 DEF Attended
<1>7. Read'
  BY <1>1, <1>4, <1>5 DEF Read
<1>8. Ledger'
  <2>1. cut' \in Nat /\ Cardinality(AnsweredPictures(saved')) \in Nat
    BY AnsweredFinite DEF CountsTyped
  <2> DEFINE c == Cardinality(AnsweredPictures(saved'))
  <2>2. paid' = cut' + c + 0
    <3> HIDE DEF c
    <3>1. paid' = cut' + c
      BY DEF c
    <3> QED
      BY <2>1, <3>1 DEF c
  <2> QED
    BY <1>4, <2>2 DEF Ledger
<1> QED
  BY <1>3, <1>6, <1>7, <1>8 DEF ExtractionInv

\* So does an attempt whose child gets an answer.
LEMMA AnswerKeeps ==
  ASSUME ExtractionInv, NEW how \in {"text", "empty", "regions"}, Answer(how),
         parent \in {"poll", "asking"}, message \in 1..Len(LoaderSteps),
         file' = file, plan' = plan, tries' = tries, elements' = elements,
         SavedSound(saved'), CountsTyped', paid' = cut' + Cardinality(AnsweredPictures(saved')),
         calls' = reused' + asks' /\ calls' <= MaxVisionCalls
  PROVE  ExtractionInv'
<1>0. Typed /\ Attended /\ Read
  BY DEF ExtractionInv
<1>1. CASE child = "over"
  <2>1. End("failed")
    BY <1>1 DEF Answer
  <2> QED
    BY <2>1, EndKeeps
<1>2. CASE child # "over"
  <2>1. /\ parent' = "poll" /\ message' = 0 /\ answer' = how
        /\ child' = child /\ at' = at /\ page' = page /\ left' = left
    BY <1>2 DEF Answer
  <2>2. /\ ReadSteps' = ReadSteps /\ LoaderSteps' = LoaderSteps
        /\ TheEnd' = TheEnd /\ Broken' = Broken
        /\ file' \in Files /\ plan' = [steps |-> Steps(file'), items |-> Items(file')]
        /\ TheEnd = Len(LoaderSteps) + 1 /\ Broken = Len(LoaderSteps) + 2 /\ Len(LoaderSteps) \in Nat
    BY <1>0, SameFile
  <2>3. /\ child = "wait" /\ at \in 1..Len(LoaderSteps) /\ at \in 1..TheEnd
        /\ LoaderSteps[at].op \in {"layout", "see"}
    <3>1. message # 0
      BY <2>2
    <3>2. child # "run" /\ child # "none"
      BY <1>0, <3>1 DEF Attended
    <3>3. child = "wait"
      BY <1>0, <1>2, <3>2 DEF Typed
    <3> QED
      BY <1>0, <2>2, <3>3 DEF Attended
  <2>4. Typed'
    <3>1. /\ tries' \in 0..MaxTries /\ elements' \in Seq(ReadSteps') /\ page' \in Seq(ReadSteps')
          /\ at' \in 0..TheEnd' /\ left' \in 0..ParseTime
      BY <1>0, <2>1, <2>2 DEF Typed
    <3>2. message' \in 0..Broken'
      BY <2>1, <2>2
    <3> QED
      BY <2>1, <2>2, <2>3, <3>1, <3>2 DEF Typed
  <2>5. Busy' /\ parent' # "asking" /\ parent' \notin {"idle", "done"}
    BY <2>1 DEF Busy
  <2>6. message' \notin 1..Len(LoaderSteps)' /\ message' # TheEnd'
    BY <2>1, <2>2
  <2>7. Attended'
    BY <2>1, <2>2, <2>3, <2>5, <2>6 DEF Attended
  <2>8. Read'
    <3>1. \A k \in 1..(at - 1) :
            LoaderSteps[k].op # "raise" /\ LoaderSteps[k].of \subseteq Told(elements) \cup Told(page)
      BY <1>0, <2>3 DEF Read
    <3>2. \A k \in 1..(at' - 1) :
            LoaderSteps'[k].op # "raise" /\ LoaderSteps'[k].of \subseteq Told(elements') \cup Told(page')
      <4> HIDE DEF LoaderSteps
      <4> QED
        BY <2>1, <2>2, <3>1
    <3> QED
      BY <2>5, <2>6, <3>2 DEF Read
  <2>9. Ledger'
    <3>1. cut' \in Nat /\ Cardinality(AnsweredPictures(saved')) \in Nat
      BY AnsweredFinite DEF CountsTyped
    <3> DEFINE c == Cardinality(AnsweredPictures(saved'))
    <3>2. paid' = cut' + c + 0
      <4> HIDE DEF c
      <4>1. paid' = cut' + c
        BY DEF c
      <4> QED
        BY <3>1, <4>1 DEF c
    <3> QED
      BY <2>5, <3>2 DEF Ledger
  <2> QED
    BY <2>4, <2>7, <2>8, <2>9 DEF ExtractionInv
<1> QED
  BY <1>1, <1>2

\* Whether the elements are whole depends on the file, the plan and on them.
LEMMA SameWhole ==
  ASSUME file' = file, plan' = plan, elements' = elements
  PROVE  Whole' <=> Whole
BY DEF Whole, Texts, Due

\* What the numbers of the attempt are, and that none is paid for now.
LEMMA LedgerNow ==
  ASSUME Typed, CountsTyped, Ledger
  PROVE  /\ Cardinality(AnsweredPictures(saved)) \in Nat
         /\ parent # "asking" => paid = cut + Cardinality(AnsweredPictures(saved))
         /\ parent = "asking" => paid = cut + Cardinality(AnsweredPictures(saved)) + 1
<1>1. Cardinality(AnsweredPictures(saved)) \in Nat
  BY AnsweredFinite DEF Typed
<1> DEFINE c == Cardinality(AnsweredPictures(saved))
<1>2. paid = cut + c + (IF parent = "asking" THEN 1 ELSE 0)
  BY DEF Ledger
<1>3. c \in Nat /\ cut \in Nat /\ paid \in Nat
  BY <1>1 DEF CountsTyped
<1> HIDE DEF c
<1>4. parent # "asking" => paid = cut + c
  BY <1>2, <1>3
<1>5. parent = "asking" => paid = cut + c + 1
  BY <1>2, <1>3
<1> QED
  BY <1>3, <1>4, <1>5 DEF c

\* The parent gives up between polls.
LEMMA PlainEnd ==
  ASSUME ExtractionInv, parent \in {"poll", "look"}, NEW how \in {"failed", "refused"}, End(how),
         UNCHANGED <<file, plan, tries, saved, elements, counts, history>>
  PROVE  ExtractionInv'
<1>0. Typed /\ CountsTyped /\ Ledger
  BY DEF ExtractionInv
<1>1. /\ file' = file /\ plan' = plan /\ tries' = tries /\ saved' = saved /\ elements' = elements
      /\ calls' = calls /\ reused' = reused /\ tokens' = tokens
      /\ asks' = asks /\ paid' = paid /\ cut' = cut
  BY DEF counts, history
<1>2. SavedSound(saved') /\ CountsTyped'
  BY <1>0, <1>1 DEF Typed, CountsTyped
<1>3. paid = cut + Cardinality(AnsweredPictures(saved))
  BY <1>0, LedgerNow
<1>4. paid' = cut' + Cardinality(AnsweredPictures(saved'))
  BY <1>1, <1>3
<1> QED
  BY <1>1, <1>2, <1>4, EndKeeps

\* The parent polls, looks, and the clock goes on.
LEMMA StillBusy ==
  ASSUME ExtractionInv, parent \in {"poll", "look"}, parent' \in {"poll", "look"}, left' \in 0..ParseTime,
         UNCHANGED <<file, plan, tries, saved, childVars, pipe, counts, history>>
  PROVE  ExtractionInv'
<1>0. Typed /\ CountsTyped /\ Attended /\ Read /\ Ledger
  BY DEF ExtractionInv
<1>1. /\ file' = file /\ plan' = plan /\ tries' = tries /\ saved' = saved /\ elements' = elements
      /\ child' = child /\ at' = at /\ page' = page /\ message' = message /\ answer' = answer
      /\ calls' = calls /\ reused' = reused /\ tokens' = tokens
      /\ asks' = asks /\ paid' = paid /\ cut' = cut
  BY DEF counts, history, childVars, pipe
<1>2. /\ ReadSteps' = ReadSteps /\ LoaderSteps' = LoaderSteps /\ TheEnd' = TheEnd /\ Broken' = Broken
      /\ file' \in Files /\ plan' = [steps |-> Steps(file'), items |-> Items(file')]
  BY <1>0, <1>1, SameFile
<1>3. Typed'
  BY <1>0, <1>1, <1>2 DEF Typed
<1>4. CountsTyped'
  BY <1>0, <1>1 DEF CountsTyped
<1>5. Attended'
  <2>1. Busy /\ Busy' /\ parent' # "asking"
    BY DEF Busy
  <2> HIDE DEF LoaderSteps, TheEnd, Busy
  <2> QED
    BY <1>0, <1>1, <1>2, <2>1 DEF Attended
<1>6. Read'
  <2>1. Whole' <=> Whole
    BY <1>1, SameWhole
  <2> HIDE DEF LoaderSteps, TheEnd
  <2> QED
    BY <1>0, <1>1, <1>2, <2>1 DEF Read
<1>7. Ledger'
  BY <1>0, <1>1 DEF Ledger
<1> QED
  BY <1>3, <1>4, <1>5, <1>6, <1>7 DEF ExtractionInv

\* A result that is used again is the whole one that was kept.
LEMMA ReuseKeeps ==
  ASSUME ExtractionInv, Reuse PROVE ExtractionInv'
<1>0. Typed /\ CountsTyped /\ Attended /\ Read /\ Ledger
  BY DEF ExtractionInv
<1>1. /\ file' = file /\ plan' = plan /\ saved' = saved /\ elements' = elements
      /\ child' = child /\ at' = at /\ page' = page /\ message' = message /\ answer' = answer
      /\ left' = left /\ paid' = paid /\ cut' = cut
      /\ parent = "idle" /\ parent' = "done" /\ tries < MaxTries /\ tries' = tries + 1
      /\ calls' = 0 /\ reused' = 0 /\ tokens' = 0 /\ asks' = 0
  BY DEF Reuse, childVars, pipe
<1>2. /\ ReadSteps' = ReadSteps /\ LoaderSteps' = LoaderSteps /\ TheEnd' = TheEnd /\ Broken' = Broken
      /\ file' \in Files /\ plan' = [steps |-> Steps(file'), items |-> Items(file')]
      /\ TheEnd = Len(LoaderSteps) + 1 /\ Len(LoaderSteps) \in Nat
  BY <1>0, <1>1, SameFile
<1>3. Typed'
  <2>1. tries' \in 0..MaxTries
    <3>1. tries \in 0..MaxTries
      BY <1>0 DEF Typed
    <3>2. MaxTries \in Nat
      BY ExtractionAssumption
    <3> QED
      BY <1>1, <3>1, <3>2
  <2> HIDE DEF TheEnd, Broken
  <2> QED
    BY <1>0, <1>1, <1>2, <2>1 DEF Typed
<1>4. CountsTyped'
  BY <1>0, <1>1, ExtractionAssumption DEF CountsTyped
<1>5. child = "none" /\ message = 0 /\ answer = "" /\ page = <<>>
  BY <1>0, <1>1 DEF Attended, Busy
<1>6. ~Busy'
  BY <1>1 DEF Busy
<1>7. message' \notin 1..Len(LoaderSteps') /\ message' # TheEnd'
  <2>1. 0 \notin 1..Len(LoaderSteps) /\ 0 # TheEnd
    BY <1>2
  <2> QED
    BY <1>1, <1>2, <1>5, <2>1, Zenon
<1>8. Attended'
  BY <1>1, <1>5, <1>6, <1>7 DEF Attended
<1>9. Read'
  <2>1. Whole' <=> Whole
    BY <1>1, SameWhole
  <2> QED
    BY <1>0, <1>1, <1>5, <1>7, <2>1 DEF Read
<1>10. Ledger'
  <2>1. calls' = reused' + asks' /\ calls' <= MaxVisionCalls
    BY <1>1, ExtractionAssumption
  <2>2. paid' = cut' + Cardinality(AnsweredPictures(saved')) + (IF parent' = "asking" THEN 1 ELSE 0)
    BY <1>0, <1>1 DEF Ledger
  <2> QED
    BY <2>1, <2>2 DEF Ledger
<1> QED
  BY <1>3, <1>4, <1>8, <1>9, <1>10 DEF ExtractionInv

\* A new child has passed no step.
LEMMA SpawnKeeps ==
  ASSUME ExtractionInv, Spawn PROVE ExtractionInv'
<1>0. Typed /\ CountsTyped /\ Attended /\ Read /\ Ledger
  BY DEF ExtractionInv
<1>1. /\ file' = file /\ plan' = plan /\ saved' = saved /\ elements' = <<>> /\ page' = <<>>
      /\ child' = "run" /\ at' = 1 /\ message' = message /\ answer' = answer
      /\ left' = ParseTime /\ paid' = paid /\ cut' = cut
      /\ parent = "idle" /\ parent' = "poll" /\ tries < MaxTries /\ tries' = tries + 1
      /\ calls' = 0 /\ reused' = 0 /\ tokens' = 0 /\ asks' = 0
  BY DEF Spawn, pipe
<1>2. /\ ReadSteps' = ReadSteps /\ LoaderSteps' = LoaderSteps /\ TheEnd' = TheEnd /\ Broken' = Broken
      /\ file' \in Files /\ plan' = [steps |-> Steps(file'), items |-> Items(file')]
      /\ TheEnd = Len(LoaderSteps) + 1 /\ Broken = Len(LoaderSteps) + 2 /\ Len(LoaderSteps) \in Nat
  BY <1>0, <1>1, SameFile
<1>5. message = 0 /\ answer = ""
  BY <1>0, <1>1 DEF Attended, Busy
<1>7. /\ message' \notin 1..Len(LoaderSteps') /\ message' # TheEnd' /\ message' \in 0..Broken'
      /\ at' \in 1..TheEnd' /\ at' \in 0..TheEnd'
  <2>1. 0 \notin 1..Len(LoaderSteps) /\ 0 # TheEnd /\ 0 \in 0..Broken /\ 1 \in 1..TheEnd /\ 1 \in 0..TheEnd
    BY <1>2
  <2> QED
    BY <1>1, <1>2, <1>5, <2>1, Zenon
<1>3. Typed'
  <2>1. tries' \in 0..MaxTries /\ left' \in 0..ParseTime
    <3>1. tries \in 0..MaxTries
      BY <1>0 DEF Typed
    <3>2. MaxTries \in Nat /\ ParseTime \in Nat
      BY ExtractionAssumption
    <3> QED
      BY <1>1, <3>1, <3>2
  <2>2. \A S : <<>> \in Seq(S)
    OBVIOUS
  <2>3. page' \in Seq(ReadSteps') /\ elements' \in Seq(ReadSteps')
    BY <1>1, <2>2, Zenon
  <2> HIDE DEF TheEnd, Broken
  <2> QED
    BY <1>0, <1>1, <1>2, <1>5, <1>7, <2>1, <2>3 DEF Typed
<1>4. CountsTyped'
  BY <1>0, <1>1, ExtractionAssumption DEF CountsTyped
<1>6. Busy'
  BY <1>1 DEF Busy
<1>8. Attended'
  BY <1>1, <1>5, <1>6, <1>7 DEF Attended
<1>9. Read'
  <2>1. \A k \in 1..(at' - 1) : FALSE
    BY <1>1
  <2> HIDE DEF LoaderSteps, TheEnd
  <2> QED
    BY <1>1, <1>7, <2>1 DEF Read
<1>10. Ledger'
  <2>1. calls' = reused' + asks' /\ calls' <= MaxVisionCalls
    BY <1>1, ExtractionAssumption
  <2>2. paid' = cut' + Cardinality(AnsweredPictures(saved')) + (IF parent' = "asking" THEN 1 ELSE 0)
    BY <1>0, <1>1 DEF Ledger
  <2> QED
    BY <2>1, <2>2 DEF Ledger
<1> QED
  BY <1>3, <1>4, <1>8, <1>9, <1>10 DEF ExtractionInv

\* A job that is tried again has the elements of a whole extraction, or none.
LEMMA TryAgainKeeps ==
  ASSUME ExtractionInv, TryAgain PROVE ExtractionInv'
<1>0. Typed /\ CountsTyped /\ Attended /\ Read /\ Ledger
  BY DEF ExtractionInv
<1>1. /\ file' = file /\ plan' = plan /\ saved' = saved /\ tries' = tries
      /\ child' = child /\ at' = at /\ page' = page /\ message' = message /\ answer' = answer
      /\ left' = left /\ paid' = paid /\ cut' = cut
      /\ parent \in {"failed", "done"} /\ parent' = "idle"
      /\ calls' = calls /\ reused' = reused /\ tokens' = tokens /\ asks' = asks
      /\ elements' = IF parent = "done" THEN elements ELSE <<>>
  BY DEF TryAgain, pipe, counts, history
<1>2. /\ ReadSteps' = ReadSteps /\ LoaderSteps' = LoaderSteps /\ TheEnd' = TheEnd /\ Broken' = Broken
      /\ file' \in Files /\ plan' = [steps |-> Steps(file'), items |-> Items(file')]
      /\ TheEnd = Len(LoaderSteps) + 1 /\ Len(LoaderSteps) \in Nat
  BY <1>0, <1>1, SameFile
<1>3. Typed'
  <2>1. \A S : <<>> \in Seq(S)
    OBVIOUS
  <2>2. elements' \in Seq(ReadSteps')
    BY <1>0, <1>1, <1>2, <2>1, Zenon DEF Typed
  <2> HIDE DEF TheEnd, Broken
  <2> QED
    BY <1>0, <1>1, <1>2, <2>2 DEF Typed
<1>4. CountsTyped'
  BY <1>0, <1>1 DEF CountsTyped
<1>5. child = "none" /\ message = 0 /\ answer = "" /\ page = <<>>
  BY <1>0, <1>1 DEF Attended, Busy
<1>6. ~Busy'
  BY <1>1 DEF Busy
<1>7. message' \notin 1..Len(LoaderSteps') /\ message' # TheEnd'
  <2>1. 0 \notin 1..Len(LoaderSteps) /\ 0 # TheEnd
    BY <1>2
  <2> QED
    BY <1>1, <1>2, <1>5, <2>1, Zenon
<1>8. Attended'
  BY <1>1, <1>5, <1>6, <1>7 DEF Attended
<1>9. Read'
  <2>1. ASSUME elements' # <<>> PROVE Whole'
    <3>1. parent = "done" /\ elements' = elements
      BY <1>1, <2>1
    <3>2. Whole
      BY <1>0, <2>1, <3>1 DEF Read
    <3> QED
      BY <1>1, <3>1, <3>2, SameWhole
  <2> QED
    BY <1>1, <1>5, <1>7, <2>1 DEF Read
<1>10. Ledger'
  BY <1>0, <1>1 DEF Ledger
<1> QED
  BY <1>3, <1>4, <1>8, <1>9, <1>10 DEF ExtractionInv

\* The lease is lost between polls.
LEMMA LeaseLostKeeps ==
  ASSUME ExtractionInv, LeaseLost PROVE ExtractionInv'
<1>1. parent \in {"poll", "look"} /\ End("failed") /\ UNCHANGED <<file, plan, tries, saved, elements, counts, history>>
  BY DEF LeaseLost
<1> QED
  BY <1>1, PlainEnd

\* The deadline is over.
LEMMA TimesOutKeeps ==
  ASSUME ExtractionInv, TimesOut PROVE ExtractionInv'
<1>1. parent \in {"poll", "look"} /\ End("failed") /\ UNCHANGED <<file, plan, tries, saved, elements, counts, history>>
  BY DEF TimesOut
<1> QED
  BY <1>1, PlainEnd

\* The time that is left is within the limit.
LEMMA LeftTyped ==
  ASSUME ExtractionInv PROVE left \in 0..ParseTime /\ ParseTime \in Nat
<1>1. left \in 0..ParseTime
  BY DEF ExtractionInv, Typed
<1> QED
  BY <1>1, ExtractionAssumption

\* The pipe is empty.
LEMMA PollNothingKeeps ==
  ASSUME ExtractionInv, PollNothing PROVE ExtractionInv'
<1>1. /\ parent \in {"poll", "look"} /\ parent' \in {"poll", "look"} /\ left' = left
      /\ UNCHANGED <<file, plan, tries, saved, childVars, pipe, counts, history>>
  BY DEF PollNothing
<1>2. left' \in 0..ParseTime
  BY <1>1, LeftTyped
<1> QED
  BY <1>1, <1>2, StillBusy

\* The clock goes on.
LEMMA TickKeeps ==
  ASSUME ExtractionInv, ExtractionTick PROVE ExtractionInv'
<1>1. /\ parent \in {"poll", "look"} /\ parent' \in {"poll", "look"} /\ left > 0 /\ left' = left - 1
      /\ UNCHANGED <<file, plan, tries, saved, childVars, pipe, counts, history>>
  BY DEF ExtractionTick
<1>2. left' \in 0..ParseTime
  BY <1>1, LeftTyped
<1> QED
  BY <1>1, <1>2, StillBusy

\* The child is gone, or the parent polls again.
LEMMA LookAtChildKeeps ==
  ASSUME ExtractionInv, LookAtChild PROVE ExtractionInv'
<1>1. CASE child = "over"
  <2>1. parent \in {"poll", "look"} /\ End("refused") /\ UNCHANGED <<file, plan, tries, saved, elements, counts, history>>
    BY <1>1 DEF LookAtChild
  <2> QED
    BY <2>1, PlainEnd
<1>2. CASE child # "over"
  <2>1. /\ parent \in {"poll", "look"} /\ parent' \in {"poll", "look"} /\ left' = left
        /\ UNCHANGED <<file, plan, tries, saved, childVars, pipe, counts, history>>
    BY <1>2 DEF LookAtChild, childVars
  <2>2. left' \in 0..ParseTime
    BY <2>1, LeftTyped
  <2> QED
    BY <2>1, <2>2, StillBusy
<1> QED
  BY <1>1, <1>2

\* The pipe ended.
LEMMA ReceiveEndKeeps ==
  ASSUME ExtractionInv, ReceiveEnd PROVE ExtractionInv'
<1>1. parent \in {"poll", "look"} /\ End("refused") /\ UNCHANGED <<file, plan, tries, saved, elements, counts, history>>
  BY DEF ReceiveEnd
<1> QED
  BY <1>1, PlainEnd

\* The child sent an error.
LEMMA ReceiveErrorKeeps ==
  ASSUME ExtractionInv, ReceiveError PROVE ExtractionInv'
<1>1. parent \in {"poll", "look"} /\ End("refused") /\ UNCHANGED <<file, plan, tries, saved, elements, counts, history>>
  BY DEF ReceiveError
<1> QED
  BY <1>1, PlainEnd

\* What keeping an artifact makes of them.
LEMMA KeepIs ==
  ASSUME NEW key, NEW what, Keep(key, what) PROVE saved' = AfterKeeping(saved, key, what)
BY DEF Keep, AfterKeeping

\* What the child sent at its end is everything there is in the file.
LEMMA ReceiveResultKeeps ==
  ASSUME ExtractionInv, ReceiveResult PROVE ExtractionInv'
<1>0. Typed /\ CountsTyped /\ Attended /\ Read /\ Ledger
  BY DEF ExtractionInv
<1>1. /\ file' = file /\ plan' = plan /\ tries' = tries /\ elements' = elements
      /\ calls' = calls /\ reused' = reused /\ tokens' = tokens /\ asks' = asks
      /\ paid' = paid /\ cut' = cut
      /\ parent = "poll" /\ message = TheEnd
      /\ parent' = "done" /\ child' = "none" /\ at' = 0 /\ message' = 0 /\ answer' = ""
      /\ page' = <<>> /\ left' = 0
      /\ Keep(Result, "elements")
  BY DEF ReceiveResult, End, counts, history
<1>2. /\ ReadSteps' = ReadSteps /\ LoaderSteps' = LoaderSteps
      /\ TheEnd' = TheEnd /\ Broken' = Broken
      /\ file' \in Files /\ plan' = [steps |-> Steps(file'), items |-> Items(file')]
      /\ TheEnd = Len(LoaderSteps) + 1 /\ Broken = Len(LoaderSteps) + 2 /\ Len(LoaderSteps) \in Nat
  BY <1>0, <1>1, SameFile
<1>3. /\ SavedSound(saved')
      /\ Cardinality(AnsweredPictures(saved')) = Cardinality(AnsweredPictures(saved))
  <2> DEFINE key == Result
  <2>1. key[2] = "result"
    BY DEF Result
  <2>2. saved' = AfterKeeping(saved, key, "elements") /\ SavedSound(saved)
    BY <1>0, <1>1, KeepIs DEF Typed
  <2>3. "elements" \notin ModelAnswers
    BY DEF ModelAnswers
  <2> HIDE DEF key
  <2>4. SavedSound(AfterKeeping(saved, key, "elements"))
    BY <2>1, <2>2, SoundAfterKeeping
  <2>5. Cardinality(AnsweredPictures(AfterKeeping(saved, key, "elements"))) = Cardinality(AnsweredPictures(saved))
    BY <2>1, <2>2, <2>3, AnswersAfterKeeping
  <2> QED
    BY <2>2, <2>4, <2>5
<1>4. Typed'
  <2>1. tries' \in 0..MaxTries /\ elements' \in Seq(ReadSteps')
    BY <1>0, <1>1, <1>2 DEF Typed
  <2>2. at' \in 0..TheEnd' /\ message' \in 0..Broken' /\ left' \in 0..ParseTime
    <3>1. 0 \in 0..TheEnd /\ 0 \in 0..Broken
      BY <1>2
    <3>2. 0 \in 0..ParseTime
      BY ExtractionAssumption
    <3> QED
      BY <1>1, <1>2, <3>1, <3>2, Zenon
  <2>3. page' \in Seq(ReadSteps')
    <3>1. \A S : <<>> \in Seq(S)
      OBVIOUS
    <3> QED
      BY <1>1, <3>1, Zenon
  <2> QED
    BY <1>1, <1>2, <1>3, <2>1, <2>2, <2>3 DEF Typed
<1>5. CountsTyped'
  BY <1>0, <1>1 DEF CountsTyped
<1>6. ~Busy'
  BY <1>1 DEF Busy
<1>7. message' \notin 1..Len(LoaderSteps') /\ message' # TheEnd'
  <2>1. 0 \notin 1..Len(LoaderSteps) /\ 0 # TheEnd
    BY <1>2
  <2> QED
    BY <1>1, <1>2, <2>1, Zenon
<1>8. Attended'
  BY <1>1, <1>6, <1>7 DEF Attended
<1>9. Read'
  <2>1. Whole
    BY <1>0, <1>1 DEF Read
  <2>2. Whole'
    BY <1>1, <2>1, SameWhole
  <2> QED
    BY <1>1, <1>7, <2>2 DEF Read
<1>10. Ledger'
  <2>1. calls = reused + asks /\ calls <= MaxVisionCalls
    BY <1>0, <1>1 DEF Ledger
  <2>2. paid = cut + Cardinality(AnsweredPictures(saved)) /\ Cardinality(AnsweredPictures(saved)) \in Nat
    BY <1>0, <1>1, LedgerNow
  <2> DEFINE c == Cardinality(AnsweredPictures(saved'))
  <2>3. c \in Nat /\ paid' = cut' + c /\ cut' \in Nat
    BY <1>1, <1>3, <1>5, <2>2 DEF CountsTyped
  <2>4. paid' = cut' + c + 0
    <3> HIDE DEF c
    <3> QED
      BY <2>3
  <2> QED
    BY <1>1, <2>1, <2>4 DEF Ledger
<1> QED
  BY <1>4, <1>5, <1>8, <1>9, <1>10 DEF ExtractionInv

\* What is asked is named by what it is.
LEMMA ImageNamed ==
  ASSUME Typed, message \in 1..Len(LoaderSteps)
  PROVE  /\ LoaderSteps[message].op = "layout" => Image[2] = "layout"
         /\ LoaderSteps[message].op = "see" => Image[2] \notin {"layout", "result"}
<1> DEFINE s == LoaderSteps[message]
<1>1. s \in SoundSteps
  BY PlanSound
<1>2. Image = s.image
  BY DEF Image
<1> HIDE DEF s
<1>3. /\ s.op = "layout" => s.image[2] = "layout"
      /\ s.op = "see" => s.image[2] \notin {"layout", "result"}
  BY <1>1 DEF SoundSteps
<1> QED
  BY <1>2, <1>3 DEF s

\* The regions of a page are kept and sent, or the lease is lost.
LEMMA ReceiveLayoutKeeps ==
  ASSUME ExtractionInv, ReceiveLayout PROVE ExtractionInv'
<1>0. Typed /\ CountsTyped /\ Attended /\ Read /\ Ledger
  BY DEF ExtractionInv
<1>1. /\ parent = "poll" /\ message \in 1..Len(LoaderSteps) /\ LoaderSteps[message].op = "layout"
      /\ file' = file /\ plan' = plan /\ tries' = tries /\ elements' = elements
      /\ UNCHANGED counts /\ UNCHANGED history
  BY DEF ReceiveLayout, Asked
<1>2. CASE Keep(Image, "regions") /\ Answer("regions")
  <2>1. Image[2] = "layout" /\ SavedSound(saved)
    BY <1>0, <1>1, ImageNamed DEF Typed
  <2> DEFINE key == Image
             what == "regions"
  <2>2. saved' = AfterKeeping(saved, key, what)
    BY <1>2, KeepIs
  <2>3. what \notin ModelAnswers /\ key[2] = "layout"
    BY <2>1 DEF ModelAnswers
  <2>4. what = "regions"
    OBVIOUS
  <2> HIDE DEF key, what
  <2>5. SavedSound(saved')
    BY <2>1, <2>2, <2>3, <2>4, SoundAfterKeeping
  <2>6. Cardinality(AnsweredPictures(saved')) = Cardinality(AnsweredPictures(saved))
    BY <2>1, <2>2, <2>3, AnswersAfterKeeping
  <2>7. CountsTyped' /\ calls' = reused' + asks' /\ calls' <= MaxVisionCalls
    BY <1>0, <1>1 DEF CountsTyped, Ledger, counts, history
  <2>8. paid' = cut' + Cardinality(AnsweredPictures(saved'))
    <3>1. paid = cut + Cardinality(AnsweredPictures(saved))
      BY <1>0, <1>1, LedgerNow
    <3> QED
      BY <1>1, <2>6, <3>1 DEF history
  <2>9. "regions" \in {"text", "empty", "regions"} /\ parent \in {"poll", "asking"} /\ Answer("regions")
    BY <1>1, <1>2
  <2> QED
    BY <1>1, <2>5, <2>7, <2>8, <2>9, AnswerKeeps
<1>3. CASE End("failed") /\ UNCHANGED saved
  <2>1. parent \in {"poll", "look"} /\ "failed" \in {"failed", "refused"}
        /\ UNCHANGED <<file, plan, tries, saved, elements, counts, history>>
    BY <1>1, <1>3
  <2> QED
    BY <1>3, <2>1, PlainEnd
<1> QED
  BY <1>2, <1>3 DEF ReceiveLayout

\* A call is refused, answered from an artifact, or made.
LEMMA ReceiveVisionKeeps ==
  ASSUME ExtractionInv, ReceiveVision PROVE ExtractionInv'
<1>0. Typed /\ CountsTyped /\ Attended /\ Read /\ Ledger
  BY DEF ExtractionInv
<1>1. /\ parent = "poll" /\ message \in 1..Len(LoaderSteps) /\ LoaderSteps[message].op = "see"
      /\ file' = file /\ plan' = plan /\ tries' = tries /\ elements' = elements
      /\ saved' = saved /\ tokens' = tokens /\ calls' = calls + 1
  BY DEF ReceiveVision, Asked
<1>2. /\ calls = reused + asks /\ calls <= MaxVisionCalls
      /\ paid = cut + Cardinality(AnsweredPictures(saved)) /\ Cardinality(AnsweredPictures(saved)) \in Nat
  BY <1>0, <1>1, LedgerNow DEF Ledger
<1>3. /\ calls \in Nat /\ reused \in Nat /\ asks \in Nat /\ paid \in Nat /\ cut \in Nat /\ MaxVisionCalls \in Nat
      /\ tokens \in 0..MaxVisionTokens /\ reused \in 0..MaxVisionCalls
  BY <1>0, ExtractionAssumption DEF CountsTyped
<1>4. SavedSound(saved')
  BY <1>0, <1>1 DEF Typed
<1> DEFINE over == TooManyCalls \/ (~Known(Image) /\ tokens >= MaxVisionTokens)
<1>5. CASE over
  <2>1. End("refused") /\ reused' = reused /\ asks' = asks /\ paid' = paid /\ cut' = cut
    BY <1>5 DEF ReceiveVision, history
  <2>2. CountsTyped'
    <3>1. calls' \in 0..(MaxVisionCalls + 1)
      BY <1>1, <1>2, <1>3, SMTT(30)
    <3> QED
      BY <1>1, <1>3, <2>1, <3>1 DEF CountsTyped
  <2>3. paid' = cut' + Cardinality(AnsweredPictures(saved'))
    BY <1>1, <1>2, <2>1
  <2> QED
    BY <1>1, <1>4, <2>1, <2>2, <2>3, EndKeeps
<1>6. ASSUME ~over PROVE calls' <= MaxVisionCalls
  BY <1>1, <1>3, <1>6 DEF TooManyCalls
<1>7. CASE ~over /\ Known(Image)
  <2>1. reused' = reused + 1 /\ Answer(saved[Image]) /\ asks' = asks /\ paid' = paid /\ cut' = cut
    BY <1>7 DEF ReceiveVision, history
  <2>2. Image \in DOMAIN saved /\ Image[2] \notin {"layout", "result"}
    BY <1>0, <1>1, <1>7, ImageNamed DEF Known
  <2>3. saved[Image] \in ModelAnswers
    BY <1>0, <2>2 DEF Typed, SavedSound
  <2>4. saved[Image] \in {"text", "empty", "regions"}
    BY <2>3 DEF ModelAnswers
  <2>5. calls' = reused' + asks' /\ calls' <= MaxVisionCalls
    BY <1>1, <1>2, <1>3, <1>6, <1>7, <2>1
  <2>6. CountsTyped'
    <3>1. calls' \in 0..(MaxVisionCalls + 1) /\ reused' \in 0..MaxVisionCalls
      BY <1>1, <1>2, <1>3, <2>1, <2>5, SMTT(30)
    <3> QED
      BY <1>1, <1>3, <2>1, <3>1 DEF CountsTyped
  <2>7. paid' = cut' + Cardinality(AnsweredPictures(saved'))
    BY <1>1, <1>2, <2>1
  <2>8. PICK how \in {"text", "empty", "regions"} : how = saved[Image]
    BY <2>4
  <2>9. Answer(how) /\ parent \in {"poll", "asking"}
    BY <1>1, <2>1, <2>8
  <2> QED
    BY <1>1, <1>4, <2>5, <2>6, <2>7, <2>9, AnswerKeeps
<1>8. CASE ~over /\ ~Known(Image)
  <2>1. /\ parent' = "asking" /\ asks' = asks + 1 /\ paid' = paid + 1
        /\ child' = child /\ at' = at /\ page' = page /\ message' = message /\ answer' = answer
        /\ left' = left /\ reused' = reused /\ cut' = cut
    BY <1>8 DEF ReceiveVision, pipe
  <2>2. /\ ReadSteps' = ReadSteps /\ LoaderSteps' = LoaderSteps /\ TheEnd' = TheEnd /\ Broken' = Broken
        /\ file' \in Files /\ plan' = [steps |-> Steps(file'), items |-> Items(file')]
    BY <1>0, <1>1, SameFile
  <2>3. Typed'
    <3> HIDE DEF TheEnd, Broken
    <3> QED
      BY <1>0, <1>1, <2>1, <2>2 DEF Typed
  <2>4. calls' = reused' + asks' /\ calls' <= MaxVisionCalls
    <3>1. calls' <= MaxVisionCalls
      BY <1>6, <1>8
    <3> HIDE DEF over
    <3>2. calls + 1 = reused + (asks + 1)
      BY <1>2, <1>3
    <3> QED
      BY <1>1, <2>1, <3>1, <3>2
  <2>5. CountsTyped'
    <3>1. calls' \in 0..(MaxVisionCalls + 1) /\ asks' \in Nat /\ paid' \in Nat
      BY <1>1, <1>2, <1>3, <2>1
    <3> QED
      BY <1>1, <1>3, <2>1, <3>1 DEF CountsTyped
  <2>6. Attended'
    <3>1. Busy /\ Busy'
      BY <1>1, <2>1 DEF Busy
    <3>2. Image' = Image /\ Image \notin DOMAIN saved
      BY <1>8, <2>1, <2>2 DEF Image, Known
    <3> HIDE DEF LoaderSteps, TheEnd, Busy, Image
    <3> QED
      BY <1>0, <1>1, <2>1, <2>2, <3>1, <3>2 DEF Attended
  <2>7. Read'
    <3>1. Whole' <=> Whole
      BY <1>1, SameWhole
    <3> HIDE DEF LoaderSteps, TheEnd
    <3> QED
      BY <1>0, <1>1, <2>1, <2>2, <3>1 DEF Read
  <2>8. Ledger'
    <3> DEFINE c == Cardinality(AnsweredPictures(saved))
    <3>1. paid = cut + c /\ c \in Nat
      BY <1>2
    <3>2. Cardinality(AnsweredPictures(saved')) = c
      BY <1>1
    <3> HIDE DEF c
    <3>3. paid' = cut' + c + 1
      BY <1>3, <2>1, <3>1
    <3>4. paid' = cut' + Cardinality(AnsweredPictures(saved')) + (IF parent' = "asking" THEN 1 ELSE 0)
      BY <2>1, <3>2, <3>3
    <3> QED
      BY <2>4, <3>4 DEF Ledger
  <2> QED
    BY <2>3, <2>5, <2>6, <2>7, <2>8 DEF ExtractionInv
<1> QED
  BY <1>5, <1>7, <1>8

\* The model answers within what the job may still spend.
LEMMA VisionAnswersKeeps ==
  ASSUME ExtractionInv, VisionAnswers PROVE ExtractionInv'
<1>0. Typed /\ CountsTyped /\ Attended /\ Read /\ Ledger
  BY DEF ExtractionInv
<1>1. /\ parent = "asking"
      /\ file' = file /\ plan' = plan /\ tries' = tries /\ elements' = elements
      /\ calls' = calls /\ reused' = reused /\ asks' = asks /\ paid' = paid /\ cut' = cut
  BY DEF VisionAnswers, history
<1>2. PICK used \in {0, RequestTokens}, text \in {"text", "empty"} :
         tokens' = tokens + used /\ Keep(Image, text) /\ Answer(text)
  BY DEF VisionAnswers
<1>3. /\ message \in 1..Len(LoaderSteps) /\ LoaderSteps[message].op = "see" /\ Image \notin DOMAIN saved
      /\ SavedSound(saved)
  BY <1>0, <1>1 DEF Attended, Typed
<1>4. Image[2] \notin {"layout", "result"}
  BY <1>0, <1>3, ImageNamed
<1>5. /\ SavedSound(saved')
      /\ Cardinality(AnsweredPictures(saved')) = Cardinality(AnsweredPictures(saved)) + 1
  <2> DEFINE key == Image
  <2>1. saved' = AfterKeeping(saved, key, text) /\ key \notin DOMAIN saved /\ key[2] \notin {"layout", "result"}
    BY <1>2, <1>3, <1>4, KeepIs
  <2>2. text \in ModelAnswers
    BY DEF ModelAnswers
  <2> HIDE DEF key
  <2> QED
    BY <1>3, <2>1, <2>2, SoundAfterKeeping, AnswersAfterKeeping
<1>6. tokens' \in 0..MaxVisionTokens
  <2>1. tokens \in 0..MaxVisionTokens /\ MaxVisionTokens \in Nat /\ VisionMaxTokens \in Nat
    BY <1>0, ExtractionAssumption DEF CountsTyped
  <2>2. RequestTokens \in Nat /\ RequestTokens <= MaxVisionTokens - tokens
    BY <2>1 DEF RequestTokens, Least
  <2>3. used \in Nat /\ used <= MaxVisionTokens - tokens
    BY <2>1, <2>2
  <2> QED
    BY <1>2, <2>1, <2>3
<1>7. CountsTyped'
  BY <1>0, <1>1, <1>6 DEF CountsTyped
<1>8. paid' = cut' + Cardinality(AnsweredPictures(saved'))
  <2> DEFINE c == Cardinality(AnsweredPictures(saved))
  <2>1. c \in Nat /\ paid = cut + c + 1
    BY <1>0, <1>1, LedgerNow
  <2>2. cut \in Nat
    BY <1>0 DEF CountsTyped
  <2>3. Cardinality(AnsweredPictures(saved')) = c + 1
    BY <1>5
  <2> HIDE DEF c
  <2>4. cut + c + 1 = cut + (c + 1)
    BY <2>1, <2>2
  <2> QED
    BY <1>1, <2>1, <2>3, <2>4
<1>9. calls' = reused' + asks' /\ calls' <= MaxVisionCalls
  BY <1>0, <1>1 DEF Ledger
<1>10. PICK how \in {"text", "empty", "regions"} : how = text
  OBVIOUS
<1>11. Answer(how) /\ parent \in {"poll", "asking"}
  BY <1>1, <1>2, <1>10
<1> QED
  BY <1>1, <1>3, <1>5, <1>7, <1>8, <1>9, <1>11, AnswerKeeps

\* A call that fails is one that was cut off.
LEMMA VisionFailsKeeps ==
  ASSUME ExtractionInv, VisionFails PROVE ExtractionInv'
<1>0. Typed /\ CountsTyped /\ Ledger
  BY DEF ExtractionInv
<1>1. /\ parent = "asking" /\ cut' = cut + 1
      /\ file' = file /\ plan' = plan /\ tries' = tries /\ elements' = elements /\ saved' = saved
      /\ calls' = calls /\ reused' = reused /\ tokens' = tokens /\ asks' = asks /\ paid' = paid
  BY DEF VisionFails, counts
<1>2. PICK how \in {"failed", "refused"} : End(how)
  BY DEF VisionFails
<1>3. SavedSound(saved')
  BY <1>0, <1>1 DEF Typed
<1>4. CountsTyped'
  <2>1. cut' \in Nat
    BY <1>0, <1>1 DEF CountsTyped
  <2> QED
    BY <1>0, <1>1, <2>1 DEF CountsTyped
<1>5. paid' = cut' + Cardinality(AnsweredPictures(saved'))
  <2> DEFINE c == Cardinality(AnsweredPictures(saved))
  <2>1. c \in Nat /\ paid = cut + c + 1
    BY <1>0, <1>1, LedgerNow
  <2>2. cut \in Nat
    BY <1>0 DEF CountsTyped
  <2>3. Cardinality(AnsweredPictures(saved')) = c
    BY <1>1
  <2> HIDE DEF c
  <2>4. cut + c + 1 = (cut + 1) + c
    BY <2>1, <2>2
  <2> QED
    BY <1>1, <2>1, <2>3, <2>4
<1> QED
  BY <1>1, <1>2, <1>3, <1>4, <1>5, EndKeeps

\* So is one that the worker died in.
LEMMA WorkerDiesKeeps ==
  ASSUME ExtractionInv, WorkerDies PROVE ExtractionInv'
<1>0. Typed /\ CountsTyped /\ Ledger
  BY DEF ExtractionInv
<1>1. /\ parent \in {"poll", "look", "asking"} /\ cut' = (IF parent = "asking" THEN cut + 1 ELSE cut)
      /\ file' = file /\ plan' = plan /\ tries' = tries /\ elements' = elements /\ saved' = saved
      /\ calls' = calls /\ reused' = reused /\ tokens' = tokens /\ asks' = asks /\ paid' = paid
      /\ End("failed")
  BY DEF WorkerDies, Busy, counts
<1>2. PICK how \in {"failed", "refused"} : End(how)
  BY <1>1
<1>3. SavedSound(saved')
  BY <1>0, <1>1 DEF Typed
<1>4. CountsTyped'
  <2>1. cut' \in Nat
    BY <1>0, <1>1 DEF CountsTyped
  <2> QED
    BY <1>0, <1>1, <2>1 DEF CountsTyped
<1>5. paid' = cut' + Cardinality(AnsweredPictures(saved'))
  <2> DEFINE c == Cardinality(AnsweredPictures(saved))
  <2>1. c \in Nat /\ (parent # "asking" => paid = cut + c) /\ (parent = "asking" => paid = cut + c + 1)
    BY <1>0, LedgerNow
  <2>2. cut \in Nat
    BY <1>0 DEF CountsTyped
  <2>3. Cardinality(AnsweredPictures(saved')) = c
    BY <1>1
  <2> HIDE DEF c
  <2>4. cut + c + 1 = (cut + 1) + c
    BY <2>1, <2>2
  <2> QED
    BY <1>1, <2>1, <2>3, <2>4
<1> QED
  BY <1>1, <1>2, <1>3, <1>4, <1>5, EndKeeps

\* A message is the number of a step, of the end, or of an error.
LEMMA PipeNumbers ==
  ASSUME NEW n, n \in Nat
  PROVE  /\ 0 \notin 1..n /\ n + 1 \notin 1..n /\ n + 2 \notin 1..n
         /\ 1..n \subseteq 0..(n + 2) /\ 1..(n + 1) \subseteq 0..(n + 2) /\ 1..(n + 1) \subseteq 0..(n + 1)
         /\ 0 \in 0..(n + 2) /\ n + 1 \in 0..(n + 2) /\ n + 2 \in 0..(n + 2)
OBVIOUS

\* While the child is at work, its parent waits, and is asked nothing it answers.
LEMMA ChildAtWork ==
  ASSUME ExtractionInv, child = "run" \/ (child = "wait" /\ answer # "")
  PROVE  /\ parent \in {"poll", "look"} /\ message = 0 /\ at \in 1..TheEnd /\ Busy
         /\ \A k \in 1..(at - 1) :
               LoaderSteps[k].op # "raise" /\ LoaderSteps[k].of \subseteq Told(elements) \cup Told(page)
         /\ Ledger /\ CountsTyped /\ Typed /\ Attended /\ Read
<1>0. Typed /\ CountsTyped /\ Attended /\ Read /\ Ledger
  BY DEF ExtractionInv
<1>1. Busy /\ at \in 1..TheEnd /\ message = 0
  BY <1>0 DEF Attended
<1>2. Len(LoaderSteps) \in Nat
  BY <1>0, PlanSound
<1>3. 0 \notin 1..Len(LoaderSteps)
  BY <1>2, PipeNumbers
<1>4. parent # "asking"
  BY <1>0, <1>1, <1>3 DEF Attended
<1>5. parent \in {"poll", "look"}
  BY <1>1, <1>4 DEF Busy
<1> HIDE DEF LoaderSteps
<1>6. \A k \in 1..(at - 1) :
         LoaderSteps[k].op # "raise" /\ LoaderSteps[k].of \subseteq Told(elements) \cup Told(page)
  BY <1>0 DEF Read
<1> QED
  BY <1>0, <1>1, <1>5, <1>6

\* What a step of the child leaves alone, and what then is left to show of it.
LEMMA ChildKeeps ==
  ASSUME ExtractionInv, parent \in {"poll", "look"},
         UNCHANGED <<file, plan, tries, saved, parent, counts, left, history>>,
         NEW c \in {"run", "wait", "over"}, child' = c,
         at' \in 1..TheEnd, NEW m \in {0, Broken, TheEnd, at'}, message' = m,
         answer' \in {"", "text", "empty", "regions"},
         page' \in Seq(ReadSteps), elements' \in Seq(ReadSteps),
         c = "run" => m = 0 /\ answer' = "",
         c = "wait" => /\ at' \in 1..Len(LoaderSteps)
                       /\ LoaderSteps[at'].op \in {"layout", "see"}
                       /\ m = at' /\ answer' = "",
         c = "over" => m \notin 1..Len(LoaderSteps),
         c \in {"run", "wait"} =>
            \A k \in 1..(at' - 1) :
               LoaderSteps[k].op # "raise" /\ LoaderSteps[k].of \subseteq Told(elements') \cup Told(page'),
         m = TheEnd => Whole'
  PROVE  ExtractionInv'
<1>0. Typed /\ CountsTyped /\ Attended /\ Read /\ Ledger
  BY DEF ExtractionInv
<1>1. /\ file' = file /\ plan' = plan /\ tries' = tries /\ saved' = saved /\ parent' = parent
      /\ left' = left /\ UNCHANGED counts /\ UNCHANGED history
  OBVIOUS
<1>2. /\ ReadSteps' = ReadSteps /\ LoaderSteps' = LoaderSteps /\ TheEnd' = TheEnd /\ Broken' = Broken
      /\ file' \in Files /\ plan' = [steps |-> Steps(file'), items |-> Items(file')]
      /\ TheEnd = Len(LoaderSteps) + 1 /\ Broken = Len(LoaderSteps) + 2 /\ Len(LoaderSteps) \in Nat
  BY <1>0, <1>1, SameFile
<1>3. m \in 0..Broken /\ at' \in 0..TheEnd
  <2> DEFINE n == Len(LoaderSteps)
  <2>1. /\ 1..(n + 1) \subseteq 0..(n + 2) /\ 1..(n + 1) \subseteq 0..(n + 1)
        /\ 0 \in 0..(n + 2) /\ n + 1 \in 0..(n + 2) /\ n + 2 \in 0..(n + 2)
    BY <1>2, PipeNumbers
  <2>2. TheEnd = n + 1 /\ Broken = n + 2
    BY <1>2
  <2> HIDE DEF n
  <2>3. 0 \in 0..Broken /\ TheEnd \in 0..Broken /\ Broken \in 0..Broken /\ 1..TheEnd \subseteq 0..Broken
        /\ 1..TheEnd \subseteq 0..TheEnd
    BY <2>1, <2>2, Zenon
  <2>4. at' \in 0..Broken /\ at' \in 0..TheEnd
    BY <2>3, Zenon
  <2> QED
    BY <2>3, <2>4, Zenon
<1>4. Typed'
  <2> HIDE DEF TheEnd, Broken
  <2> QED
    BY <1>0, <1>1, <1>2, <1>3 DEF Typed
<1>5. CountsTyped'
  BY <1>0, <1>1 DEF CountsTyped, counts, history
<1>6. Busy' /\ parent' # "asking" /\ parent' \notin {"idle", "done"}
  BY <1>1 DEF Busy
<1>7. message' \in 1..Len(LoaderSteps') => message' = at' /\ c = "wait"
  <2>1. 0 \notin 1..Len(LoaderSteps) /\ TheEnd \notin 1..Len(LoaderSteps) /\ Broken \notin 1..Len(LoaderSteps)
    <3> DEFINE n == Len(LoaderSteps)
    <3>1. 0 \notin 1..n /\ n + 1 \notin 1..n /\ n + 2 \notin 1..n
      BY <1>2, PipeNumbers
    <3> QED
      BY <1>2, <3>1, Zenon
  <2>2. m \in 1..Len(LoaderSteps) => m = at'
    BY <2>1, Zenon
  <2>3. c = "run" \/ c = "over" => m \notin 1..Len(LoaderSteps)
    BY <2>1, Zenon
  <2>4. m \in 1..Len(LoaderSteps) => m = at' /\ c = "wait"
    BY <2>2, <2>3, Zenon
  <2> HIDE DEF LoaderSteps
  <2> QED
    BY <1>2, <2>4
<1> HIDE DEF LoaderSteps, TheEnd, Broken
<1>8. Attended'
  BY <1>2, <1>6, <1>7 DEF Attended
<1>9. Read'
  BY <1>2, <1>6 DEF Read
<1>10. Ledger'
  BY <1>0, <1>1 DEF Ledger, counts, history
<1> QED
  BY <1>4, <1>5, <1>8, <1>9, <1>10 DEF ExtractionInv

\* What is read so far and the step it is at is what is read at the next.
LEMMA NextRead ==
  ASSUME Typed, at \in 1..Len(LoaderSteps),
         \A k \in 1..(at - 1) :
            LoaderSteps[k].op # "raise" /\ LoaderSteps[k].of \subseteq Told(elements) \cup Told(page),
         LoaderSteps[at].op # "raise",
         NEW told, Told(elements) \cup Told(page) \subseteq told, LoaderSteps[at].of \subseteq told
  PROVE  /\ at + 1 \in 1..TheEnd
         /\ \A k \in 1..((at + 1) - 1) : LoaderSteps[k].op # "raise" /\ LoaderSteps[k].of \subseteq told
<1>1. Len(LoaderSteps) \in Nat
  BY PlanSound
<1>2. at + 1 \in 1..TheEnd
  BY <1>1 DEF TheEnd
<1> HIDE DEF LoaderSteps
<1>3. \A k \in 1..((at + 1) - 1) : k \in 1..(at - 1) \/ k = at
  BY <1>1
<1> QED
  BY <1>2, <1>3

\* The child puts an element on its page, the page with the elements, asks, or stops.
LEMMA ChildStepKeeps ==
  ASSUME ExtractionInv, ChildStep PROVE ExtractionInv'
<1> DEFINE step == LoaderSteps[at]
<1>1. /\ child = "run" /\ at <= Len(LoaderSteps)
      /\ UNCHANGED <<file, plan, tries, saved, parent, counts, left, history>>
      /\ answer' = answer
  BY DEF ChildStep
<1>2. /\ parent \in {"poll", "look"} /\ message = 0 /\ at \in 1..TheEnd
      /\ \A k \in 1..(at - 1) :
            LoaderSteps[k].op # "raise" /\ LoaderSteps[k].of \subseteq Told(elements) \cup Told(page)
      /\ Typed /\ Attended /\ Read
  BY <1>1, ChildAtWork
<1>3. answer = "" /\ page \in Seq(ReadSteps) /\ elements \in Seq(ReadSteps)
  BY <1>1, <1>2 DEF Typed, Attended
<1>4. Len(LoaderSteps) \in Nat /\ at \in 1..Len(LoaderSteps) /\ step \in SoundSteps
  <2>1. Len(LoaderSteps) \in Nat /\ \A k \in 1..Len(LoaderSteps) : LoaderSteps[k] \in SoundSteps
    BY <1>2, PlanSound
  <2>2. at \in Nat
    BY <1>2, <2>1 DEF TheEnd
  <2>3. at \in 1..Len(LoaderSteps)
    BY <1>1, <1>2, <2>1, <2>2 DEF TheEnd
  <2> QED
    BY <2>1, <2>3
<1>5. 0 # TheEnd /\ Broken # TheEnd /\ Broken \notin 1..Len(LoaderSteps) /\ at # TheEnd
  BY <1>4 DEF TheEnd, Broken
<1>6. CASE step.op \in {"emit", "omit"} /\ page' = Append(page, step) /\ at' = at + 1
           /\ UNCHANGED <<elements, child, message>>
  <2>1. step \in ReadSteps
    <3>1. PICK op \in {"emit", "omit"} : op = step.op
      BY <1>6
    <3> QED
      BY <1>2, <1>4, <3>1, StepRead
  <2> DEFINE more == Append(page, step)
  <2>2. more \in Seq(ReadSteps) /\ Told(more) = Told(page) \cup step.of
    BY <1>3, <2>1, TellsMore
  <2>3. step.op # "raise"
    BY <1>6
  <2> HIDE DEF step
  <2> HIDE DEF more
  <2> DEFINE told == Told(elements) \cup Told(more)
  <2>4. Told(elements) \cup Told(page) \subseteq told /\ step.of \subseteq told
    BY <2>2
  <2> HIDE DEF told
  <2>5. /\ at + 1 \in 1..TheEnd
        /\ \A k \in 1..((at + 1) - 1) : LoaderSteps[k].op # "raise" /\ LoaderSteps[k].of \subseteq told
    BY <1>2, <1>4, <2>3, <2>4, NextRead DEF step
  <2>6. /\ child' = "run" /\ message' = 0 /\ answer' = "" /\ at' = at + 1
        /\ page' = more /\ elements' = elements
    BY <1>1, <1>2, <1>3, <1>6 DEF more, step
  <2>7. \A k \in 1..(at' - 1) :
            LoaderSteps[k].op # "raise" /\ LoaderSteps[k].of \subseteq Told(elements') \cup Told(page')
    <3> HIDE DEF LoaderSteps
    <3> QED
      BY <2>5, <2>6 DEF told
  <2>8. at' \in 1..TheEnd /\ page' \in Seq(ReadSteps) /\ elements' \in Seq(ReadSteps)
    BY <1>3, <2>2, <2>5, <2>6
  <2> DEFINE c == "run"
             m == 0
  <2>9. /\ c \in {"run", "wait", "over"} /\ child' = c /\ m \in {0, Broken, TheEnd, at'} /\ message' = m
        /\ c # "wait" /\ c # "over" /\ m # TheEnd /\ m = 0 /\ answer' \in {"", "text", "empty", "regions"}
    BY <1>5, <2>6
  <2> HIDE DEF c, m, TheEnd, Broken, LoaderSteps
  <2> QED
    BY <1>1, <1>2, <2>6, <2>7, <2>8, <2>9, ChildKeeps
<1>7. CASE step.op = "page" /\ elements' = elements \o ReadingOrder(page, step.how = "rows")
           /\ page' = <<>> /\ at' = at + 1 /\ UNCHANGED <<child, message>>
  <2> DEFINE labels == (step.how = "rows")
  <2> DEFINE all == elements \o ReadingOrder(page, labels)
  <2>1. all \in Seq(ReadSteps) /\ Told(all) = Told(elements) \cup Told(page)
    <3> HIDE DEF labels
    <3> DEFINE r == ReadingOrder(page, labels)
    <3>1. r \in Seq(ReadSteps) /\ Told(r) = Told(page)
      BY <1>3, PageTold
    <3> HIDE DEF r
    <3>2. elements \o r \in Seq(ReadSteps) /\ Told(elements \o r) = Told(elements) \cup Told(r)
      <4> DEFINE T == ReadSteps
      <4>1. elements \in Seq(T) /\ r \in Seq(T)
        BY <1>3, <3>1
      <4> HIDE DEF T
      <4>2. elements \o r \in Seq(T) /\ Told(elements \o r) = Told(elements) \cup Told(r)
        BY <4>1, ToldTogether
      <4> QED
        BY <4>2 DEF T
    <3> QED
      BY <3>1, <3>2 DEF r
  <2>2. step.op # "raise" /\ step.of = {}
    BY <1>4, <1>7 DEF SoundSteps
  <2>3. elements' = all
    BY <1>7
  <2> HIDE DEF step, all
  <2> DEFINE told == Told(elements) \cup Told(page)
  <2>4. Told(elements) \cup Told(page) \subseteq told /\ step.of \subseteq told
    BY <2>2
  <2> HIDE DEF told
  <2>5. /\ at + 1 \in 1..TheEnd
        /\ \A k \in 1..((at + 1) - 1) : LoaderSteps[k].op # "raise" /\ LoaderSteps[k].of \subseteq told
    BY <1>2, <1>4, <2>2, <2>4, NextRead DEF step
  <2>6. /\ child' = "run" /\ message' = 0 /\ answer' = "" /\ at' = at + 1 /\ page' = <<>>
    BY <1>1, <1>2, <1>3, <1>7
  <2>7. \A k \in 1..(at' - 1) :
            LoaderSteps[k].op # "raise" /\ LoaderSteps[k].of \subseteq Told(elements') \cup Told(page')
    <3> HIDE DEF LoaderSteps
    <3>1. Told(elements') = told
      BY <2>1, <2>3 DEF told
    <3> QED
      BY <2>5, <2>6, <3>1
  <2>8. at' \in 1..TheEnd /\ page' \in Seq(ReadSteps) /\ elements' \in Seq(ReadSteps)
    <3>1. \A S : <<>> \in Seq(S)
      OBVIOUS
    <3>2. page' \in Seq(ReadSteps)
      BY <2>6, <3>1, Zenon
    <3> QED
      BY <2>1, <2>3, <2>5, <2>6, <3>2
  <2> DEFINE c == "run"
             m == 0
  <2>9. /\ c \in {"run", "wait", "over"} /\ child' = c /\ m \in {0, Broken, TheEnd, at'} /\ message' = m
        /\ c # "wait" /\ c # "over" /\ m # TheEnd /\ m = 0 /\ answer' \in {"", "text", "empty", "regions"}
    BY <1>5, <2>6
  <2> HIDE DEF c, m, TheEnd, Broken, LoaderSteps
  <2> QED
    BY <1>1, <1>2, <2>6, <2>7, <2>8, <2>9, ChildKeeps
<1>8. CASE step.op \in {"layout", "see"} /\ message' = at /\ child' = "wait"
           /\ UNCHANGED <<at, page, elements>>
  <2>1. /\ at' = at /\ page' = page /\ elements' = elements /\ answer' = ""
    BY <1>1, <1>3, <1>8
  <2>2. \A k \in 1..(at' - 1) :
            LoaderSteps[k].op # "raise" /\ LoaderSteps[k].of \subseteq Told(elements') \cup Told(page')
    <3> HIDE DEF LoaderSteps
    <3> QED
      BY <1>2, <2>1
  <2>3. LoaderSteps[at'].op \in {"layout", "see"} /\ at' \in 1..Len(LoaderSteps) /\ at' \in 1..TheEnd
    BY <1>2, <1>4, <1>8, <2>1
  <2>4. page' \in Seq(ReadSteps) /\ elements' \in Seq(ReadSteps)
    BY <1>3, <2>1
  <2> DEFINE c == "wait"
             m == at
  <2>5. /\ c \in {"run", "wait", "over"} /\ child' = c /\ m \in {0, Broken, TheEnd, at'} /\ message' = m
        /\ c # "run" /\ c # "over" /\ m # TheEnd /\ m = at' /\ answer' \in {"", "text", "empty", "regions"}
    BY <1>5, <1>8, <2>1
  <2> HIDE DEF c, m, TheEnd, Broken, LoaderSteps
  <2> QED
    BY <1>1, <1>2, <2>1, <2>2, <2>3, <2>4, <2>5, ChildKeeps
<1>9. CASE step.op = "raise" /\ message' = Broken /\ child' = "over" /\ UNCHANGED <<at, page, elements>>
  <2>1. /\ at' = at /\ page' = page /\ elements' = elements /\ answer' = ""
    BY <1>1, <1>3, <1>9
  <2>2. page' \in Seq(ReadSteps) /\ elements' \in Seq(ReadSteps) /\ at' \in 1..TheEnd
    BY <1>2, <1>3, <2>1
  <2> DEFINE c == "over"
             m == Broken
  <2>3. /\ c \in {"run", "wait", "over"} /\ child' = c /\ m \in {0, Broken, TheEnd, at'} /\ message' = m
        /\ c # "run" /\ c # "wait" /\ m # TheEnd /\ m \notin 1..Len(LoaderSteps)
        /\ answer' \in {"", "text", "empty", "regions"}
    BY <1>5, <1>9, <2>1
  <2> HIDE DEF c, m, TheEnd, Broken, LoaderSteps
  <2> QED
    BY <1>1, <1>2, <2>1, <2>2, <2>3, ChildKeeps
<1>10. \/ step.op \in {"emit", "omit"} /\ page' = Append(page, step) /\ at' = at + 1
            /\ UNCHANGED <<elements, child, message>>
       \/ step.op = "page" /\ elements' = elements \o ReadingOrder(page, step.how = "rows")
            /\ page' = <<>> /\ at' = at + 1 /\ UNCHANGED <<child, message>>
       \/ step.op \in {"layout", "see"} /\ message' = at /\ child' = "wait"
            /\ UNCHANGED <<at, page, elements>>
       \/ step.op = "raise" /\ message' = Broken /\ child' = "over" /\ UNCHANGED <<at, page, elements>>
  BY DEF ChildStep, Send
<1> QED
  BY <1>6, <1>7, <1>8, <1>9, <1>10

\* The child goes on with the answer it got: with the element or the omission on
\* its page, or it stops.
LEMMA ChildReadsKeeps ==
  ASSUME ExtractionInv, ChildReads PROVE ExtractionInv'
<1> DEFINE step == LoaderSteps[at]
<1>1. /\ child = "wait" /\ answer # "" /\ answer' = ""
      /\ UNCHANGED <<file, plan, tries, saved, parent, counts, left, history>>
      /\ elements' = elements
  BY DEF ChildReads
<1>2. /\ parent \in {"poll", "look"} /\ message = 0 /\ at \in 1..TheEnd
      /\ \A k \in 1..(at - 1) :
            LoaderSteps[k].op # "raise" /\ LoaderSteps[k].of \subseteq Told(elements) \cup Told(page)
      /\ Typed /\ Attended /\ Read
  BY <1>1, ChildAtWork
<1>3. page \in Seq(ReadSteps) /\ elements \in Seq(ReadSteps)
  BY <1>2 DEF Typed
<1>4. Len(LoaderSteps) \in Nat /\ at \in 1..Len(LoaderSteps) /\ step.op \in {"layout", "see"}
  BY <1>1, <1>2, PlanSound DEF Attended
<1>5. step \in SoundSteps
  BY <1>2, <1>4, PlanSound
<1>6. 0 # TheEnd /\ Broken # TheEnd /\ Broken \notin 1..Len(LoaderSteps)
  BY <1>4 DEF TheEnd, Broken
<1>7. CASE answer = "empty" /\ step.how = "raise"
  <2>1. /\ at' = at /\ page' = page /\ elements' = elements /\ answer' = ""
        /\ message' = Broken /\ child' = "over"
    BY <1>1, <1>7 DEF ChildReads, Send
  <2>2. page' \in Seq(ReadSteps) /\ elements' \in Seq(ReadSteps) /\ at' \in 1..TheEnd
    BY <1>2, <1>3, <2>1
  <2> DEFINE c == "over"
             m == Broken
  <2>3. /\ c \in {"run", "wait", "over"} /\ child' = c /\ m \in {0, Broken, TheEnd, at'} /\ message' = m
        /\ c # "run" /\ c # "wait" /\ m # TheEnd /\ m \notin 1..Len(LoaderSteps)
        /\ answer' \in {"", "text", "empty", "regions"}
    BY <1>6, <2>1
  <2> HIDE DEF c, m, TheEnd, Broken, LoaderSteps
  <2> QED
    BY <1>1, <1>2, <2>1, <2>2, <2>3, ChildKeeps
<1>8. CASE ~(answer = "empty" /\ step.how = "raise")
  <2> DEFINE omitted == [step EXCEPT !.op = "omit"]
             emitted == [step EXCEPT !.op = "emit"]
  <2>1. /\ at' = at + 1 /\ child' = "run" /\ message' = 0
        /\ page' = IF step.op = "layout" \/ step.how = "skip" THEN page
                   ELSE IF answer = "empty" THEN Append(page, omitted) ELSE Append(page, emitted)
    BY <1>2, <1>8 DEF ChildReads
  <2>2. /\ omitted \in ReadSteps /\ omitted.of = step.of
        /\ emitted \in ReadSteps /\ emitted.of = step.of
    <3>1. PICK op \in {"emit", "omit"} : op = "omit"
      OBVIOUS
    <3>2. PICK oq \in {"emit", "omit"} : oq = "emit"
      OBVIOUS
    <3> QED
      BY <1>2, <1>4, <3>1, <3>2, StepRead
  <2>3. step.op = "layout" \/ step.how = "skip" => step.of = {}
    BY <1>5 DEF SoundSteps
  <2>4. step.op # "raise"
    BY <1>4
  <2> HIDE DEF step
  <2> HIDE DEF omitted, emitted
  <2>5. page' \in Seq(ReadSteps) /\ Told(page) \cup step.of \subseteq Told(page')
    <3> DEFINE T == ReadSteps
    <3>1. page \in Seq(T) /\ omitted \in T /\ emitted \in T
      BY <1>3, <2>2
    <3> HIDE DEF T
    <3>2. CASE step.op = "layout" \/ step.how = "skip"
      BY <2>1, <2>3, <3>1, <3>2 DEF T
    <3>3. CASE ~(step.op = "layout" \/ step.how = "skip") /\ answer = "empty"
      <4>1. page' = Append(page, omitted)
        BY <2>1, <3>3
      <4>2. Append(page, omitted) \in Seq(T) /\ Told(Append(page, omitted)) = Told(page) \cup omitted.of
        BY <3>1, TellsMore
      <4> QED
        BY <2>2, <4>1, <4>2 DEF T
    <3>4. CASE ~(step.op = "layout" \/ step.how = "skip") /\ answer # "empty"
      <4>1. page' = Append(page, emitted)
        BY <2>1, <3>4
      <4>2. Append(page, emitted) \in Seq(T) /\ Told(Append(page, emitted)) = Told(page) \cup emitted.of
        BY <3>1, TellsMore
      <4> QED
        BY <2>2, <4>1, <4>2 DEF T
    <3> QED
      BY <3>2, <3>3, <3>4
  <2> DEFINE told == Told(elements) \cup Told(page')
  <2>6. Told(elements) \cup Told(page) \subseteq told /\ step.of \subseteq told
    BY <2>5
  <2> HIDE DEF told
  <2>7. /\ at + 1 \in 1..TheEnd
        /\ \A k \in 1..((at + 1) - 1) : LoaderSteps[k].op # "raise" /\ LoaderSteps[k].of \subseteq told
    BY <1>2, <1>4, <2>4, <2>6, NextRead DEF step
  <2>8. \A k \in 1..(at' - 1) :
            LoaderSteps[k].op # "raise" /\ LoaderSteps[k].of \subseteq Told(elements') \cup Told(page')
    <3>1. told = Told(elements') \cup Told(page')
      BY <1>1 DEF told
    <3> HIDE DEF LoaderSteps
    <3> QED
      BY <2>1, <2>7, <3>1
  <2>9. at' \in 1..TheEnd /\ page' \in Seq(ReadSteps) /\ elements' \in Seq(ReadSteps)
    BY <1>1, <1>3, <2>1, <2>5, <2>7
  <2> DEFINE c == "run"
             m == 0
  <2>10. /\ c \in {"run", "wait", "over"} /\ child' = c /\ m \in {0, Broken, TheEnd, at'} /\ message' = m
         /\ c # "wait" /\ c # "over" /\ m # TheEnd /\ m = 0 /\ answer' \in {"", "text", "empty", "regions"}
    BY <1>1, <1>6, <2>1
  <2> HIDE DEF c, m, TheEnd, Broken, LoaderSteps
  <2> QED
    BY <1>1, <1>2, <2>8, <2>9, <2>10, ChildKeeps
<1> QED
  BY <1>7, <1>8

\* At the end of the loader everything there is in the file is told.
LEMMA AllTold ==
  ASSUME Typed, at = TheEnd, NEW told,
         \A k \in 1..(at - 1) : LoaderSteps[k].op # "raise" /\ LoaderSteps[k].of \subseteq told
  PROVE  Due \subseteq told
<1>1. AccountsFor(file, LoaderSteps, Due) /\ Len(LoaderSteps) \in Nat
  BY PlanSound
<1>2. at - 1 = Len(LoaderSteps)
  BY <1>1 DEF TheEnd
<1> HIDE DEF LoaderSteps
<1>3. \A k \in 1..Len(LoaderSteps) : LoaderSteps[k].op # "raise" /\ LoaderSteps[k].of \subseteq told
  BY <1>2
<1>4. ~Raises(LoaderSteps)
  BY <1>3 DEF Raises
<1>5. Due \subseteq Accounted(LoaderSteps)
  BY <1>1, <1>4 DEF AccountsFor
<1>6. Accounted(LoaderSteps) \subseteq told
  BY <1>3 DEF Accounted
<1> QED
  BY <1>5, <1>6

\* What is evidence is handed on, and is all there is in the file.
LEMMA ChildEndsKeeps ==
  ASSUME ExtractionInv, ChildEnds PROVE ExtractionInv'
<1> DEFINE all == elements \o page
<1>1. /\ child = "run" /\ at = TheEnd /\ elements' = all /\ page' = <<>> /\ child' = "over"
      /\ message' = IF NoEvidence(file, Texts(all), Omitted(all)) THEN Broken ELSE TheEnd
      /\ UNCHANGED <<file, plan, tries, saved, parent, counts, left, history>>
      /\ answer' = answer /\ at' = at
  BY DEF ChildEnds, Send
<1>2. /\ parent \in {"poll", "look"} /\ message = 0 /\ at \in 1..TheEnd
      /\ \A k \in 1..(at - 1) :
            LoaderSteps[k].op # "raise" /\ LoaderSteps[k].of \subseteq Told(elements) \cup Told(page)
      /\ Typed /\ Attended /\ Read
  BY <1>1, ChildAtWork
<1>3. page \in Seq(ReadSteps) /\ elements \in Seq(ReadSteps) /\ answer = ""
  BY <1>1, <1>2 DEF Typed, Attended
<1>4. all \in Seq(ReadSteps) /\ Told(all) = Told(elements) \cup Told(page)
  <2> DEFINE T == ReadSteps
  <2>1. elements \in Seq(T) /\ page \in Seq(T)
    BY <1>3
  <2> HIDE DEF T
  <2>2. elements \o page \in Seq(T) /\ Told(elements \o page) = Told(elements) \cup Told(page)
    BY <2>1, ToldTogether
  <2> QED
    BY <2>2 DEF T
<1> HIDE DEF all
<1>5. Due \subseteq Told(all)
  BY <1>1, <1>2, <1>4, AllTold
<1>6. ASSUME message' = TheEnd PROVE Whole'
  <2>1. Broken # TheEnd
    <3>1. Len(LoaderSteps) \in Nat
      BY <1>2, PlanSound
    <3> QED
      BY <3>1 DEF Broken, TheEnd
  <2>2. ~NoEvidence(file, Texts(all), Omitted(all))
    BY <1>1, <1>6, <2>1
  <2>3. all # <<>> => Texts(all) > 0
    <3> DEFINE T == ReadSteps
    <3>1. all \in Seq(T)
      BY <1>4
    <3> HIDE DEF T
    <3> QED
      BY <2>2, <3>1, EvidenceHasText
  <2> QED
    BY <1>1, <1>5, <2>3 DEF Whole, Texts, Due
<1>7. \A S : <<>> \in Seq(S)
  OBVIOUS
<1>8. page' \in Seq(ReadSteps) /\ elements' \in Seq(ReadSteps) /\ at' \in 1..TheEnd
  BY <1>1, <1>2, <1>4, <1>7, Zenon
<1>9. TheEnd \notin 1..Len(LoaderSteps) /\ Broken \notin 1..Len(LoaderSteps)
  <2>1. Len(LoaderSteps) \in Nat
    BY <1>2, PlanSound
  <2> QED
    BY <2>1, PipeNumbers DEF TheEnd, Broken
<1>10. PICK m \in {Broken, TheEnd} : message' = m
  BY <1>1
<1> DEFINE c == "over"
<1>11. /\ c \in {"run", "wait", "over"} /\ child' = c /\ m \in {0, Broken, TheEnd, at'} /\ message' = m
       /\ c # "run" /\ c # "wait" /\ m \notin 1..Len(LoaderSteps)
       /\ answer' \in {"", "text", "empty", "regions"}
  BY <1>1, <1>3, <1>9, <1>10
<1>12. m = TheEnd => Whole'
  BY <1>6, <1>10
<1> HIDE DEF c, TheEnd, Broken, LoaderSteps
<1> QED
  BY <1>1, <1>2, <1>8, <1>11, <1>12, ChildKeeps

\* A child that died has sent what it has sent.
LEMMA ChildDiesKeeps ==
  ASSUME ExtractionInv, ChildDies PROVE ExtractionInv'
<1>0. Typed /\ CountsTyped /\ Attended /\ Read /\ Ledger
  BY DEF ExtractionInv
<1>1. /\ file' = file /\ plan' = plan /\ tries' = tries /\ saved' = saved /\ elements' = elements
      /\ child \in {"run", "wait"} /\ child' = "over"
      /\ at' = at /\ page' = page /\ message' = message /\ answer' = answer
      /\ parent' = parent /\ left' = left /\ UNCHANGED counts /\ UNCHANGED history
  BY DEF ChildDies, pipe
<1>2. /\ ReadSteps' = ReadSteps /\ LoaderSteps' = LoaderSteps /\ TheEnd' = TheEnd /\ Broken' = Broken
      /\ file' \in Files /\ plan' = [steps |-> Steps(file'), items |-> Items(file')]
  BY <1>0, <1>1, SameFile
<1>3. Typed'
  <2> HIDE DEF TheEnd, Broken
  <2> QED
    BY <1>0, <1>1, <1>2 DEF Typed
<1>4. CountsTyped'
  BY <1>0, <1>1 DEF CountsTyped, counts, history
<1>5. Busy
  BY <1>0, <1>1 DEF Attended
<1>6. Busy' /\ parent' \notin {"idle", "done"} /\ Image' = Image
  BY <1>1, <1>2, <1>5 DEF Busy, Image
<1>7. Attended'
  <2> HIDE DEF LoaderSteps, TheEnd, Busy, Image
  <2> QED
    BY <1>0, <1>1, <1>2, <1>5, <1>6 DEF Attended
<1>8. Read'
  <2>1. Whole' <=> Whole
    BY <1>1, SameWhole
  <2> HIDE DEF LoaderSteps, TheEnd
  <2> QED
    BY <1>0, <1>1, <1>2, <1>6, <2>1 DEF Read
<1>9. Ledger'
  BY <1>0, <1>1 DEF Ledger, counts, history
<1> QED
  BY <1>3, <1>4, <1>7, <1>8, <1>9 DEF ExtractionInv

(***************************************************************************)
(* The invariant holds.                                                    *)
(***************************************************************************)
\* A job begins with a file, and with no attempt, artifact or element.
LEMMA ExtractionBegins ==
  ASSUME ExtractionInit PROVE ExtractionInv
<1>1. /\ file \in Files /\ plan = [steps |-> Steps(file), items |-> Items(file)]
      /\ tries = 0 /\ saved = <<>> /\ parent = "idle" /\ child = "none"
      /\ at = 0 /\ message = 0 /\ answer = "" /\ page = <<>> /\ elements = <<>>
      /\ calls = 0 /\ reused = 0 /\ tokens = 0 /\ left = 0
      /\ asks = 0 /\ paid = 0 /\ cut = 0
  BY DEF ExtractionInit
<1>2. SavedSound(saved) /\ AnsweredPictures(saved) = {}
  <2>1. DOMAIN saved = {}
    <3>1. DOMAIN <<>> = {}
      OBVIOUS
    <3> QED
      BY <1>1, <3>1, Zenon
  <2>2. IsFiniteSet({})
    BY FS_EmptySet
  <2> QED
    BY <2>1, <2>2 DEF SavedSound, AnsweredPictures
<1>3. Len(LoaderSteps) \in Nat
  <2>1. WellFormed(file) /\ LoaderSteps = Steps(file)
    BY <1>1, FilesAssumption DEF LoaderSteps
  <2>2. LoaderSteps \in Seq(SoundSteps)
    BY <2>1, LoadersAccountForFiles DEF AccountsFor
  <2> HIDE DEF LoaderSteps
  <2> QED
    BY <2>2, BoxesOfSeq
<1>4. /\ at \in 0..TheEnd /\ message \in 0..Broken /\ message \notin 1..Len(LoaderSteps) /\ message # TheEnd
  <2> DEFINE n == Len(LoaderSteps)
  <2>1. n \in Nat /\ TheEnd = n + 1 /\ Broken = n + 1 + 1
    BY <1>3 DEF TheEnd, Broken
  <2> HIDE DEF n
  <2>2. 0 \in 0..TheEnd /\ 0 \in 0..Broken /\ 0 \notin 1..n /\ 0 # TheEnd
    BY <2>1
  <2> QED
    BY <1>1, <2>2, Zenon DEF n
<1>5. \A S : <<>> \in Seq(S)
  OBVIOUS
<1>6. page \in Seq(ReadSteps) /\ elements \in Seq(ReadSteps)
  BY <1>1, <1>5, Zenon
<1>7. tries \in 0..MaxTries /\ left \in 0..ParseTime
  <2>1. 0 \in 0..MaxTries /\ 0 \in 0..ParseTime
    BY ExtractionAssumption
  <2> QED
    BY <1>1, <2>1, Zenon
<1>8. Typed
  <2> HIDE DEF TheEnd, Broken
  <2> QED
    BY <1>1, <1>2, <1>4, <1>6, <1>7 DEF Typed
<1>9. CountsTyped
  <2>1. 0 \in 0..(MaxVisionCalls + 1) /\ 0 \in 0..MaxVisionCalls /\ 0 \in 0..MaxVisionTokens /\ 0 \in Nat
    BY ExtractionAssumption
  <2> QED
    BY <1>1, <2>1, Zenon DEF CountsTyped
<1>10. ~Busy
  BY <1>1 DEF Busy
<1>11. Attended
  BY <1>1, <1>4, <1>10 DEF Attended
<1>12. Read
  BY <1>1, <1>4 DEF Read
<1>13. Ledger
  <2>1. Cardinality(AnsweredPictures(saved)) = 0
    BY <1>2, FS_EmptySet
  <2>2. paid = cut + Cardinality(AnsweredPictures(saved)) + (IF parent = "asking" THEN 1 ELSE 0)
    <3>1. (IF parent = "asking" THEN 1 ELSE 0) = 0
      BY <1>1
    <3>2. 0 = 0 + 0 + 0
      OBVIOUS
    <3> QED
      BY <1>1, <2>1, <3>1, <3>2, Zenon
  <2>3. parent \notin {"poll", "look", "asking", "done"}
    BY <1>1
  <2> QED
    BY <2>2, <2>3 DEF Ledger
<1> QED
  BY <1>8, <1>9, <1>11, <1>12, <1>13 DEF ExtractionInv

\* Every step of an extraction keeps it: one case for every action of its parent,
\* its child, its worker and the clock.
LEMMA ExtractionKeeps ==
  ASSUME ExtractionInv, ExtractionNext PROVE ExtractionInv'
<1>1. CASE Reuse BY <1>1, ReuseKeeps
<1>2. CASE Spawn BY <1>2, SpawnKeeps
<1>3. CASE LeaseLost BY <1>3, LeaseLostKeeps
<1>4. CASE ParentStep
  <2>1. CASE TimesOut BY <2>1, TimesOutKeeps
  <2>2. CASE PollNothing BY <2>2, PollNothingKeeps
  <2>3. CASE LookAtChild BY <2>3, LookAtChildKeeps
  <2>4. CASE Receive
    <3>1. CASE ReceiveEnd BY <3>1, ReceiveEndKeeps
    <3>2. CASE ReceiveError BY <3>2, ReceiveErrorKeeps
    <3>3. CASE ReceiveResult BY <3>3, ReceiveResultKeeps
    <3>4. CASE ReceiveLayout BY <3>4, ReceiveLayoutKeeps
    <3>5. CASE ReceiveVision BY <3>5, ReceiveVisionKeeps
    <3> QED
      BY <2>4, <3>1, <3>2, <3>3, <3>4, <3>5 DEF Receive
  <2>5. CASE VisionAnswers BY <2>5, VisionAnswersKeeps
  <2>6. CASE VisionFails BY <2>6, VisionFailsKeeps
  <2> QED
    BY <1>4, <2>1, <2>2, <2>3, <2>4, <2>5, <2>6 DEF ParentStep
<1>5. CASE WorkerDies BY <1>5, WorkerDiesKeeps
<1>6. CASE TryAgain BY <1>6, TryAgainKeeps
<1>7. CASE ChildStep BY <1>7, ChildStepKeeps
<1>8. CASE ChildReads BY <1>8, ChildReadsKeeps
<1>9. CASE ChildEnds BY <1>9, ChildEndsKeeps
<1>10. CASE ChildDies BY <1>10, ChildDiesKeeps
<1>11. CASE ExtractionTick BY <1>11, TickKeeps
<1> QED
  BY <1>1, <1>2, <1>3, <1>4, <1>5, <1>6, <1>7, <1>8, <1>9, <1>10, <1>11 DEF ExtractionNext

\* What the extraction does not touch it does not disturb.
LEMMA ExtractionStays ==
  ASSUME ExtractionInv, UNCHANGED extractionVars PROVE ExtractionInv'
<1>1. /\ file' = file /\ plan' = plan /\ tries' = tries /\ saved' = saved /\ parent' = parent
      /\ child' = child /\ at' = at /\ page' = page /\ elements' = elements
      /\ message' = message /\ answer' = answer /\ left' = left
      /\ calls' = calls /\ reused' = reused /\ tokens' = tokens
      /\ asks' = asks /\ paid' = paid /\ cut' = cut
  BY DEF extractionVars, pipe, childVars, counts, history
<1>2. Typed /\ CountsTyped /\ Attended /\ Read /\ Ledger
  BY DEF ExtractionInv
<1>3. /\ ReadSteps' = ReadSteps /\ LoaderSteps' = LoaderSteps /\ TheEnd' = TheEnd /\ Broken' = Broken
      /\ file' \in Files /\ plan' = [steps |-> Steps(file'), items |-> Items(file')]
  BY <1>1, <1>2, SameFile
<1>4. (Busy' <=> Busy) /\ Image' = Image /\ (Whole' <=> Whole)
  BY <1>1, <1>3, SameWhole DEF Busy, Image
<1> HIDE DEF LoaderSteps, TheEnd, Broken, Busy, Image
<1>5. Typed'
  BY <1>1, <1>2, <1>3 DEF Typed
<1>6. CountsTyped'
  BY <1>1, <1>2 DEF CountsTyped
<1>7. Attended'
  BY <1>1, <1>2, <1>3, <1>4 DEF Attended
<1>8. Read'
  BY <1>1, <1>2, <1>3, <1>4 DEF Read
<1>9. Ledger'
  BY <1>1, <1>2 DEF Ledger
<1> QED
  BY <1>5, <1>6, <1>7, <1>8, <1>9 DEF ExtractionInv

\* The invariant of the extraction holds from the first state on, whichever stage
\* the behaviour begins at.
THEOREM PassagesInvariant == Spec => []PassagesInv
<1>1. Init => PassagesInv
  <2> SUFFICES ASSUME Init PROVE PassagesInv
    OBVIOUS
  <2>1. ExtractionInit /\ parent = "idle"
    BY DEF Init, ExtractionInit
  <2>2. stage \in {"extract"} \cup DOMAIN Inputs
    BY DEF Init
  <2> QED
    BY <2>1, <2>2, ExtractionBegins DEF PassagesInv
<1>2. PassagesInv /\ [Next]_vars => PassagesInv'
  <2> SUFFICES ASSUME PassagesInv, [Next]_vars PROVE PassagesInv'
    OBVIOUS
  <2>1. ExtractionInv /\ stage \in {"extract"} \cup DOMAIN Inputs /\ (stage # "extract" => parent = "idle")
    BY DEF PassagesInv
  <2>2. CASE Extract
    <3>1. stage = "extract" /\ stage' = stage /\ ExtractionNext
      BY <2>2 DEF Extract, Stays
    <3>2. ExtractionInv'
      BY <2>1, <3>1, ExtractionKeeps
    <3> QED
      BY <3>1, <3>2 DEF PassagesInv
  <2>3. CASE UNCHANGED <<extractionVars, stage>>
    <3>1. ExtractionInv'
      BY <2>1, <2>3, ExtractionStays
    <3>2. stage' = stage /\ parent' = parent
      BY <2>3 DEF extractionVars
    <3> QED
      BY <2>1, <3>1, <3>2 DEF PassagesInv
  <2>4. Make => UNCHANGED <<extractionVars, stage>>
    BY DEF Make
  <2>5. UNCHANGED vars => UNCHANGED <<extractionVars, stage>>
    BY DEF vars
  <2> QED
    BY <2>2, <2>3, <2>4, <2>5 DEF Next
<1> QED
  BY <1>1, <1>2, PTL DEF Spec

(***************************************************************************)
(* The theorems.                                                           *)
(***************************************************************************)
\* Every variable of the extraction, and the stage, has its type: an attempt stays
\* within the calls, the tokens and the time it is given, and the child within the
\* steps of its loader.
THEOREM PassagesTyped == Spec => []TypeOK
<1>1. PassagesInv => TypeOK
  <2> SUFFICES ASSUME PassagesInv PROVE TypeOK
    OBVIOUS
  <2>1. Typed /\ CountsTyped /\ stage \in {"extract"} \cup DOMAIN Inputs /\ (stage # "extract" => parent = "idle")
    BY DEF PassagesInv, ExtractionInv
  <2>2. \A i \in DOMAIN saved : saved[i] \in {"text", "empty", "regions", "elements"}
    BY <2>1 DEF Typed, SavedSound, ModelAnswers
  <2> HIDE DEF TheEnd, Broken
  <2>3. ExtractionTypeOK
    BY <2>1, <2>2 DEF ExtractionTypeOK, Typed, CountsTyped
  <2> QED
    BY <2>1, <2>3 DEF TypeOK
<1> QED
  BY <1>1, PassagesInvariant, PTL

\* An extraction that is handed on accounts for every item of the file that its
\* loader does not pass over (PassedOver), however often its child, its worker or a
\* model failed on the way, for every file a format library can give and every limit.
THEOREM ExtractionAccountsForSource == Spec => []SourceAccounted
<1>1. PassagesInv => SourceAccounted
  <2> SUFFICES ASSUME PassagesInv, parent = "done", elements # <<>>
               PROVE  /\ Due \subseteq UNION {elements[i].of : i \in 1..Len(elements)}
                      /\ Texts(elements) > 0
                      /\ \A i \in 1..Len(elements) : elements[i].at # <<>> =>
                            \A item \in elements[i].of :
                               \/ item[3] \in elements[i].at[1]..elements[i].at[2]
                               \/ file.lines[item[3]].kind = "heading"
    BY DEF SourceAccounted, Due
  <2>1. Typed /\ Read
    BY DEF PassagesInv, ExtractionInv
  <2>2. Whole
    BY <2>1 DEF Read
  <2>3. Due \subseteq Told(elements) /\ Texts(elements) > 0
    BY <2>2 DEF Whole
  <2>4. elements \in Seq(ReadSteps)
    BY <2>1 DEF Typed
  <2>5. \A i \in 1..Len(elements) : elements[i] \in ReadSteps
    <3> DEFINE T == ReadSteps
    <3>1. elements \in Seq(T)
      BY <2>4
    <3> HIDE DEF T
    <3>2. \A i \in 1..Len(elements) : elements[i] \in T
      BY <3>1, BoxesOfSeq
    <3> QED
      BY <3>2 DEF T
  <2>6. \A i \in 1..Len(elements) : ReadsThere(file, elements[i])
    BY <2>5 DEF ReadSteps
  <2>7. \A i \in 1..Len(elements) : elements[i].at # <<>> =>
           \A item \in elements[i].of :
              \/ item[3] \in elements[i].at[1]..elements[i].at[2]
              \/ file.lines[item[3]].kind = "heading"
    BY <2>6 DEF ReadsThere
  <2> QED
    BY <2>3, <2>7 DEF Told
<1> QED
  BY <1>1, PassagesInvariant, PTL

\* No picture is paid for twice: every call of the vision model of a job has its
\* answer in an artifact or was cut off, over all the attempts; what an attempt
\* reports is what it asked, within its budget.
THEOREM ExtractionAccountsForVision == Spec => []VisionAccounted
<1>1. PassagesInv => VisionAccounted
  <2> SUFFICES ASSUME PassagesInv PROVE VisionAccounted
    OBVIOUS
  <2>1. Typed /\ CountsTyped /\ Ledger
    BY DEF PassagesInv, ExtractionInv
  <2>2. AnsweredPictures(saved) = {i \in DOMAIN saved : saved[i] \in {"text", "empty"}}
    BY DEF AnsweredPictures, ModelAnswers
  <2>3. paid = cut + Cardinality({i \in DOMAIN saved : saved[i] \in {"text", "empty"}})
                 + (IF parent = "asking" THEN 1 ELSE 0)
    BY <2>1, <2>2 DEF Ledger
  <2>4. parent = "done" => calls - reused = asks
    <3>1. parent = "done" => calls = reused + asks
      BY <2>1 DEF Ledger
    <3>2. calls \in Nat /\ reused \in Nat /\ asks \in Nat
      BY <2>1, ExtractionAssumption DEF CountsTyped
    <3> QED
      BY <3>1, <3>2
  <2>5. tokens <= MaxVisionTokens
    BY <2>1, ExtractionAssumption DEF CountsTyped
  <2> QED
    BY <2>3, <2>4, <2>5 DEF VisionAccounted
<1> QED
  BY <1>1, PassagesInvariant, PTL

(***************************************************************************)
(* Searching: the rule of access, candidates, fusion and reranking         *)
(***************************************************************************)
\* The two forms of the rule agree: an administrator is asked nothing by the clauses of
\* a query, and may see everything; of anyone else they ask what the rule asks.
LEMMA RulesAlwaysAgree ==
  ASSUME NEW corpus, NEW access, access.role = "admin" \/ access.user # NoUser
  PROVE  RulesAgree(corpus, access)
<1> SUFFICES ASSUME NEW i \in 1..Len(corpus)
             PROVE  Eligible(corpus[i], access) <=> Visible(corpus[i], access)
  BY DEF RulesAgree, Eligible, Visible
<1> DEFINE p == corpus[i]
           clauses == AclPushdown(access)
<1>1. clauses.docs = access.docs /\ clauses.user = access.user
      /\ (clauses.ruled <=> access.role # "admin" /\ access.user # NoUser)
  BY DEF AclPushdown
<1> HIDE DEF p
<1> QED
  BY <1>1 DEF Eligible, Visible, Admits, CanView, AclPushdown

\* All ids, in their order.
LEMMA AllIdsAre ==
  ASSUME NEW corpus, Len(corpus) \in Nat
  PROVE  AllIds(corpus) \in Seq(1..Len(corpus)) /\ ToSet(AllIds(corpus)) = 1..Len(corpus)
<1> DEFINE n == Len(corpus)
<1>1. [i \in 1..n |-> i] \in Seq(1..n)
  OBVIOUS
<1>2. ToSet([i \in 1..n |-> i]) = 1..n
  BY DEF ToSet
<1> QED
  BY <1>1, <1>2 DEF AllIds

\* A query of the store finds as many as it may of what is wanted and may be seen, and
\* nothing else.
LEMMA CandidatesAre ==
  ASSUME NEW corpus, Len(corpus) \in Nat, NEW access, RulesAgree(corpus, access),
         NEW wanted \in SUBSET (1..Len(corpus)), NEW scores, \A i \in 1..Len(corpus) : scores[i] \in Int,
         NEW pool \in Nat
  PROVE  LET c == Candidates(corpus, access, wanted, scores, pool)
             most == Cardinality(wanted \cap Seen(corpus, access))
         IN  /\ c \in Seq(1..Len(corpus)) /\ Unrepeated(c) /\ ToSet(c) \subseteq wanted \cap Seen(corpus, access)
             /\ Len(c) = IF pool <= most THEN pool ELSE most
<1> DEFINE T == 1..Len(corpus)
           W == {i \in wanted : Eligible(corpus[i], access)}
           A == Among(AllIds(corpus), W)
           D == Descending(A, scores)
           P == Top(D, pool)
           C == Among(P, Admitted(corpus, access))
<1>1. W = wanted \cap Seen(corpus, access)
  BY DEF RulesAgree, Seen
<1>2. Seen(corpus, access) \subseteq Admitted(corpus, access)
  BY DEF Seen, Admitted, Visible
<1>3. Candidates(corpus, access, wanted, scores, pool) = C
  BY DEF Candidates
<1>4. W \subseteq T
  OBVIOUS
<1> HIDE DEF T, W, A, D, P, C
<1>5. A \in Seq(T) /\ ToSet(A) = W
  <2>1. AllIds(corpus) \in Seq(T) /\ ToSet(AllIds(corpus)) = T
    BY AllIdsAre DEF T
  <2>2. A \in Seq(T) /\ ToSet(A) = T \cap W
    BY <2>1, AmongIs DEF A
  <2> QED
    BY <1>4, <2>2
<1>6. D \in Seq(T) /\ ToSet(D) = W /\ Unrepeated(D) /\ Len(D) = Cardinality(W)
  <2>1. \A x \in ToSet(A) : scores[x] \in Int
    BY <1>4, <1>5 DEF T
  <2> QED
    BY <1>5, <2>1, DescendingIs DEF D
<1>7. /\ P \in Seq(T) /\ Unrepeated(P) /\ ToSet(P) \subseteq W
      /\ Len(P) = IF pool <= Cardinality(W) THEN pool ELSE Cardinality(W)
  BY <1>6, TopIs DEF P
<1>8. ToSet(P) \cap Admitted(corpus, access) = ToSet(P)
  BY <1>1, <1>2, <1>7
<1>9. Cardinality(ToSet(P)) = Len(P)
  BY <1>7, ListCount
<1>10. C \in Seq(T) /\ Unrepeated(C) /\ ToSet(C) = ToSet(P) /\ Len(C) = Len(P)
  <2>1. /\ C \in Seq(T) /\ Unrepeated(C) /\ ToSet(C) = ToSet(P) \cap Admitted(corpus, access)
        /\ Len(C) = Cardinality(ToSet(P) \cap Admitted(corpus, access))
    BY <1>7, AmongIs DEF C
  <2> QED
    BY <1>8, <1>9, <2>1
<1>11. ToSet(C) \subseteq wanted \cap Seen(corpus, access)
  BY <1>1, <1>7, <1>10
<1>12. Len(C) = IF pool <= Cardinality(wanted \cap Seen(corpus, access)) THEN pool
                ELSE Cardinality(wanted \cap Seen(corpus, access))
  BY <1>1, <1>7, <1>10
<1> QED
  BY <1>3, <1>10, <1>11, <1>12 DEF T

\* The ranks of a passage have a sum.
LEMMA RankSumIs ==
  ASSUME NEW T, NEW lists \in Seq(Seq(T)), NEW i
  PROVE  RankSum(lists, i) \in Int
<1> DEFINE N == Len(lists)
           step == [p \in Int \X (1..N) |-> p[1] + RankIn(lists[p[2]], i)]
           s == CHOOSE f : f = [n \in 0..N |-> IF n = 0 THEN 0 ELSE f[n - 1] + RankIn(lists[n], i)]
<1>1. ASSUME NEW n \in 1..N PROVE RankIn(lists[n], i) \in Int
  <2>1. lists[n] \in Seq(T)
    OBVIOUS
  <2>2. CASE i \in ToSet(lists[n])
    <3>1. Position(lists[n], i) \in Nat
      BY <2>1, <2>2, PositionOf
    <3>2. Scale \in Int
      BY DEF Scale
    <3>3. Scale \div (60 + Position(lists[n], i)) \in Int
      BY <3>1, <3>2
    <3> QED
      BY <2>2, <3>3 DEF RankIn
  <2>3. CASE i \notin ToSet(lists[n])
    BY <2>3 DEF RankIn
  <2> QED
    BY <2>2, <2>3
<1>2. N \in Nat /\ 0 \in Int
  OBVIOUS
<1>3. step \in Stepping(Int, N)
  <2>1. \A p \in Int \X (1..N) : p[1] + RankIn(lists[p[2]], i) \in Int
    BY <1>1
  <2> QED
    BY <2>1 DEF Stepping
<1> HIDE DEF step, N
<1>4. PICK f : Recursive(f, N, Int, 0, step)
  BY <1>2, <1>3, RecursionExists
<1> USE DEF N
<1>5. f \in [0..N -> Int] /\ f[0] = 0 /\ \A n \in 1..N : f[n] = step[<<f[n - 1], n>>]
  BY <1>4 DEF Recursive
<1>6. ASSUME NEW n \in 1..N PROVE f[n] = f[n - 1] + RankIn(lists[n], i)
  <2>0. n - 1 \in 0..N
    BY <1>2
  <2>1. <<f[n - 1], n>> \in Int \X (1..N)
    BY <1>5, <2>0
  <2>2. step[<<f[n - 1], n>>] = f[n - 1] + RankIn(lists[n], i)
    BY <2>1 DEF step
  <2> QED
    BY <1>5, <2>2
<1>7. f = [n \in 0..N |-> IF n = 0 THEN 0 ELSE f[n - 1] + RankIn(lists[n], i)]
  <2>1. \A n \in 0..N : f[n] = IF n = 0 THEN 0 ELSE f[n - 1] + RankIn(lists[n], i)
    BY <1>5, <1>6
  <2> QED
    BY <1>5, <2>1
<1>8. s = [n \in 0..N |-> IF n = 0 THEN 0 ELSE s[n - 1] + RankIn(lists[n], i)]
  BY <1>7
<1>9. RankSum(lists, i) = s[N]
  BY DEF RankSum
<1> HIDE DEF s
<1>10. \A k \in 0..N : s[k] \in Int
  <2>1. s[0] \in Int
    <3>1. s[0] = 0
      BY <1>2, <1>8
    <3> QED
      BY <3>1
  <2>2. ASSUME NEW k \in 1..N, s[k - 1] \in Int PROVE s[k] \in Int
    <3>1. k \in 0..N /\ k # 0
      BY <1>2
    <3>2. s[k] = IF k = 0 THEN 0 ELSE s[k - 1] + RankIn(lists[k], i)
      BY <1>8, <3>1, Zenon
    <3>3. s[k] = s[k - 1] + RankIn(lists[k], i)
      BY <3>1, <3>2
    <3> QED
      BY <1>1, <2>2, <3>3
  <2> QED
    BY <1>2, <2>1, <2>2, RecursionStays
<1> QED
  BY <1>2, <1>9, <1>10

\* Lists fused have what each of them has, each once.
LEMMA FusedAre ==
  ASSUME NEW T, NEW lists \in Seq(Seq(T))
  PROVE  LET all == UNION {ToSet(lists[q]) : q \in 1..Len(lists)} IN
         /\ FusedByRank(lists) \in Seq(T) /\ Unrepeated(FusedByRank(lists))
         /\ ToSet(FusedByRank(lists)) = all /\ Len(FusedByRank(lists)) = Cardinality(all)
<1> DEFINE ids == FlattenSeq(lists)
           score == [i \in ToSet(ids) |-> RankSum(lists, i)]
<1>1. ids \in Seq(T) /\ ToSet(ids) = UNION {ToSet(lists[q]) : q \in 1..Len(lists)}
  BY FlattenRange
<1>2. \A x \in ToSet(ids) : score[x] \in Int
  BY RankSumIs
<1>3. FusedByRank(lists) = Descending(ids, score)
  BY DEF FusedByRank
<1> HIDE DEF ids, score
<1>4. /\ Descending(ids, score) \in Seq(T) /\ ToSet(Descending(ids, score)) = ToSet(ids)
      /\ Unrepeated(Descending(ids, score)) /\ Len(Descending(ids, score)) = Cardinality(ToSet(ids))
  BY <1>1, <1>2, DescendingIs
<1> QED
  BY <1>1, <1>3, <1>4

\* What a search finds may be seen, and it finds as much of it as was asked for.
LEMMA SearchIs ==
  ASSUME NEW corpus, NEW parts, CorpusWhole(corpus, parts), NEW access, RulesAgree(corpus, access),
         NEW q \in 1..parts, NEW k \in Nat, NEW settings, SettingsWhole(settings)
  PROVE  LET s == Search(corpus, access, q, k, settings) IN
         /\ s \in Seq(1..Len(corpus)) /\ Unrepeated(s) /\ ToSet(s) \subseteq Seen(corpus, access)
         /\ Len(s) <= k
         /\ k <= Len(s) \/ Cardinality(Seen(corpus, access)) <= Len(s)
<1> DEFINE T == 1..Len(corpus)
           all == Seen(corpus, access)
           pool == PoolSize(settings, k)
           dense == Candidates(corpus, access, 1..Len(corpus), DenseScores(corpus, q), pool)
           lexical == Candidates(corpus, access, Matching(corpus, q), LexicalScores(corpus, q), pool)
           other == IF settings.lexical THEN lexical ELSE <<>>
           both == <<dense, other>>
           found == ToSet(dense) \cup ToSet(other)
<1>1. pool \in Nat /\ k <= pool
  <2>1. k * settings.multiplier \in Nat /\ settings.candidates \in Nat
    BY DEF SettingsWhole
  <2>2. pool = Max({k, k * settings.multiplier, settings.candidates})
    BY DEF PoolSize
  <2> HIDE DEF pool
  <2>3. ASSUME NEW a \in Nat, NEW b \in Nat, NEW c \in Nat PROVE Max({a, b, c}) \in Nat /\ a <= Max({a, b, c})
    <3>1. Max({a, b, c}) \in {a, b, c} /\ Max({a, b, c}) >= a
      BY MaxOfThree
    <3>2. Max({a, b, c}) \in Nat
      BY <3>1
    <3> QED
      BY <3>1, <3>2
  <2> QED
    BY <2>1, <2>2, <2>3, Zenon
<1>2. Len(corpus) \in Nat /\ all \subseteq T
  BY DEF CorpusWhole, Seen
<1>3. \A i \in T : DenseScores(corpus, q)[i] \in Int /\ LexicalScores(corpus, q)[i] \in Int
  BY DEF CorpusWhole, DenseScores, LexicalScores
<1>4. Matching(corpus, q) \in SUBSET T /\ T \in SUBSET T
  BY DEF Matching
<1>5. T \cap all = all
  BY <1>2
<1> HIDE DEF T, all, pool
<1>6. /\ dense \in Seq(T) /\ Unrepeated(dense) /\ ToSet(dense) \subseteq all
      /\ Len(dense) = IF pool <= Cardinality(all) THEN pool ELSE Cardinality(all)
  <2>1. /\ dense \in Seq(T) /\ Unrepeated(dense) /\ ToSet(dense) \subseteq T \cap all
        /\ Len(dense) = IF pool <= Cardinality(T \cap all) THEN pool ELSE Cardinality(T \cap all)
    BY <1>1, <1>2, <1>3, <1>4, CandidatesAre DEF T, all
  <2> QED
    BY <1>5, <2>1
<1>7. lexical \in Seq(T) /\ ToSet(lexical) \subseteq all
  BY <1>1, <1>2, <1>3, <1>4, CandidatesAre DEF T, all
<1> HIDE DEF dense, lexical
<1>8. other \in Seq(T) /\ ToSet(other) \subseteq all
  <2>1. \A S : <<>> \in Seq(S)
    OBVIOUS
  <2>2. <<>> \in Seq(T)
    BY <2>1, Zenon
  <2>3. ToSet(<<>>) = {}
    BY DEF ToSet
  <2> QED
    BY <1>7, <2>2, <2>3
<1> HIDE DEF other
<1>9. both \in Seq(Seq(T)) /\ UNION {ToSet(both[n]) : n \in 1..Len(both)} = found
  <2>1. \A S : \A a, b \in S : <<a, b>> \in Seq(S)
    OBVIOUS
  <2>2. both \in Seq(Seq(T))
    BY <1>6, <1>8, <2>1, Zenon
  <2>3. Len(both) = 2 /\ both[1] = dense /\ both[2] = other
    OBVIOUS
  <2>4. 1..2 = {1, 2}
    OBVIOUS
  <2> HIDE DEF both
  <2>5. UNION {ToSet(both[n]) : n \in {1, 2}} = ToSet(dense) \cup ToSet(other)
    BY <2>3
  <2> QED
    BY <2>2, <2>3, <2>4, <2>5
<1> HIDE DEF both
<1> DEFINE f == FusedByRank(both)
<1>10. f \in Seq(T) /\ Unrepeated(f) /\ ToSet(f) = found /\ Len(f) = Cardinality(found)
  <2> DEFINE all2 == UNION {ToSet(both[n]) : n \in 1..Len(both)}
  <2>1. all2 = found /\ both \in Seq(Seq(T))
    BY <1>9
  <2> HIDE DEF f, T, found
  <2>2. /\ FusedByRank(both) \in Seq(T) /\ Unrepeated(FusedByRank(both))
        /\ ToSet(FusedByRank(both)) = all2 /\ Len(FusedByRank(both)) = Cardinality(all2)
    BY <2>1, FusedAre
  <2> HIDE DEF all2
  <2> QED
    BY <2>1, <2>2 DEF f
<1>11. Search(corpus, access, q, k, settings) = Top(f, k)
  BY DEF Search, both, other, dense, lexical, pool
<1> HIDE DEF f
<1>12. found \subseteq all
  BY <1>6, <1>8
<1>13. Cardinality(found) >= Len(dense) /\ Len(dense) \in Nat /\ Cardinality(found) \in Nat
  <2>1. IsFiniteSet(found)
    BY <1>10, ListCount
  <2>2. Cardinality(ToSet(dense)) <= Cardinality(found)
    BY <2>1, FS_Subset
  <2>3. Cardinality(ToSet(dense)) = Len(dense)
    BY <1>6, ListCount
  <2>4. Cardinality(found) \in Nat
    BY <2>1, FS_CardinalityType
  <2>5. Len(dense) \in Nat
    BY <1>6
  <2> QED
    BY <2>2, <2>3, <2>4, <2>5
<1> HIDE DEF found
<1>14. /\ Top(f, k) \in Seq(T) /\ Len(Top(f, k)) = (IF k <= Len(f) THEN k ELSE Len(f))
       /\ ToSet(Top(f, k)) \subseteq ToSet(f) /\ Unrepeated(Top(f, k))
  BY <1>10, TopIs
<1>15. Cardinality(all) \in Nat
  <2>1. IsFiniteSet(T)
    BY <1>2, FS_Interval DEF T
  <2>2. IsFiniteSet(all)
    BY <1>2, <2>1, FS_Subset
  <2> QED
    BY <2>2, FS_CardinalityType
<1>16. Len(Top(f, k)) <= k /\ (k <= Len(Top(f, k)) \/ Cardinality(all) <= Len(Top(f, k)))
  <2>1. Len(f) = Cardinality(found) /\ Len(f) \in Nat
    BY <1>10, <1>13
  <2>2. pool <= Len(dense) \/ Cardinality(all) <= Len(dense)
    BY <1>1, <1>6, <1>15
  <2>3. k <= Len(f) \/ Cardinality(all) <= Len(f)
    BY <1>1, <1>13, <1>15, <2>1, <2>2
  <2> QED
    BY <1>14, <1>15, <2>1, <2>3
<1> QED
  BY <1>10, <1>11, <1>12, <1>14, <1>16 DEF T, all

\* No furniture is useful, and all else is.
LEMMA UsefulIs ==
  ASSUME NEW corpus, NEW question, NEW ids \in Seq(1..Len(corpus))
  PROVE  LET u == Useful(corpus, question, ids) IN
         /\ u \in Seq(1..Len(corpus)) /\ Unrepeated(u)
         /\ ToSet(u) = ToSet(ids) \ Furniture(corpus, question, ToSet(ids))
<1>1. ToSet(ids) \cap (ToSet(ids) \ Furniture(corpus, question, ToSet(ids)))
        = ToSet(ids) \ Furniture(corpus, question, ToSet(ids))
  OBVIOUS
<1> QED
  BY <1>1, AmongIs DEF Useful

\* Text of the body is never furniture.
LEMMA BodyIsUseful ==
  ASSUME NEW corpus, NEW question, NEW ids, NEW i, corpus[i].where \in {"none", "body"}
  PROVE  i \notin Furniture(corpus, question, ids)
  BY DEF Furniture, Repeats

\* Less of the same is no more furniture.
LEMMA FurnitureGrows ==
  ASSUME NEW corpus, NEW question, NEW all, NEW ids \in SUBSET all
  PROVE  Furniture(corpus, question, ids) \subseteq Furniture(corpus, question, all)
  BY DEF Furniture, Repeats

\* A score is a number.
LEMMA ScoresAre ==
  ASSUME NEW corpus, NEW parts, CorpusWhole(corpus, parts), NEW q \in 1..parts, NEW settings
  PROVE  \A i \in 1..Len(corpus) : Scores(corpus, q, settings)[i] \in Nat
  BY DEF CorpusWhole, Scores

\* To rerank is to keep some of what was found, at most k; without a floor, as many as
\* there are places for.
LEMMA RerankIs ==
  ASSUME NEW corpus, NEW parts, CorpusWhole(corpus, parts), NEW q \in 1..parts,
         NEW ids \in Seq(1..Len(corpus)), Unrepeated(ids), NEW k \in Nat, NEW floor,
         NEW settings
  PROVE  LET r == Rerank(corpus, q, ids, k, floor, settings) IN
         /\ r \in Seq(1..Len(corpus)) /\ Unrepeated(r) /\ ToSet(r) \subseteq ToSet(ids) /\ Len(r) <= k
         /\ floor = NoFloor => Len(r) = IF k <= Len(ids) THEN k ELSE Len(ids)
<1> DEFINE T == 1..Len(corpus)
           score == Scores(corpus, q, settings)
           d == Descending(ids, score)
           A == {i \in T : score[i] >= floor}
           r == Rerank(corpus, q, ids, k, floor, settings)
<1>1. Len(ids) \in Nat /\ \A i \in T : score[i] \in Nat
  BY ScoresAre
<1>2. ToSet(ids) \subseteq T /\ Cardinality(ToSet(ids)) = Len(ids)
  <2>1. ToSet(ids) \subseteq T
    BY DEF ToSet
  <2>2. Cardinality(ToSet(ids)) = Len(ids)
    BY ListCount
  <2> QED
    BY <2>1, <2>2
<1>3. CASE ~settings.reranker
  <2>1. r = Top(ids, k)
    BY <1>3 DEF Rerank
  <2>2. /\ Top(ids, k) \in Seq(T) /\ Len(Top(ids, k)) = (IF k <= Len(ids) THEN k ELSE Len(ids))
        /\ ToSet(Top(ids, k)) \subseteq ToSet(ids) /\ Unrepeated(Top(ids, k))
    BY TopIs
  <2> HIDE DEF r
  <2>3. Len(Top(ids, k)) <= k
    BY <1>1, <2>2
  <2> QED
    BY <2>1, <2>2, <2>3 DEF r
<1>4. CASE settings.reranker
  <2>1. r = Among(Top(d, k), A)
    BY <1>4 DEF Rerank
  <2> HIDE DEF r, A, d, score, T
  <2>2. d \in Seq(T) /\ Unrepeated(d) /\ ToSet(d) = ToSet(ids) /\ Len(d) = Len(ids)
    BY <1>1, <1>2, DescendingIs DEF d, T
  <2> DEFINE t == Top(d, k)
  <2>3. /\ t \in Seq(T) /\ Len(t) = (IF k <= Len(ids) THEN k ELSE Len(ids))
        /\ ToSet(t) \subseteq ToSet(ids) /\ Unrepeated(t)
    BY <2>2, TopIs
  <2> HIDE DEF t
  <2>4. /\ Among(t, A) \in Seq(T) /\ ToSet(Among(t, A)) = ToSet(t) \cap A /\ Unrepeated(Among(t, A))
        /\ Len(Among(t, A)) = Cardinality(ToSet(t) \cap A)
    BY <2>3, AmongIs
  <2>5. /\ IsFiniteSet(ToSet(t)) /\ Cardinality(ToSet(t)) = Len(t)
    BY <2>3, ListCount
  <2>6. Cardinality(ToSet(t) \cap A) <= Len(t) /\ Cardinality(ToSet(t) \cap A) \in Nat
    <3>1. ToSet(t) \cap A \in SUBSET ToSet(t)
      OBVIOUS
    <3>2. IsFiniteSet(ToSet(t) \cap A) /\ Cardinality(ToSet(t) \cap A) <= Cardinality(ToSet(t))
      BY <2>5, <3>1, FS_Subset
    <3>3. Cardinality(ToSet(t) \cap A) \in Nat
      BY <3>2, FS_CardinalityType
    <3> QED
      BY <2>5, <3>2, <3>3
  <2>7. Len(r) <= k
    <3>1. Len(r) = Cardinality(ToSet(t) \cap A)
      BY <2>1, <2>4 DEF t
    <3> QED
      BY <1>1, <2>3, <2>6, <3>1
  <2>8. ASSUME floor = NoFloor PROVE Len(r) = Len(t)
    <3>1. ASSUME NEW i \in T PROVE i \in A
      <4>1. score[i] \in Nat /\ floor = -1
        BY <1>1, <2>8, <3>1 DEF NoFloor
      <4>2. score[i] >= floor
        BY <4>1
      <4> QED
        BY <4>2 DEF A
    <3>2. ToSet(t) \cap A = ToSet(t)
      BY <1>2, <2>3, <3>1
    <3> QED
      BY <2>1, <2>4, <2>5, <3>2 DEF t
  <2>9. r \in Seq(T) /\ Unrepeated(r) /\ ToSet(r) \subseteq ToSet(ids)
    <3>1. r = Among(t, A)
      BY <2>1 DEF t
    <3> QED
      BY <2>3, <2>4, <3>1
  <2>10. floor = NoFloor => Len(r) = IF k <= Len(ids) THEN k ELSE Len(ids)
    BY <2>3, <2>8
  <2> QED
    BY <2>7, <2>9, <2>10 DEF r, T
<1> QED
  BY <1>3, <1>4

\* The one that is best of one is the first of any number.
LEMMA BestIsFirst ==
  ASSUME NEW corpus, NEW parts, CorpusWhole(corpus, parts), NEW q \in 1..parts,
         NEW ids \in Seq(1..Len(corpus)), Unrepeated(ids), NEW k \in Nat \ {0}, NEW floor,
         NEW settings, NEW best \in ToSet(Rerank(corpus, q, ids, 1, floor, settings))
  PROVE  WithinFirst(Rerank(corpus, q, ids, k, floor, settings), best, 1)
<1> DEFINE T == 1..Len(corpus)
           score == Scores(corpus, q, settings)
           d == Descending(ids, score)
           A == {i \in T : score[i] >= floor}
<1>1. \A i \in T : score[i] \in Int
  BY ScoresAre
<1>2. ToSet(ids) \subseteq T
  BY DEF ToSet
<1>3. ASSUME NEW s \in Seq(T), best \in ToSet(Top(s, 1)) PROVE WithinFirst(s, best, 1)
  <2>1. Top(s, 1) \in Seq(T) /\ Len(Top(s, 1)) <= 1 /\ \A i \in 1..Len(Top(s, 1)) : i \in 1..Len(s) /\ Top(s, 1)[i] = s[i]
    BY TopIs
  <2>2. PICK p \in 1..Len(Top(s, 1)) : Top(s, 1)[p] = best
    BY <1>3, <2>1 DEF ToSet
  <2> QED
    BY <2>1, <2>2 DEF WithinFirst
<1>4. CASE ~settings.reranker
  <2>1. \A n \in Nat : Rerank(corpus, q, ids, n, floor, settings) = Top(ids, n)
    BY <1>4 DEF Rerank
  <2>2. WithinFirst(ids, best, 1)
    BY <1>3, <2>1
  <2>3. WithinFirst(Top(ids, k), best, 1)
    BY <2>2, WithinTop
  <2> QED
    BY <2>1, <2>3
<1>5. CASE settings.reranker
  <2>1. \A n \in Nat : Rerank(corpus, q, ids, n, floor, settings) = Among(Top(d, n), A)
    BY <1>5 DEF Rerank
  <2> HIDE DEF A, d, score, T
  <2>2. d \in Seq(T)
    BY <1>1, <1>2, DescendingIs DEF d, T
  <2>3. Top(d, 1) \in Seq(T) /\ Top(d, k) \in Seq(T)
    BY <2>2, TopIs
  <2>4. best \in ToSet(Top(d, 1)) /\ best \in A
    <3>1. best \in ToSet(Among(Top(d, 1), A))
      BY <2>1
    <3>2. ToSet(Among(Top(d, 1), A)) = ToSet(Top(d, 1)) \cap A
      BY <2>3, AmongIs
    <3> QED
      BY <3>1, <3>2
  <2>5. WithinFirst(d, best, 1)
    BY <1>3, <2>2, <2>4
  <2>6. WithinFirst(Top(d, k), best, 1)
    BY <2>2, <2>5, WithinTop
  <2>7. WithinFirst(Among(Top(d, k), A), best, 1)
    BY <2>3, <2>4, <2>6, WithinAmong
  <2> QED
    BY <2>1, <2>7
<1> QED
  BY <1>4, <1>5

\* What is asked for: of a corpus, by someone, under settings.
Asking(corpus, access, question, settings) ==
    /\ question.parts \in Nat \ {0}
    /\ CorpusWhole(corpus, question.parts)
    /\ SettingsWhole(settings)
    /\ RulesAgree(corpus, access)

\* s finds passages that may be seen, each once; and as many as there are, up to k.
Finds(corpus, access, s) ==
    s \in Seq(1..Len(corpus)) /\ Unrepeated(s) /\ ToSet(s) \subseteq Seen(corpus, access)

\* Nothing that may be seen is furniture.
Tidy(corpus, access, question) == Furniture(corpus, question, Seen(corpus, access)) = {}

Enough(corpus, access, k, s) == k <= Len(s) \/ Cardinality(Seen(corpus, access)) <= Len(s)

\* The passages that may be seen are so many.
LEMMA SeenCount ==
  ASSUME NEW corpus, NEW access, Len(corpus) \in Nat
  PROVE  /\ IsFiniteSet(Seen(corpus, access)) /\ Cardinality(Seen(corpus, access)) \in Nat
         /\ Seen(corpus, access) \subseteq 1..Len(corpus)
<1>1. IsFiniteSet(1..Len(corpus))
  BY FS_Interval
<1>2. Seen(corpus, access) \in SUBSET (1..Len(corpus))
  BY DEF Seen
<1>3. IsFiniteSet(Seen(corpus, access))
  BY <1>1, <1>2, FS_Subset
<1> QED
  BY <1>2, <1>3, FS_CardinalityType

\* A list that finds is no longer than what there is, and one that finds more of the
\* same is no shorter.
LEMMA FindsCount ==
  ASSUME NEW corpus, NEW access, Len(corpus) \in Nat, NEW s, Finds(corpus, access, s)
  PROVE  /\ Len(s) \in Nat /\ Len(s) <= Cardinality(Seen(corpus, access)) /\ Cardinality(ToSet(s)) = Len(s)
         /\ \A t : Finds(corpus, access, t) /\ ToSet(t) \subseteq ToSet(s) => Len(t) <= Len(s)
<1>1. /\ IsFiniteSet(ToSet(s)) /\ Cardinality(ToSet(s)) = Len(s) /\ Len(s) \in Nat
  BY ListCount DEF Finds
<1>2. Cardinality(ToSet(s)) <= Cardinality(Seen(corpus, access))
  BY SeenCount, FS_Subset DEF Finds
<1>3. ASSUME NEW t, Finds(corpus, access, t), ToSet(t) \in SUBSET ToSet(s) PROVE Len(t) <= Len(s)
  <2>1. Cardinality(ToSet(t)) <= Cardinality(ToSet(s))
    BY <1>1, <1>3, FS_Subset
  <2>2. Cardinality(ToSet(t)) = Len(t)
    BY <1>3, ListCount DEF Finds
  <2> QED
    BY <1>1, <2>1, <2>2
<1> QED
  BY <1>1, <1>2, <1>3

\* A search fetches a number of passages.
LEMMA FetchIs ==
  ASSUME NEW settings, SettingsWhole(settings), NEW k \in Nat
  PROVE  FetchK(settings, k) \in Nat
<1>1. k * settings.wider \in Nat /\ settings.least \in Nat
  BY DEF SettingsWhole
<1>2. ASSUME NEW a \in Nat, NEW b \in Nat PROVE Max({a, b}) \in Nat
  <2>1. Max({a, b}) = IF a >= b THEN a ELSE b
    BY MaxOfTwo
  <2> QED
    BY <2>1
<1>3. Max({k * settings.wider, settings.least}) \in Nat
  BY <1>1, <1>2, Zenon
<1> QED
  BY <1>3 DEF FetchK

\* A search finds enough, as far as it fetches.
LEMMA SearchFinds ==
  ASSUME NEW corpus, NEW access, NEW question, NEW settings, Asking(corpus, access, question, settings),
         NEW q \in 1..question.parts, NEW k \in Nat
  PROVE  LET s == Search(corpus, access, q, FetchK(settings, k), settings) IN
         Finds(corpus, access, s) /\ (FetchK(settings, k) >= k => Enough(corpus, access, k, s))
<1> DEFINE n == FetchK(settings, k)
           s == Search(corpus, access, q, n, settings)
<1>1. n \in Nat
  BY FetchIs DEF Asking
<1>2. CorpusWhole(corpus, question.parts) /\ RulesAgree(corpus, access) /\ SettingsWhole(settings)
  BY DEF Asking
<1> HIDE DEF n
<1>3. /\ s \in Seq(1..Len(corpus)) /\ Unrepeated(s) /\ ToSet(s) \subseteq Seen(corpus, access)
      /\ n <= Len(s) \/ Cardinality(Seen(corpus, access)) <= Len(s)
  BY <1>1, <1>2, SearchIs
<1>4. Len(s) \in Nat
  BY <1>3
<1> HIDE DEF s
<1>5. n >= k => Enough(corpus, access, k, s)
  BY <1>1, <1>3, <1>4 DEF Enough
<1> QED
  BY <1>3, <1>5 DEF Finds, s, n

\* Of what is found the useful is kept: all of it, where nothing to be seen is furniture.
LEMMA UsefulFinds ==
  ASSUME NEW corpus, NEW access, NEW question, NEW s, Finds(corpus, access, s), Len(corpus) \in Nat
  PROVE  LET u == Useful(corpus, question, s) IN
         /\ Finds(corpus, access, u) /\ ToSet(u) \subseteq ToSet(s)
         /\ \A i \in ToSet(s) : corpus[i].where \in {"none", "body"} => i \in ToSet(u)
         /\ Tidy(corpus, access, question) => Len(u) = Len(s) /\ ToSet(u) = ToSet(s)
<1> DEFINE u == Useful(corpus, question, s)
           idle == Furniture(corpus, question, ToSet(s))
<1>1. u \in Seq(1..Len(corpus)) /\ Unrepeated(u) /\ ToSet(u) = ToSet(s) \ idle
  BY UsefulIs DEF Finds
<1>2. Finds(corpus, access, u)
  BY <1>1 DEF Finds
<1>3. \A i \in ToSet(s) : corpus[i].where \in {"none", "body"} => i \notin idle
  BY BodyIsUseful
<1>4. idle \subseteq Furniture(corpus, question, Seen(corpus, access))
  BY FurnitureGrows DEF Finds
<1>5. Cardinality(ToSet(u)) = Len(u) /\ Cardinality(ToSet(s)) = Len(s)
  BY <1>2, FindsCount
<1> HIDE DEF u, idle
<1>6. Tidy(corpus, access, question) => ToSet(u) = ToSet(s)
  BY <1>1, <1>4 DEF Tidy
<1> QED
  BY <1>1, <1>2, <1>3, <1>5, <1>6 DEF u

\* One of each list after the other.
LEMMA RoundIs ==
  ASSUME NEW T, NEW lists \in Seq(Seq(T)), NEW n \in Nat \ {0}
  PROVE  /\ Round(lists, n) \in Seq(T)
         /\ ToSet(Round(lists, n)) \subseteq UNION {ToSet(lists[q]) : q \in 1..Len(lists)}
         /\ n = 1 => \A q \in 1..Len(lists) : \A x : WithinFirst(lists[q], x, 1) => WithinFirst(Round(lists, n), x, q)
<1> DEFINE one(q) == IF n <= Len(lists[q]) THEN <<lists[q][n]>> ELSE <<>>
           ones == [q \in 1..Len(lists) |-> one(q)]
<1>1. Round(lists, n) = FlattenSeq(ones)
  BY DEF Round, Each
<1>2. ASSUME NEW q \in 1..Len(lists)
      PROVE  one(q) \in Seq(T) /\ Len(one(q)) <= 1 /\ ToSet(one(q)) \subseteq ToSet(lists[q])
  <2>1. lists[q] \in Seq(T) /\ Len(lists[q]) \in Nat
    OBVIOUS
  <2>2. CASE n <= Len(lists[q])
    <3>1. n \in 1..Len(lists[q])
      BY <2>1, <2>2
    <3>2. lists[q][n] \in T /\ lists[q][n] \in ToSet(lists[q])
      BY <2>1, <3>1 DEF ToSet
    <3>3. \A x \in T : <<x>> \in Seq(T) /\ Len(<<x>>) = 1 /\ ToSet(<<x>>) = {x}
      BY DEF ToSet
    <3>4. one(q) = <<lists[q][n]>>
      BY <2>2
    <3> HIDE DEF one
    <3> QED
      BY <3>2, <3>3, <3>4
  <2>3. CASE ~(n <= Len(lists[q]))
    <3>1. one(q) = <<>>
      BY <2>3
    <3> HIDE DEF one
    <3>2. \A S : <<>> \in Seq(S)
      OBVIOUS
    <3>3. <<>> \in Seq(T)
      BY <3>2, Zenon
    <3>4. Len(<<>>) = 0 /\ ToSet(<<>>) = {}
      BY DEF ToSet
    <3> QED
      BY <3>1, <3>3, <3>4
  <2> QED
    BY <2>2, <2>3
<1>3. Len(lists) \in Nat /\ Len(ones) = Len(lists) /\ \A q \in 1..Len(lists) : ones[q] = one(q)
  OBVIOUS
<1> HIDE DEF one
<1>4. ones \in Seq(Seq(T))
  BY <1>2, <1>3
<1> HIDE DEF ones
<1>5. FlattenSeq(ones) \in Seq(T) /\ ToSet(FlattenSeq(ones)) = UNION {ToSet(ones[q]) : q \in 1..Len(ones)}
  BY <1>4, FlattenRange
<1>6. UNION {ToSet(ones[q]) : q \in 1..Len(ones)} \subseteq UNION {ToSet(lists[q]) : q \in 1..Len(lists)}
  BY <1>2, <1>3
<1>7. ASSUME n = 1, NEW q \in 1..Len(lists), NEW x, WithinFirst(lists[q], x, 1)
      PROVE  WithinFirst(FlattenSeq(ones), x, q)
  <2>1. PICK p \in 1..Len(lists[q]) : p <= 1 /\ lists[q][p] = x
    BY <1>7 DEF WithinFirst
  <2>2. p = 1 /\ 1 <= Len(lists[q])
    <3>1. Len(lists[q]) \in Nat
      OBVIOUS
    <3> QED
      BY <2>1, <3>1
  <2>3. ones[q] = <<x>>
    BY <1>3, <1>7, <2>1, <2>2 DEF one
  <2>4. Len(ones[q]) = 1 /\ ones[q][1] = x
    BY <2>3
  <2>5. \A i \in 1..Len(ones) : Len(ones[i]) <= 1
    BY <1>2, <1>3
  <2>6. q \in 1..Len(ones)
    BY <1>3
  <2> QED
    BY <1>4, <2>4, <2>5, <2>6, WithinFlattened
<1> QED
  BY <1>1, <1>5, <1>6, <1>7

\* The winners are of the lists, the first of each list no later than the list.
LEMMA WinnersAre ==
  ASSUME NEW T, NEW lists \in Seq(Seq(T))
  PROVE  /\ Winners(lists) \in Seq(T) /\ Unrepeated(Winners(lists))
         /\ ToSet(Winners(lists)) \subseteq UNION {ToSet(lists[q]) : q \in 1..Len(lists)}
         /\ \A q \in 1..Len(lists) : \A x : WithinFirst(lists[q], x, 1) => WithinFirst(Winners(lists), x, q)
<1> DEFINE all == UNION {ToSet(lists[q]) : q \in 1..Len(lists)}
           a == Round(lists, 1)
           b == Round(lists, 2)
           c == Round(lists, 3)
           ab == a \o b
           w == ab \o c
<1>1. /\ a \in Seq(T) /\ ToSet(a) \subseteq all
      /\ \A q \in 1..Len(lists) : \A x : WithinFirst(lists[q], x, 1) => WithinFirst(a, x, q)
  BY RoundIs
<1>2. b \in Seq(T) /\ ToSet(b) \subseteq all /\ c \in Seq(T) /\ ToSet(c) \subseteq all
  BY RoundIs
<1>3. Winners(lists) = Distinct(w)
  BY DEF Winners
<1> HIDE DEF a, b, c
<1>4. ab \in Seq(T) /\ ToSet(ab) = ToSet(a) \cup ToSet(b)
  BY <1>1, <1>2, ConcatRange
<1>5. w \in Seq(T) /\ ToSet(w) = ToSet(ab) \cup ToSet(c)
  <2> HIDE DEF ab
  <2> QED
    BY <1>2, <1>4, ConcatRange
<1>6. ASSUME NEW q \in 1..Len(lists), NEW x, WithinFirst(lists[q], x, 1) PROVE WithinFirst(Distinct(w), x, q)
  <2>1. q \in Nat /\ WithinFirst(a, x, q)
    BY <1>1, <1>6
  <2>2. WithinFirst(ab, x, q)
    BY <1>1, <1>2, <2>1, WithinConcat
  <2> HIDE DEF ab
  <2>3. WithinFirst(w, x, q)
    BY <1>2, <1>4, <2>1, <2>2, WithinConcat
  <2> QED
    BY <1>5, <2>1, <2>3, WithinDistinct
<1> HIDE DEF w
<1>7. Distinct(w) \in Seq(T) /\ ToSet(Distinct(w)) = ToSet(w) /\ Unrepeated(Distinct(w))
  BY <1>5, DistinctIs
<1> QED
  BY <1>1, <1>2, <1>3, <1>4, <1>5, <1>6, <1>7

(***************************************************************************)
(* The hits of a question and of its parts                                 *)
(***************************************************************************)
\* What is found for a part of a question.
LEMMA FoundFinds ==
  ASSUME NEW corpus, NEW access, NEW question, NEW settings, Asking(corpus, access, question, settings),
         NEW q \in 1..question.parts, NEW k \in Nat
  PROVE  LET f == Found(corpus, access, question, q, k, settings) IN
         /\ Finds(corpus, access, f)
         /\ FetchK(settings, k) >= k /\ Tidy(corpus, access, question)
              => Enough(corpus, access, k, f)
<1> DEFINE s == Search(corpus, access, q, FetchK(settings, k), settings)
           f == Useful(corpus, question, s)
<1>1. Finds(corpus, access, s) /\ (FetchK(settings, k) >= k => Enough(corpus, access, k, s))
  BY SearchFinds
<1>2. Len(corpus) \in Nat
  BY DEF Asking, CorpusWhole
<1>3. Found(corpus, access, question, q, k, settings) = f
  BY DEF Found
<1> HIDE DEF s
<1>4. /\ Finds(corpus, access, f)
      /\ Tidy(corpus, access, question) => Len(f) = Len(s)
  <2>1. Finds(corpus, access, s)
    BY <1>1
  <2> HIDE DEF f
  <2>2. Finds(corpus, access, Useful(corpus, question, s))
    BY <1>2, <2>1, UsefulFinds
  <2>3. Tidy(corpus, access, question)
          => Len(Useful(corpus, question, s)) = Len(s) /\ ToSet(Useful(corpus, question, s)) = ToSet(s)
    BY <1>2, <2>1, UsefulFinds
  <2> QED
    BY <2>2, <2>3, Zenon DEF f
<1> HIDE DEF f
<1> QED
  BY <1>1, <1>3, <1>4 DEF Enough

\* The parts of a question: what any of them finds, and the best of each in the first
\* places of the winners.
LEMMA DecomposedFinds ==
  ASSUME NEW corpus, NEW access, NEW question, NEW settings, Asking(corpus, access, question, settings),
         NEW k \in Nat \ {0}, NEW floor
  PROVE  LET r == RetrieveDecomposed(corpus, access, question, k, floor, settings) IN
         /\ Finds(corpus, access, r.ids) /\ r.winners \in Seq(1..Len(corpus))
         /\ FetchK(settings, k) >= k /\ Tidy(corpus, access, question)
              => Enough(corpus, access, k, r.ids)
         /\ \A q \in 1..question.parts :
              \A best \in ToSet(Rerank(corpus, q, Top(Found(corpus, access, question, q, k, settings), 20),
                                       1, floor, settings)) :
                best \in ToSet(r.ids) /\ WithinFirst(r.winners, best, q)
<1> DEFINE T == 1..Len(corpus)
           N == question.parts
           found == [q \in 1..N |-> Found(corpus, access, question, q, k, settings)]
           ranked == [q \in 1..N |-> Ranked(corpus, q, found[q], k, floor, settings)]
           ids == FusedByRank(found)
           all == UNION {ToSet(found[q]) : q \in 1..Len(found)}
           r == RetrieveDecomposed(corpus, access, question, k, floor, settings)
<1>1. r.ids = ids /\ r.winners = Winners(ranked)
  BY DEF RetrieveDecomposed
<1>2. N \in Nat \ {0} /\ CorpusWhole(corpus, N) /\ Len(corpus) \in Nat
  BY DEF Asking, CorpusWhole
<1>3. ASSUME NEW q \in 1..N
      PROVE  /\ found[q] = Found(corpus, access, question, q, k, settings)
             /\ Finds(corpus, access, found[q])
             /\ FetchK(settings, k) >= k /\ Tidy(corpus, access, question)
                  => Enough(corpus, access, k, found[q])
  <2>1. found[q] = Found(corpus, access, question, q, k, settings)
    OBVIOUS
  <2> HIDE DEF found
  <2> QED
    BY <2>1, FoundFinds
<1>4. ASSUME NEW q \in 1..N PROVE ranked[q] = Ranked(corpus, q, found[q], k, floor, settings)
  OBVIOUS
<1>5. /\ Len(found) = N /\ Len(ranked) = N /\ found = [q \in 1..N |-> found[q]]
      /\ ranked = [q \in 1..N |-> ranked[q]]
  BY <1>2
<1> DEFINE few == Min({3, k})
<1>6. few \in Nat \ {0}
  <2>1. Min({3, k}) = IF 3 <= k THEN 3 ELSE k
    BY MinOfTwo
  <2> QED
    BY <2>1
<1> HIDE DEF found, ranked, few, r, ids, N
<1>7. ASSUME NEW q \in 1..N
      PROVE  /\ Top(found[q], 20) \in Seq(T) /\ Unrepeated(Top(found[q], 20))
             /\ ranked[q] = Rerank(corpus, q, Top(found[q], 20), few, floor, settings)
             /\ ranked[q] \in Seq(T)
  <2>1. found[q] \in Seq(T) /\ Unrepeated(found[q])
    BY <1>3 DEF Finds
  <2>2. Top(found[q], 20) \in Seq(T) /\ Unrepeated(Top(found[q], 20))
    BY <2>1, TopIs
  <2>3. ranked[q] = Rerank(corpus, q, Top(found[q], 20), few, floor, settings)
    BY <1>4 DEF Ranked, few
  <2>4. Rerank(corpus, q, Top(found[q], 20), few, floor, settings) \in Seq(T)
    BY <1>2, <1>6, <2>2, RerankIs
  <2> QED
    BY <2>2, <2>3, <2>4
<1>8. found \in Seq(Seq(T)) /\ ranked \in Seq(Seq(T))
  <2> DEFINE S == Seq(T)
  <2>1. \A q \in 1..N : found[q] \in S /\ ranked[q] \in S
    BY <1>3, <1>7 DEF Finds
  <2> HIDE DEF S
  <2>2. found \in Seq(S)
    BY <1>2, <1>5, <2>1
  <2>3. ranked \in Seq(S)
    BY <1>2, <1>5, <2>1
  <2> QED
    BY <2>2, <2>3 DEF S
<1>9. ids \in Seq(T) /\ Unrepeated(ids) /\ ToSet(ids) = all
  BY <1>8, FusedAre DEF ids
<1>10. \A q \in 1..N : ToSet(found[q]) \subseteq Seen(corpus, access) /\ ToSet(found[q]) \subseteq ToSet(ids)
  <2>1. \A q \in 1..N : ToSet(found[q]) \subseteq Seen(corpus, access)
    BY <1>3 DEF Finds
  <2> QED
    BY <1>5, <1>9, <2>1
<1>11. Finds(corpus, access, ids)
  <2>1. all \subseteq Seen(corpus, access)
    BY <1>5, <1>10
  <2> QED
    BY <1>9, <2>1 DEF Finds, T
<1>12. ASSUME FetchK(settings, k) >= k, Tidy(corpus, access, question)
       PROVE  Enough(corpus, access, k, ids)
  <2>1. 1 \in 1..N
    BY <1>2
  <2>2. Finds(corpus, access, found[1]) /\ Enough(corpus, access, k, found[1]) /\ ToSet(found[1]) \subseteq ToSet(ids)
    BY <1>3, <1>10, <1>12, <2>1
  <2>3. Len(found[1]) <= Len(ids) /\ Len(ids) \in Nat /\ Len(found[1]) \in Nat
    BY <1>2, <1>11, <2>2, FindsCount
  <2>4. Cardinality(Seen(corpus, access)) \in Nat
    BY <1>2, SeenCount
  <2> QED
    BY <2>2, <2>3, <2>4 DEF Enough
<1>13. ASSUME NEW q \in 1..N, NEW best \in ToSet(Rerank(corpus, q, Top(found[q], 20), 1, floor, settings))
       PROVE  best \in ToSet(ids) /\ WithinFirst(Winners(ranked), best, q)
  <2>1. Top(found[q], 20) \in Seq(T) /\ Unrepeated(Top(found[q], 20)) /\ found[q] \in Seq(T)
    BY <1>3, <1>7 DEF Finds
  <2> DEFINE top == Top(found[q], 20)
  <2>2. ToSet(Rerank(corpus, q, top, 1, floor, settings)) \subseteq ToSet(top)
    <3>1. top \in Seq(T) /\ Unrepeated(top) /\ 1 \in Nat
      BY <2>1
    <3> HIDE DEF top
    <3> QED
      BY <1>2, <3>1, RerankIs, Zenon
  <2>3. ToSet(Top(found[q], 20)) \subseteq ToSet(found[q])
    BY <2>1, TopIs
  <2>4. best \in ToSet(ids)
    BY <1>10, <2>2, <2>3
  <2>5. WithinFirst(Rerank(corpus, q, Top(found[q], 20), few, floor, settings), best, 1)
    BY <1>2, <1>6, <2>1, BestIsFirst
  <2>6. WithinFirst(ranked[q], best, 1) /\ q \in 1..Len(ranked)
    BY <1>5, <1>7, <2>5
  <2> QED
    BY <1>8, <2>4, <2>6, WinnersAre
<1>14. Winners(ranked) \in Seq(T)
  BY <1>8, WinnersAre
<1>15. \A q \in 1..N :
         \A best \in ToSet(Rerank(corpus, q, Top(Found(corpus, access, question, q, k, settings), 20), 1, floor, settings)) :
           best \in ToSet(r.ids) /\ WithinFirst(r.winners, best, q)
  BY <1>1, <1>3, <1>13
<1> QED
  BY <1>1, <1>11, <1>12, <1>14, <1>15 DEF r, N, T

\* What the hits of a question are before anything is added to them.
LEMMA FirstFinds ==
  ASSUME NEW corpus, NEW access, NEW question, NEW settings, Asking(corpus, access, question, settings),
         NEW k \in Nat \ {0}
  PROVE  LET first == FirstHits(corpus, access, question, k, settings) IN
         /\ Finds(corpus, access, first.ids) /\ first.winners \in Seq(1..Len(corpus))
         /\ FetchK(settings, k) >= k /\ Tidy(corpus, access, question)
              => Enough(corpus, access, k, first.ids)
         /\ question.parts > 1 =>
              \A q \in 1..question.parts :
                \A best \in ToSet(Rerank(corpus, q, Top(Found(corpus, access, question, q, k, settings), 20),
                                         1, Floor(access, settings), settings)) :
                  best \in ToSet(first.ids) /\ WithinFirst(first.winners, best, q)
<1> DEFINE T == 1..Len(corpus)
           first == FirstHits(corpus, access, question, k, settings)
           whole == Search(corpus, access, 1, FetchK(settings, k), settings)
<1>1. CASE question.parts > 1
  <2>1. first = RetrieveDecomposed(corpus, access, question, k, Floor(access, settings), settings)
    BY <1>1 DEF FirstHits
  <2> HIDE DEF first
  <2> QED
    BY <2>1, DecomposedFinds DEF first
<1>2. CASE ~(question.parts > 1)
  <2>1. first = [ids |-> whole, winners |-> <<>>]
    BY <1>2 DEF FirstHits
  <2>2. 1 \in 1..question.parts
    BY DEF Asking
  <2>3. Finds(corpus, access, whole) /\ (FetchK(settings, k) >= k => Enough(corpus, access, k, whole))
    BY <2>2, SearchFinds
  <2> HIDE DEF whole, first
  <2>4. first.ids = whole /\ first.winners = <<>>
    BY <2>1
  <2>5. \A S : <<>> \in Seq(S)
    OBVIOUS
  <2>6. <<>> \in Seq(T)
    BY <2>5, Zenon
  <2> QED
    BY <1>2, <2>3, <2>4, <2>6 DEF first
<1> QED
  BY <1>1, <1>2

\* The tables of a collection that are added may be seen.
LEMMA CollectionFinds ==
  ASSUME NEW corpus, NEW access, NEW question, NEW settings, Asking(corpus, access, question, settings)
  PROVE  LET c == CollectionCandidates(corpus, access, question) IN
         c \in Seq(1..Len(corpus)) /\ ToSet(c) \subseteq Seen(corpus, access)
<1> DEFINE T == 1..Len(corpus)
           wanted == {i \in Matching(corpus, 1) : corpus[i].table}
           found == Candidates(corpus, access, wanted, LexicalScores(corpus, 1), 200)
           a == Among(found, Rosters(corpus, question))
<1>1. 1 \in 1..question.parts /\ Len(corpus) \in Nat /\ RulesAgree(corpus, access) /\ CorpusWhole(corpus, question.parts)
  BY DEF Asking, CorpusWhole
<1>2. \A i \in T : LexicalScores(corpus, 1)[i] \in Int
  BY <1>1 DEF CorpusWhole, LexicalScores
<1>3. wanted \in SUBSET T
  BY DEF Matching
<1>4. CollectionCandidates(corpus, access, question) = Top(a, 20)
  BY DEF CollectionCandidates
<1> HIDE DEF wanted, T, found
<1>5. found \in Seq(T) /\ ToSet(found) \subseteq wanted \cap Seen(corpus, access)
  <2>1. 200 \in Nat
    OBVIOUS
  <2> DEFINE scores == LexicalScores(corpus, 1)
  <2>2. found = Candidates(corpus, access, wanted, scores, 200) /\ \A i \in T : scores[i] \in Int
    BY <1>2 DEF found
  <2> HIDE DEF scores
  <2>3. PICK pool \in Nat : pool = 200
    OBVIOUS
  <2>4. /\ Candidates(corpus, access, wanted, scores, pool) \in Seq(T)
        /\ ToSet(Candidates(corpus, access, wanted, scores, pool)) \subseteq wanted \cap Seen(corpus, access)
    BY <1>1, <1>3, <2>2, CandidatesAre DEF T
  <2> QED
    BY <2>2, <2>3, <2>4
<1>6. a \in Seq(T) /\ ToSet(a) = ToSet(found) \cap Rosters(corpus, question)
  BY <1>5, AmongIs
<1> HIDE DEF a
<1>7. Top(a, 20) \in Seq(T) /\ ToSet(Top(a, 20)) \subseteq ToSet(a)
  BY <1>6, TopIs
<1> QED
  BY <1>4, <1>5, <1>6, <1>7 DEF T

\* A list and then others, each once, find what both find; at most k of them no more
\* than k, and as many as the list or up to k.
LEMMA DistinctFinds ==
  ASSUME NEW corpus, NEW access, Len(corpus) \in Nat,
         NEW s \in Seq(1..Len(corpus)), ToSet(s) \subseteq Seen(corpus, access),
         NEW t \in Seq(1..Len(corpus)), ToSet(t) \subseteq Seen(corpus, access)
  PROVE  LET d == Distinct(s \o t) IN
         /\ Finds(corpus, access, d) /\ ToSet(d) = ToSet(s) \cup ToSet(t)
         /\ \A q \in Nat : \A x : WithinFirst(s, x, q) => WithinFirst(d, x, q)
<1> DEFINE st == s \o t
<1>1. st \in Seq(1..Len(corpus)) /\ ToSet(st) = ToSet(s) \cup ToSet(t)
  BY ConcatRange
<1>2. \A q \in Nat : \A x : WithinFirst(s, x, q) => WithinFirst(st, x, q)
  BY WithinConcat
<1> HIDE DEF st
<1>3. Distinct(st) \in Seq(1..Len(corpus)) /\ ToSet(Distinct(st)) = ToSet(st) /\ Unrepeated(Distinct(st))
  BY <1>1, DistinctIs
<1>4. \A q \in Nat : \A x : WithinFirst(s, x, q) => WithinFirst(Distinct(st), x, q)
  BY <1>1, <1>2, WithinDistinct
<1>5. Finds(corpus, access, Distinct(st))
  BY <1>1, <1>3 DEF Finds
<1> QED
  BY <1>1, <1>3, <1>4, <1>5 DEF st

\* To cut what finds at k.
LEMMA TopFinds ==
  ASSUME NEW corpus, NEW access, NEW s, Finds(corpus, access, s), NEW k \in Nat
  PROVE  /\ Finds(corpus, access, Top(s, k)) /\ ToSet(Top(s, k)) \subseteq ToSet(s) /\ Len(Top(s, k)) <= k
         /\ Len(Top(s, k)) = IF k <= Len(s) THEN k ELSE Len(s)
<1>1. /\ Top(s, k) \in Seq(1..Len(corpus)) /\ Len(Top(s, k)) = (IF k <= Len(s) THEN k ELSE Len(s))
      /\ ToSet(Top(s, k)) \subseteq ToSet(s) /\ Unrepeated(Top(s, k))
  BY TopIs DEF Finds
<1>2. Len(s) \in Nat
  BY DEF Finds
<1>3. Len(Top(s, k)) <= k
  BY <1>1, <1>2
<1> QED
  BY <1>1, <1>3 DEF Finds

(***************************************************************************)
(* What is retrieved                                                       *)
(***************************************************************************)
\* What is chosen of what is left: at most k, what there is place for without a floor,
\* and of the winners that are left those in the first k places.
LEMMA SelectedFinds ==
  ASSUME NEW corpus, NEW access, NEW question, NEW settings, Asking(corpus, access, question, settings),
         NEW k \in Nat \ {0}, NEW floor, NEW kept, Finds(corpus, access, kept),
         NEW winners \in Seq(1..Len(corpus))
  PROVE  LET s == Selected(corpus, question, kept, winners, k, floor, settings) IN
         /\ Finds(corpus, access, s) /\ Len(s) <= k
         /\ floor = NoFloor /\ Enough(corpus, access, k, kept) => Enough(corpus, access, k, s)
         /\ \A q \in 1..k : \A x \in ToSet(kept) : WithinFirst(winners, x, q) => x \in ToSet(s)
<1> DEFINE T == 1..Len(corpus)
           all == Cardinality(Seen(corpus, access))
           w == Among(winners, ToSet(kept))
           few == IF question.parts > 1 THEN Top(kept, Max({k, 12})) ELSE kept
           r == Rerank(corpus, 1, few, k, floor, settings)
           d == Distinct(Top(w, k) \o r)
           s == Selected(corpus, question, kept, winners, k, floor, settings)
<1>1. /\ Len(corpus) \in Nat /\ CorpusWhole(corpus, question.parts) /\ 1 \in 1..question.parts
  <2>1. CorpusWhole(corpus, question.parts) /\ 1 \in 1..question.parts
    BY DEF Asking
  <2>2. Len(corpus) \in Nat
    BY <2>1 DEF CorpusWhole
  <2> QED
    BY <2>1, <2>2
<1>2. Len(kept) \in Nat /\ all \in Nat /\ kept \in Seq(T)
  BY <1>1, SeenCount DEF Finds
<1>3. s = WinnersFirst(w, r, k)
  BY DEF Selected
<1>4. s = IF w = <<>> THEN r ELSE Top(d, k)
  BY <1>3 DEF WinnersFirst
<1>5. /\ Finds(corpus, access, few) /\ ToSet(few) \subseteq ToSet(kept)
      /\ Enough(corpus, access, k, kept) => Enough(corpus, access, k, few)
  <2>1. CASE question.parts > 1
    <3> DEFINE m == Max({k, 12})
    <3>1. m \in Nat /\ k <= m
      <4>1. Max({k, 12}) = IF k >= 12 THEN k ELSE 12
        BY MaxOfTwo
      <4> QED
        BY <4>1
    <3>2. few = Top(kept, m)
      BY <2>1
    <3> HIDE DEF m, few
    <3>3. /\ Finds(corpus, access, few) /\ ToSet(few) \subseteq ToSet(kept)
          /\ Len(few) = IF m <= Len(kept) THEN m ELSE Len(kept)
      BY <3>1, <3>2, TopFinds
    <3>4. Enough(corpus, access, k, kept) => Enough(corpus, access, k, few)
      BY <1>2, <3>1, <3>3 DEF Enough
    <3> QED
      BY <3>3, <3>4
  <2>2. CASE ~(question.parts > 1)
    <3>1. few = kept
      BY <2>2
    <3> HIDE DEF few
    <3> QED
      BY <3>1
  <2> QED
    BY <2>1, <2>2
<1> HIDE DEF few, s
<1>6. few \in Seq(T) /\ Unrepeated(few) /\ Len(few) \in Nat
  BY <1>5 DEF Finds
<1>7. /\ r \in Seq(T) /\ Unrepeated(r) /\ ToSet(r) \subseteq ToSet(few) /\ Len(r) <= k
      /\ floor = NoFloor => Len(r) = IF k <= Len(few) THEN k ELSE Len(few)
  BY <1>1, <1>6, RerankIs
<1> HIDE DEF r
<1>8. Finds(corpus, access, r)
  BY <1>5, <1>7 DEF Finds
<1>9. floor = NoFloor /\ Enough(corpus, access, k, kept) => Enough(corpus, access, k, r)
  BY <1>2, <1>5, <1>6, <1>7 DEF Enough
<1>10. /\ w \in Seq(T) /\ Unrepeated(w) /\ ToSet(w) = ToSet(winners) \cap ToSet(kept)
  <2> DEFINE A == ToSet(kept)
  <2>1. w = Among(winners, A)
    OBVIOUS
  <2> HIDE DEF A, w
  <2>2. /\ Among(winners, A) \in Seq(T) /\ ToSet(Among(winners, A)) = ToSet(winners) \cap A
        /\ Unrepeated(Among(winners, A))
    BY AmongIs
  <2> QED
    BY <2>1, <2>2 DEF A
<1>11. Finds(corpus, access, w)
  <2>1. ToSet(w) \subseteq Seen(corpus, access)
    BY <1>10 DEF Finds
  <2> QED
    BY <1>10, <2>1 DEF Finds
<1>12. ASSUME NEW q \in 1..k, NEW x \in ToSet(kept), WithinFirst(winners, x, q) PROVE WithinFirst(w, x, q)
  BY <1>12, WithinAmong
<1> HIDE DEF w
<1>13. /\ Finds(corpus, access, Top(w, k)) /\ ToSet(Top(w, k)) \subseteq ToSet(w)
  BY <1>11, TopFinds
<1>14. /\ Finds(corpus, access, d) /\ ToSet(d) = ToSet(Top(w, k)) \cup ToSet(r)
       /\ \A q \in Nat : \A x : WithinFirst(Top(w, k), x, q) => WithinFirst(d, x, q)
  <2> DEFINE t == Top(w, k)
  <2>1. /\ t \in Seq(T) /\ ToSet(t) \subseteq Seen(corpus, access)
        /\ r \in Seq(T) /\ ToSet(r) \subseteq Seen(corpus, access)
    BY <1>8, <1>13 DEF Finds
  <2> HIDE DEF t
  <2>2. /\ Finds(corpus, access, Distinct(t \o r)) /\ ToSet(Distinct(t \o r)) = ToSet(t) \cup ToSet(r)
        /\ \A q \in Nat : \A x : WithinFirst(t, x, q) => WithinFirst(Distinct(t \o r), x, q)
    BY <1>1, <2>1, DistinctFinds
  <2> QED
    BY <2>2 DEF t
<1> HIDE DEF d
<1>15. /\ Finds(corpus, access, Top(d, k)) /\ Len(Top(d, k)) <= k
       /\ Len(Top(d, k)) = IF k <= Len(d) THEN k ELSE Len(d)
  BY <1>14, TopFinds
<1>16. Finds(corpus, access, s) /\ Len(s) <= k
  BY <1>4, <1>7, <1>8, <1>15
<1>17. Len(r) <= Len(d) /\ Len(r) \in Nat /\ Len(d) \in Nat
  BY <1>1, <1>8, <1>14, FindsCount
<1>18. ASSUME floor = NoFloor, Enough(corpus, access, k, kept) PROVE Enough(corpus, access, k, s)
  <2>1. k <= Len(r) \/ all <= Len(r)
    BY <1>9, <1>18 DEF Enough
  <2>2. k <= Len(Top(d, k)) \/ all <= Len(Top(d, k))
    BY <1>2, <1>15, <1>17, <2>1
  <2> QED
    BY <1>4, <2>1, <2>2 DEF Enough
<1>19. ASSUME NEW q \in 1..k, NEW x \in ToSet(kept), WithinFirst(winners, x, q) PROVE x \in ToSet(s)
  <2>1. q \in Nat /\ q <= k
    OBVIOUS
  <2>2. WithinFirst(w, x, q) /\ w \in Seq(T)
    BY <1>10, <1>12, <1>19
  <2>3. w # <<>>
    <3>1. Len(w) > 0
      BY <2>1, <2>2, WithinIs
    <3> QED
      BY <3>1
  <2>4. WithinFirst(Top(w, k), x, q)
    BY <2>1, <2>2, WithinTop
  <2>5. WithinFirst(d, x, q) /\ d \in Seq(T)
    BY <1>14, <2>1, <2>4 DEF Finds
  <2>6. WithinFirst(Top(d, k), x, q) /\ Top(d, k) \in Seq(T)
    BY <1>15, <2>1, <2>5, WithinTop DEF Finds
  <2>7. x \in ToSet(Top(d, k))
    BY <2>1, <2>6, WithinIs
  <2> QED
    BY <1>4, <2>3, <2>7
<1> QED
  BY <1>16, <1>18, <1>19 DEF s

\* Rosters in the places kept for them take the place of others, never of a limit.
LEMMA RostersFirstFinds ==
  ASSUME NEW corpus, NEW access, Len(corpus) \in Nat, NEW rosters, Finds(corpus, access, rosters),
         NEW ids, Finds(corpus, access, ids), NEW k \in Nat \ {0}, Len(ids) <= k, NEW floor
  PROVE  LET s == RostersFirst(rosters, ids, k, floor) IN
         /\ Finds(corpus, access, s) /\ Len(s) <= k
         /\ rosters = <<>> => s = ids
<1> DEFINE T == 1..Len(corpus)
           n == Max({1, k \div 3})
           a == Top(rosters, n)
           b == Among(ids, ToSet(ids) \ ToSet(rosters))
           s == RostersFirst(rosters, ids, k, floor)
<1>1. s = IF rosters # <<>> /\ floor = NoFloor THEN Top(a \o b, k) ELSE ids
  BY DEF RostersFirst
<1>2. n \in Nat
  <2>1. k \div 3 \in Int
    OBVIOUS
  <2>2. Max({1, k \div 3}) = IF 1 >= k \div 3 THEN 1 ELSE k \div 3
    BY <2>1, MaxOfTwo
  <2> QED
    BY <2>1, <2>2
<1> HIDE DEF n
<1>3. Finds(corpus, access, a) /\ ToSet(a) \subseteq ToSet(rosters)
  BY <1>2, TopFinds
<1>4. b \in Seq(T) /\ Unrepeated(b) /\ ToSet(b) = ToSet(ids) \cap (ToSet(ids) \ ToSet(rosters))
  BY AmongIs DEF Finds
<1>5. Finds(corpus, access, b) /\ ToSet(a) \cap ToSet(b) = {}
  BY <1>3, <1>4 DEF Finds
<1> HIDE DEF a, b, s
<1>6. Finds(corpus, access, a \o b)
  <2>1. /\ a \in Seq(T) /\ b \in Seq(T) /\ Unrepeated(a) /\ Unrepeated(b)
        /\ ToSet(a) \subseteq Seen(corpus, access) /\ ToSet(b) \subseteq Seen(corpus, access)
    BY <1>3, <1>5 DEF Finds
  <2>2. a \o b \in Seq(T) /\ ToSet(a \o b) = ToSet(a) \cup ToSet(b)
    BY <2>1, ConcatRange
  <2>3. Unrepeated(a \o b)
    BY <1>5, <2>1, ConcatOnce
  <2> QED
    BY <2>1, <2>2, <2>3 DEF Finds
<1>7. Finds(corpus, access, Top(a \o b, k)) /\ Len(Top(a \o b, k)) <= k
  <2> DEFINE ab == a \o b
  <2>1. Finds(corpus, access, ab)
    BY <1>6
  <2> HIDE DEF ab
  <2>2. Finds(corpus, access, Top(ab, k)) /\ Len(Top(ab, k)) <= k
    BY <2>1, TopFinds
  <2> QED
    BY <2>2 DEF ab
<1> QED
  BY <1>1, <1>7 DEF s

\* With the tables of a collection what is found may still be seen.
LEMMA CollectedFinds ==
  ASSUME NEW corpus, NEW access, NEW question, NEW settings, Asking(corpus, access, question, settings),
         NEW ids, Finds(corpus, access, ids)
  PROVE  LET pool == WithCollection(corpus, access, question, ids) IN
         Finds(corpus, access, pool) /\ (~question.collection => pool = ids)
<1> DEFINE T == 1..Len(corpus)
           c == CollectionCandidates(corpus, access, question)
           pool == WithCollection(corpus, access, question, ids)
<1>1. pool = IF question.collection THEN Distinct(ids \o c) ELSE ids
  BY DEF WithCollection
<1>2. Len(corpus) \in Nat
  BY DEF Asking, CorpusWhole
<1>3. c \in Seq(T) /\ ToSet(c) \subseteq Seen(corpus, access)
  BY CollectionFinds
<1> HIDE DEF c, pool
<1>4. Finds(corpus, access, Distinct(ids \o c))
  BY <1>2, <1>3, DistinctFinds DEF Finds
<1> QED
  BY <1>1, <1>4 DEF pool

\* What is retrieved for a question may be seen, is no more than was asked for and not
\* less than there is, and has the best of every part.
LEMMA RetrievedIs ==
  ASSUME NEW corpus, NEW access, NEW question, NEW settings, Asking(corpus, access, question, settings),
         NEW k \in Nat \ {0}
  PROVE  LET ids == RetrieveChunks(corpus, access, question, k, settings) IN
         /\ Finds(corpus, access, ids)
         /\ Retrieved(corpus, access, k, ids)
         /\ Full(corpus, access, question, k, settings, ids)
         /\ Covered(corpus, access, question, k, settings, ids)
<1> DEFINE T == 1..Len(corpus)
           all == Cardinality(Seen(corpus, access))
           floor == Floor(access, settings)
           first == FirstHits(corpus, access, question, k, settings)
           pool == WithCollection(corpus, access, question, first.ids)
           kept == Useful(corpus, question, pool)
           selected == Selected(corpus, question, kept, first.winners, k, floor, settings)
           rosters == Among(pool, Rosters(corpus, question))
           ids == RetrieveChunks(corpus, access, question, k, settings)
           LeaderOf(q) == ToSet(Rerank(corpus, q, Top(Found(corpus, access, question, q, k, settings), 20),
                                     1, floor, settings))
<1>1. ids = RostersFirst(rosters, selected, k, floor)
  BY DEF RetrieveChunks, FromPool
<1>2. Len(corpus) \in Nat
  BY DEF Asking, CorpusWhole
<1>3. /\ Finds(corpus, access, first.ids) /\ first.winners \in Seq(T)
      /\ FetchK(settings, k) >= k /\ Tidy(corpus, access, question) => Enough(corpus, access, k, first.ids)
      /\ question.parts > 1 =>
           \A q \in 1..question.parts : \A best \in LeaderOf(q) :
             best \in ToSet(first.ids) /\ WithinFirst(first.winners, best, q)
  BY FirstFinds
<1> HIDE DEF first, LeaderOf, floor
<1>4. Finds(corpus, access, pool) /\ (~question.collection => pool = first.ids)
  BY <1>3, CollectedFinds
<1> HIDE DEF pool
<1>5. /\ Finds(corpus, access, kept)
      /\ \A i \in ToSet(pool) : corpus[i].where \in {"none", "body"} => i \in ToSet(kept)
      /\ Tidy(corpus, access, question) => Len(kept) = Len(pool) /\ ToSet(kept) = ToSet(pool)
  BY <1>2, <1>4, UsefulFinds
<1> HIDE DEF kept
<1>6. /\ Finds(corpus, access, selected) /\ Len(selected) <= k
      /\ floor = NoFloor /\ Enough(corpus, access, k, kept) => Enough(corpus, access, k, selected)
      /\ \A q \in 1..k : \A x \in ToSet(kept) : WithinFirst(first.winners, x, q) => x \in ToSet(selected)
  BY <1>3, <1>5, SelectedFinds
<1> HIDE DEF selected
<1>7. Finds(corpus, access, rosters) /\ ToSet(rosters) \subseteq Rosters(corpus, question)
  <2>1. pool \in Seq(T) /\ ToSet(pool) \subseteq Seen(corpus, access)
    BY <1>4 DEF Finds
  <2>2. rosters \in Seq(T) /\ Unrepeated(rosters) /\ ToSet(rosters) = ToSet(pool) \cap Rosters(corpus, question)
    BY <2>1, AmongIs
  <2> QED
    BY <2>1, <2>2 DEF Finds
<1>8. ~question.collection => rosters = <<>>
  <2> SUFFICES ASSUME ~question.collection PROVE rosters = <<>>
    OBVIOUS
  <2>1. Rosters(corpus, question) = {}
    BY DEF Rosters, MatchingRoster
  <2> HIDE DEF rosters
  <2>2. ToSet(rosters) = {}
    BY <1>7, <2>1
  <2>3. rosters \in Seq(T) /\ Len(rosters) \in Nat /\ Cardinality(ToSet(rosters)) = Len(rosters)
    BY <1>2, <1>7, FindsCount DEF Finds
  <2>4. Len(rosters) = 0
    BY <2>2, <2>3, FS_EmptySet
  <2> QED
    BY <2>3, <2>4
<1> HIDE DEF rosters, ids
<1>9. /\ Finds(corpus, access, ids) /\ Len(ids) <= k
      /\ rosters = <<>> => ids = selected
  BY <1>1, <1>2, <1>6, <1>7, RostersFirstFinds
<1>10. Len(ids) \in Nat /\ Len(ids) <= all /\ Cardinality(ToSet(ids)) = Len(ids)
  BY <1>2, <1>9, FindsCount
<1>11. Retrieved(corpus, access, k, ids)
  BY <1>9, <1>10 DEF Retrieved, Finds
<1>12. Full(corpus, access, question, k, settings, ids)
  <2> SUFFICES ASSUME FetchK(settings, k) >= k, ~question.collection, floor = NoFloor,
                      Tidy(corpus, access, question)
               PROVE  Len(ids) = Min({k, all})
    BY DEF Full, Tidy, floor
  <2>1. Enough(corpus, access, k, kept)
    BY <1>3, <1>4, <1>5 DEF Enough
  <2>2. ids = selected /\ Enough(corpus, access, k, selected)
    BY <1>6, <1>8, <1>9, <2>1
  <2>3. k <= Len(ids) \/ all <= Len(ids)
    BY <2>2 DEF Enough
  <2>4. all \in Nat
    BY <1>2, SeenCount
  <2> HIDE DEF all
  <2>5. Min({k, all}) = IF k <= all THEN k ELSE all
    BY <2>4, MinOfTwo
  <2> QED
    BY <1>9, <1>10, <2>3, <2>4, <2>5 DEF all
<1>13. Covered(corpus, access, question, k, settings, ids)
  <2> SUFFICES ASSUME question.parts > 1, question.parts <= k, ~question.collection,
                      NEW q \in 1..question.parts, NEW best \in LeaderOf(q),
                      corpus[best].where \in {"none", "body"}
               PROVE  best \in ToSet(ids)
    BY DEF Covered, floor, LeaderOf
  <2>1. best \in ToSet(pool) /\ WithinFirst(first.winners, best, q)
    BY <1>3, <1>4
  <2>2. best \in ToSet(kept)
    BY <1>5, <2>1
  <2>3. q \in 1..k
    BY DEF Asking
  <2>4. best \in ToSet(selected)
    BY <1>6, <2>1, <2>2, <2>3
  <2> QED
    BY <1>8, <1>9, <2>4
<1> QED
  BY <1>9, <1>11, <1>12, <1>13 DEF ids

(***************************************************************************)
(* Neighbours, in the order of their sources                               *)
(***************************************************************************)
\* Lists of passages in the order of their documents and of their places in them.
Precedes(corpus, i, j) ==
    \/ corpus[i].doc < corpus[j].doc
    \/ corpus[i].doc = corpus[j].doc /\ corpus[i].ordinal < corpus[j].ordinal
    \/ corpus[i].doc = corpus[j].doc /\ corpus[i].ordinal = corpus[j].ordinal /\ i < j

Ascending(corpus, s) == \A k, m \in 1..Len(s) : k < m => Precedes(corpus, s[k], s[m])

SameSection(corpus, i, j) ==
    corpus[i].doc = corpus[j].doc /\ corpus[i].gen = corpus[j].gen /\ corpus[i].section = corpus[j].section

\* The order of nearness tells any two passages apart.
LEMMA NearerOrders ==
  ASSUME NEW found, NEW gap, NEW place, \A i \in found : i \in Nat /\ gap[i] \in Nat /\ place[i] \in Nat,
         NEW R, R = {p \in found \X found :
                       \/ gap[p[1]] < gap[p[2]]
                       \/ gap[p[1]] = gap[p[2]] /\ place[p[1]] < place[p[2]]
                       \/ gap[p[1]] = gap[p[2]] /\ place[p[1]] = place[p[2]] /\ p[1] < p[2]}
  PROVE  Orders(R, found)
<1> DEFINE Less(i, j) == \/ gap[i] < gap[j]
                         \/ gap[i] = gap[j] /\ place[i] < place[j]
                         \/ gap[i] = gap[j] /\ place[i] = place[j] /\ i < j
<1>1. \A i, j \in found : <<i, j>> \in R <=> Less(i, j)
  OBVIOUS
<1>2. ASSUME NEW i \in found, NEW j \in found PROVE Less(i, j) => ~Less(j, i)
  OBVIOUS
<1>3. ASSUME NEW i \in found, NEW j \in found PROVE i # j => Less(i, j) \/ Less(j, i)
  OBVIOUS
<1>4. ASSUME NEW i \in found, NEW j \in found, NEW k \in found PROVE Less(i, j) /\ Less(j, k) => Less(i, k)
  OBVIOUS
<1> HIDE DEF Less
<1>5. \A i, j \in found : <<i, j>> \in R => <<j, i>> \notin R
  BY <1>1, <1>2
<1>6. \A i, j \in found : i # j => <<i, j>> \in R \/ <<j, i>> \in R
  BY <1>1, <1>3
<1>7. \A i, j, k \in found : <<i, j>> \in R /\ <<j, k>> \in R => <<i, k>> \in R
  BY <1>1, <1>4
<1> QED
  BY <1>5, <1>6, <1>7 DEF Orders

\* The neighbours of what was found may be seen, and are of the sections found; and
\* there are some, for a passage is its own neighbour.
LEMMA NeighboursAre ==
  ASSUME NEW corpus, NEW parts, CorpusWhole(corpus, parts), NEW access, RulesAgree(corpus, access),
         NEW ids, Finds(corpus, access, ids), NEW radius \in Nat, NEW limit \in Nat \ {0}
  PROVE  LET n == SurroundingChunks(corpus, access, ids, radius, limit) IN
         /\ n \in Seq(1..Len(corpus)) /\ ToSet(n) \subseteq Seen(corpus, access)
         /\ \A i \in ToSet(n) : \E a \in ToSet(ids) : SameSection(corpus, a, i)
         /\ n = <<>> => ids = <<>>
<1> DEFINE T == 1..Len(corpus)
           anchors(i) == {a \in ToSet(ids) : Near(corpus, access, a, i, radius)}
           found == {i \in T : anchors(i) # {}}
           gap == [i \in found |-> Min({OrdinalGap(corpus[a], corpus[i]) : a \in anchors(i)})]
           nearer == {p \in found \X found :
                        \/ gap[p[1]] < gap[p[2]]
                        \/ gap[p[1]] = gap[p[2]] /\ corpus[p[1]].ordinal < corpus[p[2]].ordinal
                        \/ gap[p[1]] = gap[p[2]] /\ corpus[p[1]].ordinal = corpus[p[2]].ordinal /\ p[1] < p[2]}
           row == Arranged(found, nearer)
           top == Top(row, limit)
           n == Among(top, Admitted(corpus, access))
<1>1. SurroundingChunks(corpus, access, ids, radius, limit) = n
  BY DEF SurroundingChunks
<1>2. Len(corpus) \in Nat /\ \A i \in T : corpus[i].ordinal \in Nat
  BY DEF CorpusWhole
<1>3. ids \in Seq(T) /\ Len(ids) \in Nat /\ ToSet(ids) \subseteq Seen(corpus, access) /\ ToSet(ids) \subseteq T
  <2>1. ids \in Seq(T) /\ ToSet(ids) \subseteq Seen(corpus, access)
    BY DEF Finds
  <2> QED
    BY <2>1 DEF Seen
<1>4. found \subseteq Seen(corpus, access)
  BY DEF Near, RulesAgree, Seen
<1>5. IsFiniteSet(found) /\ found \subseteq T
  BY <1>2, <1>4, SeenCount, FS_Subset
<1>6. \A i \in found : \E a \in ToSet(ids) : SameSection(corpus, a, i)
  BY DEF Near, SameSection
<1>7. ASSUME NEW i \in found PROVE gap[i] \in Nat
  <2> DEFINE gaps == {OrdinalGap(corpus[a], corpus[i]) : a \in anchors(i)}
  <2>1. ASSUME NEW a \in anchors(i) PROVE OrdinalGap(corpus[a], corpus[i]) \in Nat
    <3>1. corpus[a].ordinal \in Nat /\ corpus[i].ordinal \in Nat
      BY <1>2, <1>3
    <3> QED
      BY <3>1 DEF OrdinalGap
  <2>2. gaps \in SUBSET Nat /\ gaps # {}
    BY <2>1
  <2>3. gap[i] = Min(gaps)
    OBVIOUS
  <2> HIDE DEF gaps, gap, found
  <2> QED
    BY <2>2, <2>3, LeastOf
<1>8. ASSUME NEW a \in ToSet(ids) PROVE a \in found
  <2>1. a \in T /\ Eligible(corpus[a], access) /\ corpus[a].ordinal \in Nat
    BY <1>2, <1>3 DEF RulesAgree, Seen
  <2>2. corpus[a].ordinal \in (corpus[a].ordinal - radius)..(corpus[a].ordinal + radius)
    BY <2>1
  <2>3. Near(corpus, access, a, a, radius)
    BY <2>1, <2>2 DEF Near
  <2> QED
    BY <2>1, <2>3
<1> HIDE DEF gap, found, T
<1>9. Orders(nearer, found)
  <2> DEFINE place == [i \in found |-> corpus[i].ordinal]
  <2>1. \A i \in found : i \in Nat /\ gap[i] \in Nat /\ place[i] \in Nat
    BY <1>2, <1>5, <1>7 DEF T
  <2>2. \A i \in found : place[i] = corpus[i].ordinal
    OBVIOUS
  <2> HIDE DEF place
  <2>3. nearer = {p \in found \X found :
                    \/ gap[p[1]] < gap[p[2]]
                    \/ gap[p[1]] = gap[p[2]] /\ place[p[1]] < place[p[2]]
                    \/ gap[p[1]] = gap[p[2]] /\ place[p[1]] = place[p[2]] /\ p[1] < p[2]}
    BY <2>2
  <2> HIDE DEF nearer
  <2> QED
    BY <2>1, <2>3, NearerOrders
<1> HIDE DEF nearer
<1>10. row \in Seq(found) /\ Len(row) = Cardinality(found) /\ ToSet(row) = found
  BY <1>5, <1>9, ArrangedRange
<1>11. row \in Seq(T)
  BY <1>5, <1>10, SeqWider
<1> HIDE DEF row
<1>12. /\ top \in Seq(T) /\ ToSet(top) \subseteq found
       /\ Len(top) = IF limit <= Len(row) THEN limit ELSE Len(row)
  BY <1>10, <1>11, TopIs
<1> HIDE DEF top
<1>13. n \in Seq(T) /\ ToSet(n) = ToSet(top) \cap Admitted(corpus, access)
  BY <1>12, AmongIs
<1>14. ToSet(n) = ToSet(top)
  <2>1. Seen(corpus, access) \subseteq Admitted(corpus, access)
    BY DEF Seen, Admitted, Visible
  <2> QED
    BY <1>4, <1>12, <1>13, <2>1
<1> HIDE DEF n
<1>15. n = <<>> => ids = <<>>
  <2> SUFFICES ASSUME n = <<>>, Len(ids) # 0 PROVE FALSE
    BY <1>3
  <2>1. ToSet(n) = {}
    BY DEF ToSet
  <2>2. 1 \in 1..Len(ids)
    BY <1>3
  <2>3. ids[1] \in found
    BY <1>3, <1>8, <2>2 DEF ToSet
  <2>4. Len(row) # 0
    <3>1. ToSet(row) # {}
      BY <1>10, <2>3
    <3> QED
      BY <1>11, <3>1 DEF ToSet
  <2>5. Len(row) \in Nat
    BY <1>11
  <2>6. 1 \in 1..Len(top)
    BY <1>12, <2>4, <2>5
  <2>7. top[1] \in ToSet(top)
    BY <1>12, <2>6 DEF ToSet
  <2> QED
    BY <1>14, <2>1, <2>7
<1> QED
  BY <1>1, <1>4, <1>6, <1>12, <1>13, <1>14, <1>15 DEF T

\* The order of the sources: of documents, of places in them.
LEMMA SourceOrderIs ==
  ASSUME NEW corpus, NEW parts, CorpusWhole(corpus, parts), NEW ids \in Seq(1..Len(corpus))
  PROVE  LET s == SourceOrder(corpus, ids) IN
         s \in Seq(1..Len(corpus)) /\ Unrepeated(s) /\ ToSet(s) = ToSet(ids) /\ Ascending(corpus, s)
<1> DEFINE T == 1..Len(corpus)
           S == ToSet(ids)
           doc == [i \in S |-> corpus[i].doc]
           place == [i \in S |-> corpus[i].ordinal]
           R == {p \in S \X S :
                   \/ corpus[p[1]].doc < corpus[p[2]].doc
                   \/ corpus[p[1]].doc = corpus[p[2]].doc /\ corpus[p[1]].ordinal < corpus[p[2]].ordinal
                   \/ corpus[p[1]].doc = corpus[p[2]].doc /\ corpus[p[1]].ordinal = corpus[p[2]].ordinal /\ p[1] < p[2]}
           s == Arranged(S, R)
<1>1. SourceOrder(corpus, ids) = s
  BY DEF SourceOrder
<1>2. IsFiniteSet(S)
  BY ListCount
<1>3. S \subseteq T
  BY DEF ToSet
<1>4. \A i \in S : i \in Nat /\ doc[i] \in Nat /\ place[i] \in Nat /\ doc[i] = corpus[i].doc /\ place[i] = corpus[i].ordinal
  BY <1>3 DEF CorpusWhole
<1> HIDE DEF S, T, doc, place
<1>5. R = {p \in S \X S :
             \/ doc[p[1]] < doc[p[2]]
             \/ doc[p[1]] = doc[p[2]] /\ place[p[1]] < place[p[2]]
             \/ doc[p[1]] = doc[p[2]] /\ place[p[1]] = place[p[2]] /\ p[1] < p[2]}
  BY <1>4
<1>6. \A i, j \in S : <<i, j>> \in R => Precedes(corpus, i, j)
  BY DEF Precedes
<1> HIDE DEF R
<1>7. Orders(R, S)
  BY <1>4, <1>5, NearerOrders, SMTT(30)
<1>8. /\ s \in Seq(S) /\ ToSet(s) = S
      /\ \A k, m \in 1..Len(s) : k < m => <<s[k], s[m]>> \in R
  BY <1>2, <1>7, ArrangedRange
<1> HIDE DEF s
<1>9. Unrepeated(s) /\ s \in Seq(T)
  BY <1>3, <1>7, <1>8, OrderedOnce, SeqWider
<1>10. \A k \in 1..Len(s) : s[k] \in S
  BY <1>8
<1>11. Ascending(corpus, s)
  BY <1>6, <1>8, <1>10 DEF Ascending
<1> QED
  BY <1>1, <1>8, <1>9, <1>11 DEF S, T

\* To take passages out changes no order.
LEMMA AscendingAmong ==
  ASSUME NEW corpus, NEW s \in Seq(1..Len(corpus)), Ascending(corpus, s), NEW A
  PROVE  Ascending(corpus, Among(s, A))
<1> DEFINE some == Among(s, A)
<1>1. /\ some \in Seq(1..Len(corpus)) /\ ToSet(some) = ToSet(s) \cap A
      /\ \A k, m \in 1..Len(some) : k < m => Position(s, some[k]) < Position(s, some[m])
  BY AmongIs
<1> HIDE DEF some
<1>2. \A k \in 1..Len(some) : some[k] \in ToSet(s)
  <2>1. \A k \in 1..Len(some) : some[k] \in ToSet(some)
    BY <1>1 DEF ToSet
  <2> QED
    BY <1>1, <2>1
<1>3. ASSUME NEW k \in 1..Len(some), NEW m \in 1..Len(some), k < m PROVE Precedes(corpus, some[k], some[m])
  <2>1. /\ Position(s, some[k]) \in 1..Len(s) /\ s[Position(s, some[k])] = some[k]
        /\ Position(s, some[m]) \in 1..Len(s) /\ s[Position(s, some[m])] = some[m]
    BY <1>2, PositionOf
  <2>2. Position(s, some[k]) < Position(s, some[m])
    BY <1>1, <1>3
  <2>3. Precedes(corpus, s[Position(s, some[k])], s[Position(s, some[m])])
    BY <2>1, <2>2, Zenon DEF Ascending
  <2> QED
    BY <2>1, <2>3
<1> QED
  BY <1>3 DEF Ascending, some

(***************************************************************************)
(* The rows of what is shown                                               *)
(***************************************************************************)
\* Rows that are left of some.
LEMMA RowsLeft ==
  ASSUME NEW T, NEW rows \in Seq(T), NEW X
  PROVE  LET others == Each(rows, LAMBDA r, i : IF r \in X THEN <<>> ELSE <<r>>) IN
         ToSet(others) = ToSet(rows) \ X
<1> DEFINE one(i) == IF rows[i] \in X THEN <<>> ELSE <<rows[i]>>
           ones == [i \in 1..Len(rows) |-> one(i)]
           others == Each(rows, LAMBDA r, i : IF r \in X THEN <<>> ELSE <<r>>)
<1>1. others = FlattenSeq(ones)
  BY DEF Each
<1>2. ASSUME NEW i \in 1..Len(rows) PROVE one(i) \in Seq(T) /\ ToSet(one(i)) = {rows[i]} \ X
  <2>1. rows[i] \in T
    OBVIOUS
  <2>2. CASE rows[i] \in X
    <3>1. one(i) = <<>>
      BY <2>2
    <3> HIDE DEF one
    <3>2. \A S : <<>> \in Seq(S)
      OBVIOUS
    <3>3. <<>> \in Seq(T)
      BY <3>2, Zenon
    <3>4. ToSet(<<>>) = {}
      BY DEF ToSet
    <3> QED
      BY <2>2, <3>1, <3>3, <3>4
  <2>3. CASE rows[i] \notin X
    <3>1. one(i) = <<rows[i]>>
      BY <2>3
    <3> HIDE DEF one
    <3>2. \A x \in T : <<x>> \in Seq(T) /\ ToSet(<<x>>) = {x}
      BY DEF ToSet
    <3> QED
      BY <2>1, <2>3, <3>1, <3>2
  <2> QED
    BY <2>2, <2>3
<1>3. Len(rows) \in Nat /\ Len(ones) = Len(rows) /\ \A i \in 1..Len(rows) : ones[i] = one(i)
  OBVIOUS
<1> HIDE DEF one, others
<1>4. ones \in Seq(Seq(T))
  <2> DEFINE S == Seq(T)
  <2>1. \A i \in 1..Len(rows) : one(i) \in S
    BY <1>2
  <2> HIDE DEF S
  <2>2. ones \in Seq(S)
    BY <1>3, <2>1
  <2> QED
    BY <2>2 DEF S
<1> HIDE DEF ones
<1>5. ToSet(FlattenSeq(ones)) = UNION {ToSet(ones[i]) : i \in 1..Len(ones)}
  BY <1>4, FlattenRange
<1>6. ToSet(rows) = {rows[i] : i \in 1..Len(rows)}
  BY DEF ToSet
<1>7. UNION {ToSet(ones[i]) : i \in 1..Len(ones)} = {rows[i] : i \in 1..Len(rows)} \ X
  BY <1>2, <1>3, SMTT(30)
<1> QED
  BY <1>1, <1>5, <1>6, <1>7 DEF others

\* s has the rosters in their order, of the rows of each no others than its own, and
\* every row of one of them somewhere.
KeepsRows(corpus, rosters, s) ==
    /\ s \in Seq(ToSet(s)) /\ Len(s) = Len(rosters)
    /\ \A n \in 1..Len(rosters) : s[n].id = rosters[n]
    /\ \A n \in 1..Len(rosters) : ToSet(s[n].rows) \subseteq ToSet(corpus[rosters[n]].rows)
    /\ \A n \in 1..Len(rosters) : \A r \in ToSet(corpus[rosters[n]].rows) :
          \E m \in 1..Len(rosters) : r \in ToSet(s[m].rows)

\* Rosters with the rows that none before them has: a row is left in the first that
\* has it.
LEMMA NewRowsAre ==
  ASSUME NEW corpus, NEW parts, CorpusWhole(corpus, parts), NEW rosters \in Seq(1..Len(corpus))
  PROVE  KeepsRows(corpus, rosters, NewRows(corpus, rosters))
<1> DEFINE s == NewRows(corpus, rosters)
           had(n) == SeenRows(corpus, rosters, n)
           others(n) == Each(corpus[rosters[n]].rows, LAMBDA r, i : IF r \in had(n) THEN <<>> ELSE <<r>>)
<1>1. s = [n \in 1..Len(rosters) |-> [id |-> rosters[n], rows |-> others(n)]]
  BY DEF NewRows
<1>2. Len(rosters) \in Nat /\ \A n \in 1..Len(rosters) : rosters[n] \in 1..Len(corpus)
  OBVIOUS
<1>3. \A n \in 1..Len(rosters) : corpus[rosters[n]].rows \in Seq(Nat)
  BY <1>2 DEF CorpusWhole
<1>4. ASSUME NEW n \in 1..Len(rosters) PROVE ToSet(others(n)) = ToSet(corpus[rosters[n]].rows) \ had(n)
  <2> DEFINE X == had(n)
             rows == corpus[rosters[n]].rows
  <2>1. others(n) = Each(rows, LAMBDA r, i : IF r \in X THEN <<>> ELSE <<r>>)
    OBVIOUS
  <2>2. rows \in Seq(Nat)
    BY <1>3
  <2> HIDE DEF X, rows, others
  <2>3. ToSet(Each(rows, LAMBDA r, i : IF r \in X THEN <<>> ELSE <<r>>)) = ToSet(rows) \ X
    BY <2>2, RowsLeft
  <2> QED
    BY <2>1, <2>3 DEF X, rows
<1>5. ASSUME NEW n \in 1..Len(rosters), NEW r \in had(n)
      PROVE  \E m \in 1..Len(rosters) : m < n /\ r \in ToSet(corpus[rosters[m]].rows)
  <2> HIDE DEF s, others
  <2>1. PICK m \in 1..(n - 1) : r \in ToSet(corpus[rosters[m]].rows)
    BY DEF SeenRows
  <2>2. m \in 1..Len(rosters) /\ m < n
    BY <1>2
  <2> QED
    BY <2>1, <2>2
<1> HIDE DEF others, had
<1>5a. s \in Seq(ToSet(s))
  BY <1>1, <1>2, SelfSeq
<1>6. /\ Len(s) = Len(rosters)
      /\ \A n \in 1..Len(rosters) : s[n].id = rosters[n] /\ s[n].rows = others(n)
  BY <1>1, <1>2
<1> HIDE DEF s
<1>7. ASSUME NEW n \in 1..Len(rosters), NEW r \in ToSet(corpus[rosters[n]].rows)
      PROVE  \E m \in 1..Len(rosters) : r \in ToSet(s[m].rows)
  <2> DEFINE having == {m \in 1..Len(rosters) : r \in ToSet(corpus[rosters[m]].rows)}
             m == Min(having)
  <2>1. having \in SUBSET Nat /\ having # {}
    BY <1>2, <1>7
  <2>2. m \in having /\ \A x \in having : m <= x
    BY <2>1, LeastOf
  <2> HIDE DEF m
  <2>3. r \notin had(m)
    <3> SUFFICES ASSUME r \in had(m) PROVE FALSE
      OBVIOUS
    <3>1. PICK x \in 1..Len(rosters) : x < m /\ r \in ToSet(corpus[rosters[x]].rows)
      BY <1>5, <2>2
    <3>2. x \in having /\ x \in Nat /\ m \in Nat
      BY <1>2, <2>2, <3>1
    <3> HIDE DEF having
    <3> QED
      BY <2>2, <3>1, <3>2
  <2>4. m \in 1..Len(rosters) /\ r \in ToSet(others(m))
    BY <1>4, <2>2, <2>3
  <2> QED
    BY <1>6, <2>4
<1>8. \A n \in 1..Len(rosters) : ToSet(s[n].rows) \subseteq ToSet(corpus[rosters[n]].rows)
  BY <1>4, <1>6
<1> QED
  BY <1>5a, <1>6, <1>7, <1>8 DEF s, KeepsRows

\* Passages with all their rows.
LEMMA AllRowsAre ==
  ASSUME NEW corpus, NEW T, NEW ids \in Seq(T)
  PROVE  LET s == AllRows(corpus, ids) IN
         /\ s \in Seq(ToSet(s)) /\ Len(s) = Len(ids)
         /\ \A n \in 1..Len(ids) : s[n].id = ids[n] /\ s[n].rows = corpus[ids[n]].rows
<1> DEFINE s == AllRows(corpus, ids)
<1>1. s = [n \in 1..Len(ids) |-> [id |-> ids[n], rows |-> corpus[ids[n]].rows]] /\ Len(ids) \in Nat
  BY DEF AllRows
<1> HIDE DEF s
<1>2. s \in Seq(ToSet(s))
  BY <1>1, SelfSeq
<1>3. Len(s) = Len(ids) /\ \A n \in 1..Len(ids) : s[n].id = ids[n] /\ s[n].rows = corpus[ids[n]].rows
  BY <1>1
<1> QED
  BY <1>2, <1>3 DEF s

\* e shows the passages of ids, with all their rows, in order but for the rosters.
ShowsAll(corpus, question, ids, e) ==
    /\ {e[n].id : n \in 1..Len(e)} = ToSet(ids)
    /\ \A m, n \in 1..Len(e) :
         m < n /\ ~MatchingRoster(corpus[e[m].id], question) => Precedes(corpus, e[m].id, e[n].id)
    /\ UNION {ToSet(corpus[i].rows) : i \in ToSet(ids)} = UNION {ToSet(e[n].rows) : n \in 1..Len(e)}

\* What is shown of passages in the order of their sources: all of them, rosters before
\* the others, whose order stays, and no row is lost.
LEMMA OrderedIs ==
  ASSUME NEW corpus, NEW parts, CorpusWhole(corpus, parts), NEW question,
         NEW ids \in Seq(1..Len(corpus)), Ascending(corpus, ids)
  PROVE  ShowsAll(corpus, question, ids, Ordered(corpus, question, ids))
<1> DEFINE T == 1..Len(corpus)
           rosters == Among(ids, Rosters(corpus, question))
           rest == Among(ids, ToSet(ids) \ ToSet(rosters))
           a == NewRows(corpus, rosters)
           b == AllRows(corpus, rest)
           e == Ordered(corpus, question, ids)
           NA == Len(rosters)
           NB == Len(rest)
<1>1. e = a \o b
  BY DEF Ordered, RostersAhead
<1>2. rosters \in Seq(T) /\ ToSet(rosters) = ToSet(ids) \cap Rosters(corpus, question)
  BY AmongIs
<1> HIDE DEF rosters
<1>3. rest \in Seq(T) /\ ToSet(rest) = ToSet(ids) \cap (ToSet(ids) \ ToSet(rosters)) /\ Ascending(corpus, rest)
  BY AmongIs, AscendingAmong
<1> HIDE DEF rest
<1>4. /\ a \in Seq(ToSet(a)) /\ Len(a) = NA /\ \A n \in 1..NA : a[n].id = rosters[n]
      /\ \A n \in 1..NA : ToSet(a[n].rows) \subseteq ToSet(corpus[rosters[n]].rows)
      /\ \A n \in 1..NA : \A r \in ToSet(corpus[rosters[n]].rows) : \E m \in 1..NA : r \in ToSet(a[m].rows)
  <2>1. a = NewRows(corpus, rosters) /\ NA = Len(rosters)
    OBVIOUS
  <2> HIDE DEF a, b, e, NA, NB
  <2>2. KeepsRows(corpus, rosters, a)
    BY <1>2, <2>1, NewRowsAre
  <2> QED
    BY <2>1, <2>2 DEF KeepsRows
<1>5. /\ b \in Seq(ToSet(b)) /\ Len(b) = NB
      /\ \A n \in 1..NB : b[n].id = rest[n] /\ b[n].rows = corpus[rest[n]].rows
  <2>1. b = AllRows(corpus, rest) /\ NB = Len(rest)
    OBVIOUS
  <2> HIDE DEF a, b, e, NA, NB
  <2>2. /\ b \in Seq(ToSet(b)) /\ Len(b) = Len(rest)
        /\ \A n \in 1..Len(rest) : b[n].id = rest[n] /\ b[n].rows = corpus[rest[n]].rows
    BY <1>3, <2>1, AllRowsAre
  <2> QED
    BY <2>1, <2>2
<1>6. NA \in Nat /\ NB \in Nat
  BY <1>2, <1>3
<1> HIDE DEF a, b, e
<1>8. /\ Len(e) = NA + NB
      /\ \A n \in 1..NA : e[n] = a[n]
      /\ \A n \in 1..NB : e[NA + n] = b[n]
  <2> DEFINE S == ToSet(a) \cup ToSet(b)
  <2>1. a \in Seq(S) /\ b \in Seq(S)
    BY <1>4, <1>5, SeqWider
  <2> HIDE DEF S, NA, NB
  <2>2. /\ Len(a \o b) = Len(a) + Len(b)
        /\ \A i \in 1..Len(a) : (a \o b)[i] = a[i]
        /\ \A i \in 1..Len(b) : (a \o b)[Len(a) + i] = b[i]
    BY <2>1, ConcatParts
  <2> QED
    BY <1>1, <1>4, <1>5, <2>2
<1> HIDE DEF NA, NB
<1>9. ASSUME NEW n \in 1..Len(e)
      PROVE  n \in 1..NA \/ (n - NA \in 1..NB /\ NA + (n - NA) = n)
  BY <1>6, <1>8
<1>10. \A n \in 1..NA : n \in 1..Len(e) /\ e[n].id = rosters[n]
  BY <1>4, <1>6, <1>8
<1>11. \A n \in 1..NB : NA + n \in 1..Len(e) /\ e[NA + n].id = rest[n] /\ e[NA + n].rows = corpus[rest[n]].rows
  BY <1>5, <1>6, <1>8
<1>12. ToSet(rosters) = {rosters[n] : n \in 1..NA} /\ ToSet(rest) = {rest[n] : n \in 1..NB}
  <2>1. \A x \in Seq(T) : ToSet(x) = {x[n] : n \in 1..Len(x)}
    BY DEF ToSet
  <2> HIDE DEF T
  <2> QED
    BY <1>2, <1>3, <2>1 DEF NA, NB
<1>13. ToSet(ids) = ToSet(rosters) \cup ToSet(rest)
  BY <1>2, <1>3
<1>14. {e[n].id : n \in 1..Len(e)} = ToSet(ids)
  <2>1. ASSUME NEW n \in 1..Len(e) PROVE e[n].id \in ToSet(ids)
    <3>1. CASE n \in 1..NA
      BY <1>10, <1>12, <1>13, <3>1
    <3>2. CASE n \notin 1..NA
      <4>1. n - NA \in 1..NB /\ e[n].id = rest[n - NA]
        BY <1>9, <1>11, <3>2
      <4> QED
        BY <1>12, <1>13, <4>1
    <3> QED
      BY <3>1, <3>2
  <2>2. ASSUME NEW i \in ToSet(ids) PROVE \E n \in 1..Len(e) : e[n].id = i
    BY <1>10, <1>11, <1>12, <1>13
  <2> QED
    BY <2>1, <2>2
<1>15. ASSUME NEW m \in 1..Len(e), NEW n \in 1..Len(e), m < n, ~MatchingRoster(corpus[e[m].id], question)
       PROVE  Precedes(corpus, e[m].id, e[n].id)
  <2>1. m \notin 1..NA
    BY <1>2, <1>10, <1>12, <1>15 DEF Rosters
  <2>2. n \notin 1..NA
    BY <1>6, <1>8, <1>15, <2>1
  <2>3. m - NA \in 1..NB /\ n - NA \in 1..NB /\ m - NA < n - NA
    BY <1>6, <1>8, <1>9, <1>15, <2>1, <2>2
  <2>4. e[m].id = rest[m - NA] /\ e[n].id = rest[n - NA]
    BY <1>9, <1>11, <2>1, <2>2
  <2> QED
    BY <1>3, <2>3, <2>4 DEF Ascending, NB
<1>16. ASSUME NEW i \in ToSet(ids), NEW r \in ToSet(corpus[i].rows)
       PROVE  \E n \in 1..Len(e) : r \in ToSet(e[n].rows)
  <2>1. CASE i \in ToSet(rosters)
    <3>1. PICK n \in 1..NA : rosters[n] = i
      BY <1>12, <2>1
    <3>2. PICK m \in 1..NA : r \in ToSet(a[m].rows)
      BY <1>4, <1>16, <3>1
    <3> QED
      BY <1>8, <1>10, <3>2
  <2>2. CASE i \in ToSet(rest)
    <3>1. PICK n \in 1..NB : rest[n] = i
      BY <1>12, <2>2
    <3> QED
      BY <1>11, <1>16, <3>1
  <2> QED
    BY <1>13, <2>1, <2>2
<1>17. ASSUME NEW n \in 1..Len(e), NEW r \in ToSet(e[n].rows)
       PROVE  \E i \in ToSet(ids) : r \in ToSet(corpus[i].rows)
  <2>1. CASE n \in 1..NA
    <3>1. r \in ToSet(corpus[rosters[n]].rows) /\ rosters[n] \in ToSet(rosters)
      BY <1>4, <1>8, <1>12, <1>17, <2>1
    <3> QED
      BY <1>13, <3>1
  <2>2. CASE n \notin 1..NA
    <3>1. n - NA \in 1..NB /\ e[n].rows = corpus[rest[n - NA]].rows /\ rest[n - NA] \in ToSet(rest)
      BY <1>9, <1>11, <1>12, <2>2
    <3> QED
      BY <1>13, <1>17, <3>1
  <2> QED
    BY <2>1, <2>2
<1>18. UNION {ToSet(corpus[i].rows) : i \in ToSet(ids)} = UNION {ToSet(e[n].rows) : n \in 1..Len(e)}
  <2> DEFINE A == UNION {ToSet(corpus[i].rows) : i \in ToSet(ids)}
             B == UNION {ToSet(e[n].rows) : n \in 1..Len(e)}
  <2>1. ASSUME NEW r \in A PROVE r \in B
    <3>1. PICK i \in ToSet(ids) : r \in ToSet(corpus[i].rows)
      OBVIOUS
    <3>2. PICK n \in 1..Len(e) : r \in ToSet(e[n].rows)
      BY <1>16, <3>1
    <3> QED
      BY <3>2
  <2>2. ASSUME NEW r \in B PROVE r \in A
    <3>1. PICK n \in 1..Len(e) : r \in ToSet(e[n].rows)
      OBVIOUS
    <3>2. PICK i \in ToSet(ids) : r \in ToSet(corpus[i].rows)
      BY <1>17, <3>1
    <3> QED
      BY <3>2
  <2> HIDE DEF A, B
  <2>3. A = B
    BY <2>1, <2>2
  <2> QED
    BY <2>3 DEF A, B
<1> QED
  BY <1>14, <1>15, <1>18 DEF e, ShowsAll

(***************************************************************************)
(* The evidence of a question                                              *)
(***************************************************************************)
\* Evidence is what was found and its neighbours: visible, of the sections found, in the
\* order of the sources, with all that was found but furniture, and every row.
LEMMA ExpandedIs ==
  ASSUME NEW corpus, NEW access, NEW question, NEW settings, Asking(corpus, access, question, settings),
         NEW ids, Finds(corpus, access, ids)
  PROVE  Expanded(corpus, access, question, ids, ExpandEvidence(corpus, access, question, ids))
<1> DEFINE T == 1..Len(corpus)
           near == SurroundingChunks(corpus, access, ids, 2, 50)
           d == Distinct(ids \o near)
           most == Max({50, Len(ids)})
           t == Top(d, most)
           o == SourceOrder(corpus, t)
           u == Useful(corpus, question, o)
           e == ExpandEvidence(corpus, access, question, ids)
<1>1. CorpusWhole(corpus, question.parts) /\ RulesAgree(corpus, access)
  BY DEF Asking
<1>2. Len(corpus) \in Nat
  BY <1>1 DEF CorpusWhole
<1>3. e = IF near = <<>> THEN AllRows(corpus, ids) ELSE Ordered(corpus, question, u)
  BY DEF ExpandEvidence, WithNeighbours
<1> HIDE DEF u, e
<1>4. /\ near \in Seq(T) /\ ToSet(near) \subseteq Seen(corpus, access)
      /\ \A i \in ToSet(near) : \E a \in ToSet(ids) : SameSection(corpus, a, i)
      /\ near = <<>> => ids = <<>>
  <2>1. 2 \in Nat /\ 50 \in Nat \ {0}
    OBVIOUS
  <2> QED
    BY <1>1, <2>1, NeighboursAre
<1> HIDE DEF near
<1>5. ids \in Seq(T) /\ ToSet(ids) \subseteq Seen(corpus, access) /\ Len(ids) \in Nat
  BY DEF Finds
<1>6. CASE near = <<>>
  <2>1. ids = <<>> /\ e = AllRows(corpus, ids)
    BY <1>3, <1>4, <1>6
  <2>2. ToSet(ids) = {} /\ Len(e) = 0
    BY <2>1 DEF AllRows, ToSet
  <2>3. 1..Len(e) = {}
    BY <2>2
  <2> QED
    BY <2>2, <2>3 DEF Expanded, e
<1>7. CASE near # <<>>
  <2>1. e = Ordered(corpus, question, u)
    BY <1>3, <1>7
  <2>2. /\ Finds(corpus, access, d) /\ ToSet(d) = ToSet(ids) \cup ToSet(near)
        /\ \A q \in Nat : \A x : WithinFirst(ids, x, q) => WithinFirst(d, x, q)
    BY <1>2, <1>4, <1>5, DistinctFinds
  <2> HIDE DEF d
  <2>3. most \in Nat /\ Len(ids) <= most
    <3>1. PICK n \in Nat : n = Len(ids)
      BY <1>5
    <3>2. PICK fifty \in Nat : fifty = 50
      OBVIOUS
    <3>3. Max({fifty, n}) = IF fifty >= n THEN fifty ELSE n
      BY MaxOfTwo
    <3>4. most = Max({fifty, n})
      BY <3>1, <3>2
    <3> HIDE DEF most
    <3> QED
      BY <3>1, <3>3, <3>4
  <2> HIDE DEF most
  <2>4. Finds(corpus, access, t) /\ ToSet(t) \subseteq ToSet(d)
    BY <2>2, <2>3, TopFinds
  <2>5. ASSUME NEW a \in ToSet(ids) PROVE a \in ToSet(t)
    <3>1. WithinFirst(ids, a, Len(ids))
      BY <1>5, WithinAll
    <3>2. WithinFirst(d, a, Len(ids))
      BY <1>5, <2>2, <3>1
    <3>3. d \in Seq(T) /\ t \in Seq(T)
      BY <2>2, <2>4 DEF Finds
    <3>4. WithinFirst(t, a, Len(ids))
      BY <1>5, <2>3, <3>2, <3>3, WithinTop
    <3> HIDE DEF t
    <3> QED
      BY <1>5, <3>3, <3>4, WithinIs
  <2> HIDE DEF t
  <2>6. o \in Seq(T) /\ Unrepeated(o) /\ ToSet(o) = ToSet(t) /\ Ascending(corpus, o)
    <3>1. t \in Seq(T)
      BY <2>4 DEF Finds
    <3> QED
      BY <1>1, <3>1, SourceOrderIs
  <2>7. Finds(corpus, access, o)
    BY <2>4, <2>6 DEF Finds
  <2> HIDE DEF o
  <2>8. /\ Finds(corpus, access, u) /\ ToSet(u) \subseteq ToSet(o)
        /\ \A i \in ToSet(o) : corpus[i].where \in {"none", "body"} => i \in ToSet(u)
    BY <1>2, <2>7, UsefulFinds DEF u
  <2>9. Ascending(corpus, u) /\ u \in Seq(T) /\ ToSet(u) \subseteq Seen(corpus, access)
    BY <2>6, <2>8, AscendingAmong DEF u, Useful, Finds
  <2>10. /\ {e[n].id : n \in 1..Len(e)} = ToSet(u)
         /\ \A m, n \in 1..Len(e) :
              m < n /\ ~MatchingRoster(corpus[e[m].id], question) => Precedes(corpus, e[m].id, e[n].id)
         /\ UNION {ToSet(corpus[i].rows) : i \in ToSet(u)} = UNION {ToSet(e[n].rows) : n \in 1..Len(e)}
    <3>1. ShowsAll(corpus, question, u, Ordered(corpus, question, u))
      BY <1>1, <2>9, OrderedIs
    <3> QED
      BY <2>1, <3>1 DEF ShowsAll
  <2>11. \A i \in ToSet(u) : \E a \in ToSet(ids) : SameSection(corpus, a, i)
    <3> SUFFICES ASSUME NEW i \in ToSet(u) PROVE \E a \in ToSet(ids) : SameSection(corpus, a, i)
      OBVIOUS
    <3>1. i \in ToSet(ids) \/ i \in ToSet(near)
      BY <2>2, <2>4, <2>6, <2>8
    <3> QED
      BY <1>4, <3>1 DEF SameSection
  <2>12. \A a \in ToSet(ids) : corpus[a].where \in {"none", "body"} => a \in ToSet(u)
    BY <2>5, <2>6, <2>8
  <2>13. ASSUME NEW m \in 1..Len(e), NEW n \in 1..Len(e), m < n,
                ~MatchingRoster(corpus[e[m].id], question), corpus[e[m].id].doc = corpus[e[n].id].doc
         PROVE  corpus[e[m].id].ordinal < corpus[e[n].id].ordinal
    <3>1. PICK i, j : i = e[m].id /\ j = e[n].id
      OBVIOUS
    <3>2. i \in ToSet(u) /\ j \in ToSet(u)
      BY <2>10, <3>1
    <3>3. i \in T /\ j \in T /\ corpus[i].live /\ corpus[j].live
      BY <2>9, <3>2 DEF Seen, Visible
    <3>4. Precedes(corpus, i, j)
      BY <2>10, <2>13, <3>1
    <3>5. corpus[i].doc \in Nat /\ corpus[j].doc \in Nat /\ corpus[i].doc = corpus[j].doc
      BY <1>1, <2>13, <3>1, <3>3 DEF CorpusWhole
    <3>6. corpus[i].ordinal = corpus[j].ordinal => i = j
      BY <1>1, <3>3, <3>5 DEF CorpusWhole
    <3>7. corpus[i].ordinal < corpus[j].ordinal
      BY <3>3, <3>4, <3>5, <3>6 DEF Precedes
    <3> QED
      BY <3>1, <3>7
  <2>14. Expanded(corpus, access, question, ids, e)
    BY <2>9, <2>10, <2>11, <2>12, <2>13 DEF Expanded, SameSection
  <2> QED
    BY <2>14 DEF e
<1> QED
  BY <1>6, <1>7

\* What a search makes, and of what.
Searched ==
    stage = "search" =>
        /\ given \in Inputs["search"] /\ "search" \in DOMAIN Inputs
        /\ made # Nothing => made.it = Made("search", given)

\* A search makes evidence.
LEMMA MadeOfSearch ==
  ASSUME NEW g
  PROVE  Made("search", g) = Evidenced(g, RetrieveChunks(g.corpus, g.access, g.question, g.k, g.settings))
  BY DEF Made

\* What a search makes is visible evidence.
LEMMA SearchedIsVisible ==
  ASSUME Searched PROVE EvidenceVisible
<1> SUFFICES ASSUME made # Nothing, stage = "search"
             PROVE  /\ RulesAgree(given.corpus, given.access)
                    /\ Retrieved(given.corpus, given.access, given.k, made.it.ids)
                    /\ Full(given.corpus, given.access, given.question, given.k, given.settings, made.it.ids)
                    /\ Covered(given.corpus, given.access, given.question, given.k, given.settings, made.it.ids)
                    /\ Expanded(given.corpus, given.access, given.question, made.it.ids, made.it.evidence)
  BY DEF EvidenceVisible
<1> DEFINE ids == RetrieveChunks(given.corpus, given.access, given.question, given.k, given.settings)
<1>1. SearchInput(given)
  BY SearchAssumption DEF Searched
<1>2. RulesAgree(given.corpus, given.access)
  BY <1>1, RulesAlwaysAgree DEF SearchInput
<1>3. Asking(given.corpus, given.access, given.question, given.settings) /\ given.k \in Nat \ {0}
  BY <1>1, <1>2 DEF SearchInput, Asking
<1>4. /\ Finds(given.corpus, given.access, ids)
      /\ Retrieved(given.corpus, given.access, given.k, ids)
      /\ Full(given.corpus, given.access, given.question, given.k, given.settings, ids)
      /\ Covered(given.corpus, given.access, given.question, given.k, given.settings, ids)
  BY <1>3, RetrievedIs
<1>5. made.it = Evidenced(given, ids)
  BY MadeOfSearch DEF Searched
<1> HIDE DEF ids
<1>6. made.it.ids = ids /\ made.it.evidence = ExpandEvidence(given.corpus, given.access, given.question, ids)
  BY <1>5 DEF Evidenced
<1>7. Expanded(given.corpus, given.access, given.question, ids, made.it.evidence)
  BY <1>3, <1>4, <1>6, ExpandedIs
<1> QED
  BY <1>2, <1>4, <1>6, <1>7

\* The evidence for a question is what its user may see, and all of it there is room for.
THEOREM EvidenceIsVisible == Spec => []EvidenceVisible
<1>1. Init => Searched
  BY DEF Init, Searched
<1>2. Searched /\ [Next]_vars => Searched'
  <2> SUFFICES ASSUME Searched, [Next]_vars PROVE Searched'
    OBVIOUS
  <2>1. CASE Extract
    BY <2>1 DEF Extract, Stays, Searched
  <2>2. CASE Make
    BY <2>2 DEF Make, Searched
  <2>3. CASE UNCHANGED vars
    BY <2>3 DEF vars, Searched
  <2> QED
    BY <2>1, <2>2, <2>3 DEF Next
<1>3. Searched => EvidenceVisible
  BY SearchedIsVisible
<1> QED
  BY <1>1, <1>2, <1>3, PTL DEF Spec
================================================================================
