------------------------------ MODULE Content ------------------------------
(* The document of a course draft (studio/content.py) and the materials a  *)
(* publication makes of it (studio/services.py).  Pure operators.          *)
(*                                                                         *)
(* A document is [titled, cover, legacy, lessons]; a lesson is [id,        *)
(* titled, active, steps]; a step is [id, kind, titled, filled, asset,     *)
(* viewer, images, passing, questions, tests].  titled tells that no title *)
(* or description on the way is blank, filled that what the kind asks for  *)
(* beside its file is there: an article's text, an address, a statement.   *)
(* Sections only group lessons.  legacy is None, or what the student had   *)
(* done in a course of the first version, which had no tasks and was not   *)
(* published from a document: [lessons, quizzes].                          *)
EXTENDS Rules, Functions

CONSTANTS
    Assets,         \* files uploaded to the draft
    FileType,       \* [Assets -> "video", "pdf", "document", "presentation", "image"]
    MaxSteps        \* limit of a lesson

KINDS == {"text", "video", "pdf", "presentation", "document", "link", "quiz", "code"}
FileKinds == {"video", "pdf", "document", "presentation"}

\* The rows a course is stored in, as far as they matter here.
IsList(s) == Len(s) \in Nat /\ DOMAIN s = 1 .. Len(s)
IsAnswerChoice(c) == c \in [text : [word : STRING, upper : BOOLEAN], correct : BOOLEAN]
IsQuestion(q) ==
    /\ q.case_sensitive \in BOOLEAN /\ q.answers \subseteq [word : STRING, upper : BOOLEAN]
    /\ IsList(q.choices) /\ \A c \in Range(q.choices) : IsAnswerChoice(c)
IsQuiz(st) ==
    st.passing \in Nat /\ IsList(st.questions) /\ \A q \in Range(st.questions) : IsQuestion(q)
IsMaterial(st) == st.titled \in BOOLEAN /\ st.filled \in BOOLEAN /\ st.tests \in Nat /\ IsQuiz(st)
IsLesson(l) ==
    /\ l.titled \in BOOLEAN /\ l.active \in BOOLEAN
    /\ IsList(l.steps) /\ \A st \in Range(l.steps) : IsMaterial(st)
IsCourse(doc) ==
    doc.titled \in BOOLEAN /\ IsList(doc.lessons) /\ \A l \in Range(doc.lessons) : IsLesson(l)

Steps(doc) == UNION {Range(doc.lessons[l].steps) : l \in DOMAIN doc.lessons}

Ids(doc) ==
    {<<l>> : l \in DOMAIN doc.lessons}
        \cup UNION {{<<l, s>> : s \in DOMAIN doc.lessons[l].steps} : l \in DOMAIN doc.lessons}
IdOf(doc, i) == IF Len(i) = 1 THEN doc.lessons[i[1]].id ELSE doc.lessons[i[1]].steps[i[2]].id

\* normalize: what it refuses.  Ids are unique over the document, files are
\* the draft's own and fit the place they are used in, numbers are in range.
WellFormed(doc) ==
    /\ \A i, j \in Ids(doc) : IdOf(doc, i) = IdOf(doc, j) => i = j
    /\ doc.cover = None \/ (doc.cover \in Assets /\ FileType[doc.cover] = "image")
    /\ \A l \in DOMAIN doc.lessons : Len(doc.lessons[l].steps) <= MaxSteps
    /\ \A st \in Steps(doc) :
          /\ st.kind \in KINDS /\ st.passing \in 1 .. 100
          /\ {st.asset, st.viewer} \ {None} \subseteq Assets
          /\ (st.asset # None /\ st.kind \in FileKinds) => FileType[st.asset] = st.kind
          /\ st.viewer # None => FileType[st.viewer] = "pdf"
          /\ \A a \in st.images : a \in Assets /\ FileType[a] = "image"
          /\ \A q \in Range(st.questions) : q.type \in {"single", "multiple", "short"}

\* What problems asks of a question.  With the wrong number of marked
\* choices nobody could answer it.
Answerable_Any(q) == q.type = "short" \/ Len(q.choices) >= 2 \* mutant
Answerable(q) ==
    IF q.type = "short" THEN \E t \in q.answers : t.word # ""
    ELSE LET correct == Cardinality(Expected(q)) IN
         /\ Len(q.choices) >= 2 /\ \A c \in DOMAIN q.choices : q.choices[c].text.word # ""
         /\ IF q.type = "single" THEN correct = 1 ELSE correct >= 1

StepComplete(st) ==
    /\ st.titled
    /\ st.kind \in {"text", "link", "code"} => st.filled
    /\ st.kind = "video" => st.asset # None \/ st.filled
    /\ st.kind \in {"pdf", "document", "presentation"} => st.asset # None
    /\ st.kind = "code" => st.tests > 0
    /\ st.kind = "quiz" => st.questions # << >> /\ \A q \in Range(st.questions) : Answerable(q)

\* problems(data) is empty.  Hidden lessons are not looked at.
Complete(doc) ==
    /\ doc.titled
    /\ \E l \in DOMAIN doc.lessons : doc.lessons[l].active
    /\ \A l \in DOMAIN doc.lessons : doc.lessons[l].active =>
          /\ doc.lessons[l].titled /\ doc.lessons[l].steps # << >>
          /\ \A s \in DOMAIN doc.lessons[l].steps : StepComplete(doc.lessons[l].steps[s])

\* publish: the materials of a release, named <<lesson, order>>.  A step is
\* number 2i, the PDF shown with it number 2i + 1, an attachment of the step.
StepOf(doc, m) == doc.lessons[m[1]].steps[m[2] \div 2]
Materials(doc) ==
    UNION {{<<l, 2 * i>> : i \in DOMAIN doc.lessons[l].steps}
               \cup {<<l, 2 * i + 1>> : i \in {j \in DOMAIN doc.lessons[l].steps :
                                                  doc.lessons[l].steps[j].viewer # None}}
           : l \in DOMAIN doc.lessons}

Attachment(m) == m[2] % 2 = 1
Kind(doc, m) == IF Attachment(m) THEN "pdf" ELSE StepOf(doc, m).kind
File(doc, m) == IF Attachment(m) THEN StepOf(doc, m).viewer ELSE StepOf(doc, m).asset
Active(doc, m) == doc.lessons[m[1]].active
HasTask(doc, m) == Kind(doc, m) = "code" /\ doc.legacy = None

referenced_assets(doc) ==
    ({doc.cover}
        \cup UNION {UNION {{st.asset, st.viewer} \cup st.images : st \in Range(doc.lessons[l].steps)}
                    : l \in {k \in DOMAIN doc.lessons : doc.lessons[k].active}}) \ {None}

\* asset_file: a student may fetch a file of a release.
Served(doc, enrolled, asset) ==
    /\ asset \in referenced_assets(doc)
    /\ asset = doc.cover \/ enrolled
=============================================================================
