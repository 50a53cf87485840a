------------------------------ MODULE Learning ------------------------------
(* One student in one course (learning/services.py, learning/views.py):    *)
(* blocks are opened and completed, quizzes passed, programs accepted;     *)
(* percent, lessons and achievements are recomputed; teachers review the   *)
(* automatic marks (teaching/services.py).                                 *)
(*                                                                         *)
(* Every handler that changes something locks the student's account first  *)
(* (lock_user), so each is one step - but the time an answer is received   *)
(* at is taken before the lock is waited for, so an answer arrives in one  *)
(* step and is handled in another.  Times count clock units; the times of  *)
(* completion, which only say that something is complete, are flags.       *)
EXTENDS Content, SequencesExt

CONSTANTS
    Documents,      \* courses the student may meet
    Sources,        \* programs: sequences of [text, comment] tokens
    Tabs,           \* tabs of the student's browser
    Milestones,     \* numbers of blocks an achievement is given for (25, 100)
    Touched, Reviewed,  \* blocks a student, a teacher acts on (bounds of the runs)
    MaxTime, MaxAttempts, MaxEvents     \* bounds of the runs

\* What a program is checked for, and the numbers of comments that are found.
Text(source) == FlattenSeq([i \in DOMAIN source |-> source[i].text])
Counts == {cpp_comment_count(Text(source)) : source \in Sources}

Times == 0 .. MaxTime
Achievements == {"first_block", "blocks", "course_complete"} \X Nat
Rows == [opened : Times \cup {None}, submitted : Times \cup {None}, done : BOOLEAN,
         elapsed : Times \cup {None}, attempts : Nat, verdict : Verdicts,
         comments : Counts \cup {None}, imported : BOOLEAN]

ASSUME LearningConstants ==
    /\ \A d \in Documents : IsCourse(d)
    /\ Milestones \subseteq Nat
    /\ MaxTime \in Nat /\ MaxAttempts \in Nat /\ MaxEvents \in Nat
    /\ None \notin Int /\ None \notin BOOLEAN /\ None \notin Verdicts
    /\ None \notin Rows /\ None \notin [percent : 0 .. 100, completed : BOOLEAN]
    /\ None \notin Sources /\ \A source \in Sources : Text(source) # None

VARIABLES
    doc,            \* the course: a release never changes
    now,
    enrollment,     \* None or [percent, completed]
    row,            \* BlockProgress of a block, or None
    accepted,       \* the program accepted for a block (its Submission), or None
    lessonDone,     \* LessonProgress.completed of a lesson, or None
    achievements,
    quizAttempts,   \* number of QuizAttempt rows of a block, older ones left out
    review,         \* verdict of the BlockReview of a block, or None
    events,         \* ReviewEvent rows of a block, oldest first
    request,        \* None or [block, at, passed] of a tab: received, not handled
    job             \* None or [block, at, source]: the submission in progress

progressVars == <<enrollment, row, lessonDone, achievements>>
reviewVars == <<review, events>>
learningVars == <<doc, now, progressVars, accepted, quizAttempts, reviewVars, request, job>>

(***************************************************************************)
(* The course and what is done of it.                                      *)
(***************************************************************************)
All == Materials(doc)
LessonsOf == DOMAIN doc.lessons

\* course_blocks
Blocks == {m \in All : /\ Active(doc, m) /\ ~Attachment(m)
                       /\ Kind(doc, m) = "code" => HasTask(doc, m)}

\* authorize, for a student whose account and course are as they were when
\* the request came in.
Open(m) == Active(doc, m) /\ ~Attachment(m)
Authorized(m) == enrollment # None /\ Open(m)

DoneIn(rows, m) == rows[m] # None /\ rows[m].done
Done(m) == DoneIn(row, m)

BlankRow == [opened |-> None, submitted |-> None, done |-> FALSE, elapsed |-> None,
             attempts |-> 0, verdict |-> "unknown", comments |-> None, imported |-> FALSE]

\* A row the upgrade makes of an old result: no times, no mark.
ImportedRow(m) == [BlankRow EXCEPT !.done = TRUE, !.imported = TRUE,
                                   !.attempts = IF Kind(doc, m) = "quiz" THEN 1 ELSE 0]

\* What the first version's results are turned into.  A passed quiz may stand
\* in a lesson without a mark: the quiz that was missing has been deleted.
Imported(m) ==
    /\ doc.legacy # None /\ ~Attachment(m)
    /\ IF Kind(doc, m) = "quiz" THEN m \in doc.legacy.quizzes
       ELSE Kind(doc, m) # "code" /\ m[1] \in doc.legacy.lessons

LessonComplete(rows, l) ==
    LET blocks == {m \in Blocks : m[1] = l}
    IN  blocks # {} /\ \A m \in blocks : DoneIn(rows, m)

Enrolled(rows) ==
    LET done == Cardinality({m \in Blocks : DoneIn(rows, m)})
    IN  [percent |-> Percent(done, Cardinality(Blocks)),
         completed |-> Blocks # {} /\ \A m \in Blocks : DoneIn(rows, m)]

LearningInit ==
    /\ doc \in {d \in Documents : WellFormed(d) /\ (d.legacy # None \/ Complete(d))}
    /\ now = 0
    /\ row = [m \in All |-> IF Imported(m) THEN ImportedRow(m) ELSE None]
    /\ enrollment = IF doc.legacy = None THEN None ELSE Enrolled(row)
    /\ lessonDone = [l \in LessonsOf |->
                        IF doc.legacy # None /\ l \in doc.legacy.lessons
                        THEN LessonComplete(row, l) ELSE None]
    /\ quizAttempts = [m \in All |-> 0]
    /\ accepted = [m \in All |-> None]
    /\ achievements = {}
    /\ review = [m \in All |-> None] /\ events = [m \in All |-> << >>]
    /\ request = [t \in Tabs |-> None] /\ job = None

(***************************************************************************)
(* Opening and completing.                                                 *)
(***************************************************************************)
Enrol ==
    /\ enrollment = None
    /\ enrollment' = [percent |-> 0, completed |-> FALSE]
    /\ UNCHANGED <<doc, now, row, lessonDone, achievements, accepted, quizAttempts,
                   reviewVars, request, job>>

\* open_block: the clock of a block starts once.
Opened_Again(m) == \* mutant
    LET r == IF row[m] = None THEN BlankRow ELSE row[m]
    IN  IF ~r.done THEN [r EXCEPT !.opened = now] ELSE r
Opened(m) ==
    LET r == IF row[m] = None THEN BlankRow ELSE row[m]
    IN  IF r.opened = None /\ ~r.done THEN [r EXCEPT !.opened = now] ELSE r

\* views.start
Start(m) ==
    /\ Authorized(m) /\ (Kind(doc, m) = "code" => HasTask(doc, m))
    /\ row' = [row EXCEPT ![m] = Opened(m)]
    /\ UNCHANGED <<doc, now, enrollment, lessonDone, achievements, accepted, quizAttempts,
                   reviewVars, request, job>>

\* finish, the row.  An answer received before the block was opened (the
\* clock was started by another tab meanwhile) took a negative time.
Finished_NotDone(m, r, at, source) == \* mutant
    [r EXCEPT !.submitted = at, !.verdict = evaluate(Kind(doc, m), at - r.opened, source).verdict]
Finished(m, r, at, source) ==
    LET mark == evaluate(Kind(doc, m), at - r.opened, source)
    IN  [r EXCEPT !.submitted = at, !.done = TRUE, !.elapsed = Max({0, at - r.opened}),
                  !.verdict = mark.verdict, !.comments = mark.comments]

\* finish, what is recomputed from the rows, in the same transaction.
Granted(rows) ==
    {<<"first_block", 1>>}
        \cup {<<"blocks", n>> : n \in {k \in Milestones :
                 Cardinality({m \in All : DoneIn(rows, m)}) >= k}}
        \cup (IF Enrolled(rows).completed THEN {<<"course_complete", 1>>} ELSE {})

grant_achievement(given) == achievements' = achievements \cup given

Recalculate(rows) ==
    /\ row' = rows
    /\ enrollment' = Enrolled(rows)
    /\ lessonDone' = [l \in LessonsOf |-> LessonComplete(rows, l)]
    /\ grant_achievement(Granted(rows))

\* One more attempt, which completes the block if passed.
Finish(m, r, at, source, passed) ==
    LET tried == [r EXCEPT !.attempts = @ + 1]
    IN  IF r.done THEN UNCHANGED progressVars
        ELSE IF passed THEN Recalculate([row EXCEPT ![m] = Finished(m, tried, at, source)])
        ELSE row' = [row EXCEPT ![m] = tried] /\ UNCHANGED <<enrollment, lessonDone, achievements>>

\* The answers a page can send: nothing, choices ticked or a text typed.
Wrong == [word |-> "wrong", upper |-> FALSE]
AnswersTo(q) ==
    {<< >>} \cup IF q.type = "short" THEN {<<t>> : t \in q.answers \cup {Wrong}}
                 ELSE {SetToSeq(c) : c \in SUBSET {Key(k) : k \in DOMAIN q.choices}} \cup {<<Key(1), Key(1)>>}
Answers(quiz) ==
    {a \in [DOMAIN quiz.questions -> UNION {AnswersTo(q) : q \in Range(quiz.questions)}] :
        \A i \in DOMAIN a : a[i] \in AnswersTo(quiz.questions[i])}

\* complete and submit_quiz take the time first.  A block without content of
\* its own is confirmed, a quiz answered; whether the answers pass depends on
\* nothing that could change before they are graded.
Receive(t) ==
    /\ request[t] = None
    /\ \E m \in All :
          /\ m \in Touched /\ Authorized(m) /\ Kind(doc, m) # "code"
          /\ row[m] # None => row[m].attempts < MaxAttempts
          /\ \E passed \in IF Kind(doc, m) = "quiz"
                           THEN {Passes(StepOf(doc, m), a) : a \in Answers(StepOf(doc, m))} ELSE {TRUE} :
                request' = [request EXCEPT ![t] = [block |-> m, at |-> now, passed |-> passed]]
    /\ UNCHANGED <<doc, now, progressVars, accepted, quizAttempts, reviewVars, job>>

\* submit_test keeps a QuizAttempt of every answer to an unfinished quiz.
Attempted(m) ==
    [quizAttempts EXCEPT ![m] = IF Kind(doc, m) = "quiz" /\ ~Done(m) THEN @ + 1 ELSE @]

\* complete_information and submit_test, under the lock.  A block that was
\* never opened is refused.
Handle(t) ==
    LET m == request[t].block
        r == row[m]
    IN  /\ request[t] # None
        /\ IF r = None THEN UNCHANGED <<progressVars, quizAttempts>>
           ELSE /\ quizAttempts' = Attempted(m)
                /\ Finish(m, r, request[t].at, None, request[t].passed)
        /\ request' = [request EXCEPT ![t] = None]
        /\ UNCHANGED <<doc, now, accepted, reviewVars, job>>

\* A program is filed under the lock, with its time; the verdict comes later
\* (module JudgeQueue).  Errors and cancellations are no attempts.
Submit(m) ==
    /\ Authorized(m) /\ HasTask(doc, m) /\ job = None
    /\ row[m] # None /\ row[m].opened # None /\ row[m].attempts < MaxAttempts
    /\ \E source \in Sources : job' = [block |-> m, at |-> now, source |-> source]
    /\ UNCHANGED <<doc, now, progressVars, accepted, quizAttempts, reviewVars, request>>

Judged(outcome) ==
    LET m == job.block IN
    /\ job # None
    /\ IF outcome = "cancelled" THEN UNCHANGED progressVars
       ELSE Finish(m, row[m], job.at, Text(job.source), outcome = "accepted")
    /\ accepted' = IF outcome = "accepted" /\ ~Done(m)
                   THEN [accepted EXCEPT ![m] = job.source] ELSE accepted
    /\ job' = None
    /\ UNCHANGED <<doc, now, quizAttempts, reviewVars, request>>

(***************************************************************************)
(* What the student is shown.                                              *)
(***************************************************************************)
\* course_detail: the ticks in the list of lessons.
Ticked == {l \in LessonsOf : doc.lessons[l].active /\ lessonDone[l] = TRUE}

\* resume: a block begun and not finished, or the first one left to do; none
\* of them, and the button leads to the page of the course.
ResumeTo ==
    LET begun == {m \in Blocks : row[m] # None /\ ~Done(m)}
    IN  IF begun # {} THEN begun ELSE {m \in Blocks : ~Done(m)}

\* library: the shelf a course stands on.
Shelf == IF enrollment.percent < 100 THEN "active" ELSE "done"

(***************************************************************************)
(* Reviews.                                                                *)
(***************************************************************************)
\* effective_verdict, and the annotation of scoped_records.
Effective(m) == IF review[m] # None THEN review[m] ELSE row[m].verdict

Before_Automatic(m) == row[m].verdict \* mutant
Before(m) == Effective(m)
record_review(m, value) ==
    LET after == IF value = "reset" THEN row[m].verdict ELSE value IN
    /\ events' = [events EXCEPT ![m] = Append(@, [before |-> Before(m), after |-> after])]
    /\ review' = [review EXCEPT ![m] = IF value = "reset" THEN None ELSE value]

\* views.review: only what is complete.
Review(m, value) ==
    /\ Done(m) /\ Len(events[m]) < MaxEvents
    /\ record_review(m, value)
    /\ UNCHANGED <<doc, now, progressVars, accepted, quizAttempts, request, job>>

\* The trial calculation of teaching.views.rules with the thresholds in force.
Simulated(m) ==
    LET r == row[m] IN
    IF r.elapsed = None \/ (Kind(doc, m) = "code" /\ r.comments = None) THEN "unknown"
    ELSE IF Fast(Kind(doc, m), r.elapsed) \/ (Kind(doc, m) = "code" /\ r.comments > 0)
    THEN "negative" ELSE "positive"

Tick ==
    /\ now < MaxTime /\ now' = now + 1
    /\ UNCHANGED <<doc, progressVars, accepted, quizAttempts, reviewVars, request, job>>

LearningNext ==
    \/ Enrol \/ Tick
    \/ \E m \in All \cap Touched : Start(m) \/ Submit(m)
    \/ \E t \in Tabs : Receive(t) \/ Handle(t)
    \/ \E outcome \in {"accepted", "wrong_answer", "cancelled"} : Judged(outcome)
    \/ \E m \in All \cap Reviewed, value \in Verdicts \cup {"reset"} : Review(m, value)

LearningSpec == LearningInit /\ [][LearningNext]_learningVars

(***************************************************************************)
(* Properties.                                                             *)
(***************************************************************************)
\* Every variable has its type; only finished work has a mark, only finished
\* and reviewed work a teacher's mark.
LearningTypeOK ==
    /\ doc \in Documents /\ now \in Times
    /\ enrollment = None \/ (enrollment.percent \in 0 .. 100 /\ enrollment.completed \in BOOLEAN)
    /\ row \in [All -> Rows \cup {None}] /\ lessonDone \in [LessonsOf -> BOOLEAN \cup {None}]
    /\ \A m \in All : /\ row[m] # None /\ row[m].verdict # "unknown" => Done(m)
                      /\ review[m] \in Verdicts \cup {None} /\ (review[m] # None => Done(m))
    /\ achievements \subseteq Achievements
    /\ quizAttempts \in [All -> Nat] /\ \A m \in All : Len(events[m]) <= MaxEvents

\* What is shown agrees with what was done, whatever was lost to rounding:
\* 100 %, a completion date and the shelf of finished courses exactly when
\* every block that counts is done, and until then a button that leads to one
\* that is not; a lesson ticked only when its blocks are done, and then
\* indeed, but for the lessons the upgrade found no mark of while nothing else
\* is done in the course; an achievement only for work that is there
\* (recalculate, finish, course_detail, practice.views.library and resume).
ProgressAgrees ==
    /\ enrollment # None =>
          /\ enrollment.completed <=> Blocks # {} /\ \A m \in Blocks : Done(m)
          /\ enrollment.percent = 100 <=> enrollment.completed
          /\ <<"course_complete", 1>> \in achievements => enrollment.completed
          /\ Blocks # {} => (Shelf = "done" <=> ResumeTo = {})
          /\ Ticked \subseteq {l \in LessonsOf : LessonComplete(row, l)}
          /\ (\E m \in All : Done(m) /\ ~row[m].imported) =>
                {l \in LessonsOf : LessonComplete(row, l)} \subseteq Ticked
    /\ \A a \in achievements : Cardinality({m \in All : Done(m)}) >= a[2]
    /\ \A m \in All : row[m] # None /\ ~row[m].imported /\ Kind(doc, m) = "quiz" =>
          quizAttempts[m] = row[m].attempts

\* What a student has done stays: its times, its mark, its number of attempts
\* and the accepted program never change again, and the clock of a block he
\* opened is never set back - whatever he opens, answers or sends later, in
\* whichever tab (open_block, finish).
PaidForGood ==
    [][/\ \A m \in All : Done(m) => row'[m] = row[m] /\ accepted'[m] = accepted[m]
       /\ \A m \in All : row[m] # None => row'[m].opened = row[m].opened]_learningVars

\* The automatic mark says what it claims: it is negative exactly when the
\* accepted answer took no longer than the limit of its kind or the accepted
\* program has a comment - not a string, a character or a raw literal that
\* looks like one.  Without the two times there is no mark.  The teacher's
\* trial calculation gives the same marks, but for an answer received before
\* the opening (evaluate, finish, cpp_comment_count, teaching.views.rules).
MarksAreEarned ==
    \A m \in All : Done(m) =>
        LET r == row[m]
            spent == r.submitted - r.opened
        IN  IF r.imported THEN r.verdict = "unknown" /\ r.opened = None
            ELSE /\ r.verdict = "unknown" <=> spent < 0
                 /\ r.verdict = "negative" <=>
                        /\ spent >= 0
                        /\ \/ spent <= Threshold(Kind(doc, m))
                           \/ accepted[m] # None /\ \E i \in DOMAIN accepted[m] : accepted[m][i].comment
                 /\ spent >= 0 => Simulated(m) = r.verdict

\* The journal of reviews is a chain from the automatic mark to the mark in
\* force: no change is missing from it and none starts from a mark that was
\* not shown (record_review, effective_verdict).
ReviewChain ==
    \A m \in All : Done(m) =>
        LET marks == <<row[m].verdict>> \o [i \in DOMAIN events[m] |-> events[m][i].after]
        IN  /\ \A i \in DOMAIN events[m] : events[m][i].before = marks[i]
            /\ Effective(m) = Last(marks)

\* Nobody is stuck at 99 %: whatever draft the checks let through, every
\* block that counts can be done - it can be opened, its quiz has answers that
\* pass, its task has tests, its files are handed to the student (problems,
\* publish, authorize, submit_test, asset_file).
EveryBlockCanBeDone ==
    doc.legacy = None => \A m \in Blocks :
        /\ Open(m)
        /\ Kind(doc, m) = "quiz" =>
              \E a \in Answers(StepOf(doc, m)) : Passes(StepOf(doc, m), a)
        /\ Kind(doc, m) = "code" => HasTask(doc, m) /\ StepOf(doc, m).tests > 0
        /\ \A n \in All : n[1] = m[1] /\ File(doc, n) # None => Served(doc, TRUE, File(doc, n))
=============================================================================
