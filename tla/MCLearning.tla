----------------------------- MODULE MCLearning -----------------------------
(* Courses, programs and bounds for checking Learning.  The first drafts    *)
(* can be published, the next ones must be refused, the last three are      *)
(* courses of the first version.                                            *)
EXTENDS Reports

CONSTANTS t1, t2

TabSymmetry == Permutations({t1, t2})

MCThresholds == [quiz |-> 1, code |-> 0]
MCFileType == [film |-> "video", sheet |-> "pdf", logo |-> "image", essay |-> "document"]
MCTouched == {<<1, 2>>, <<1, 3>>, <<1, 4>>}
MCReviewed == {<<1, 2>>}

Blank == [id |-> "s", kind |-> "text", titled |-> TRUE, filled |-> TRUE, asset |-> None,
          viewer |-> None, images |-> {}, passing |-> 100, questions |-> << >>, tests |-> 0]
Article(i) == [Blank EXCEPT !.id = i, !.images = {"logo"}]
Essay(i) == [Blank EXCEPT !.id = i, !.kind = "document", !.asset = "essay", !.viewer = "sheet"]
Task(i) == [Blank EXCEPT !.id = i, !.kind = "code", !.tests = 1]
Quiz(i, passing, questions) ==
    [Blank EXCEPT !.id = i, !.kind = "quiz", !.passing = passing, !.questions = questions]

W(word, upper) == [word |-> word, upper |-> upper]
Choice(correct) == [text |-> W("choice", FALSE), correct |-> correct]
Question(type, answers, choices) ==
    [type |-> type, answers |-> answers, choices |-> choices, case_sensitive |-> FALSE]
One == Question("single", {}, <<Choice(TRUE), Choice(FALSE)>>)
Several == Question("multiple", {}, <<Choice(TRUE), Choice(TRUE)>>)
Short == Question("short", {W("", FALSE), W("yes", TRUE)}, << >>)
NoneRight == Question("multiple", {}, <<Choice(FALSE), Choice(FALSE)>>)
TwoRight == Question("single", {}, <<Choice(TRUE), Choice(TRUE)>>)
Empty == Question("short", {W("", FALSE)}, << >>)

Lesson(i, active, steps) == [id |-> i, titled |-> TRUE, active |-> active, steps |-> steps]
Draft(lessons) == [titled |-> TRUE, cover |-> "logo", legacy |-> None, lessons |-> lessons]
Single(i, steps) == Draft(<<Lesson(i, TRUE, steps)>>)
Old(lessons, done, quizzes) ==
    [Draft(lessons) EXCEPT !.legacy = [lessons |-> done, quizzes |-> quizzes]]

MCDocuments == {
    Single("a", <<Article("b"), Quiz("c", 100, <<One>>)>>),
    Single("a", <<Quiz("b", 50, <<Several, Short>>)>>),
    Single("a", <<Task("b")>>),
    Draft(<<Lesson("a", TRUE, <<Essay("b")>>), Lesson("c", FALSE, <<Quiz("d", 100, <<Empty>>)>>)>>),
    Single("a", <<Quiz("b", 100, <<TwoRight>>)>>), Single("a", <<Quiz("b", 1, <<NoneRight>>)>>),
    Single("a", <<Quiz("b", 50, <<Empty>>)>>), Single("a", <<Article("a")>>),
    Single("a", <<[Task("b") EXCEPT !.tests = 0]>>),
    Old(<<Lesson("a", TRUE, <<Article("b"), Quiz("c", 100, <<One>>)>>),
          Lesson("d", FALSE, <<Article("e")>>)>>, {1, 2}, {<<1, 4>>}),
    Old(<<Lesson("a", TRUE, <<Quiz("b", 100, <<One>>)>>), Lesson("c", TRUE, <<Article("d")>>)>>, {}, {<<1, 2>>}),
    Old(<<Lesson(1, TRUE, <<Article(2)>>), Lesson(3, FALSE, << >>),
          Lesson(4, TRUE, [i \in 1 .. 199 |-> Article(4 + i)])>>, {3}, {}) }

Code == [text |-> <<"x">>, comment |-> FALSE]
Line == [text |-> <<"/", "/", "x", "\n">>, comment |-> TRUE]
Block == [text |-> <<"/", "*", "\"", "*", "/">>, comment |-> TRUE]
Split == [text |-> <<"/", "\\", "\n", "/", "x", "\n">>, comment |-> TRUE]
String == [text |-> <<"\"", "\\", "\"", "/", "/", "\"">>, comment |-> FALSE]
Quote == [text |-> <<"'", "\"", "'">>, comment |-> FALSE]
Number == [text |-> <<"0", "'", "0">>, comment |-> FALSE]
Raw == [text |-> <<"R", "\"", "x", "(", "/", "/", ")", "\"", ")", "x", "\"">>, comment |-> FALSE]
MCSources ==
    {<<Code>>, <<Quote, Line>>, <<Number, Block>>, <<String, Split>>, <<Raw>>, <<Raw, Line>>, <<String, Quote, Number>>}

\* Reports are drawn up of short courses, beside one tab that answers and one
\* review.
Apart ==
    reading # None \/ snapshots # << >> =>
        /\ Len(doc.lessons) < 3 /\ job = None /\ \E t \in Tabs : request[t] = None
        /\ \A m \in All : Len(events[m]) <= 1
=============================================================================
