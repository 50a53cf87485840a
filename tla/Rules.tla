------------------------------- MODULE Rules -------------------------------
(* The rules by which learning is judged: the automatic mark of a block    *)
(* (learning/rules.py), the percent of a course and the score of a quiz    *)
(* (learning/services.py).  Pure operators, no state.                      *)
EXTENDS Integers, Sequences, FiniteSets, FiniteSetsExt, TLC

CONSTANTS
    None,               \* null
    THRESHOLDS_MS,      \* time limits by kind of block, in clock units
    DefaultThreshold    \* for the kinds THRESHOLDS_MS does not name

Verdicts == {"unknown", "positive", "negative"}

(***************************************************************************)
(* Comments of a C++ source, a sequence of characters.  A line splice is   *)
(* the backslash and the newline (which stands for \r\n too); "0" is any   *)
(* digit, "a" any other character of a number, "x" any other letter or     *)
(* digit, "_" any character without a meaning of its own.                  *)
(***************************************************************************)
Alphanumeric == {"0", "a", "x", "R"}
Splice(s, i) == i \in 1 .. Len(s) - 1 /\ s[i] = "\\" /\ s[i + 1] = "\n"
Spliced(s) ==
    LET kept == {i \in 1 .. Len(s) : ~Splice(s, i) /\ ~Splice(s, i - 1)}
        Nth(k) == CHOOSE i \in kept : Cardinality({j \in kept : j < i}) = k - 1
    IN  [k \in 1 .. Cardinality(kept) |-> s[Nth(k)]]

At(s, pattern, i) ==
    /\ i + Len(pattern) - 1 <= Len(s)
    /\ SubSeq(s, i, i + Len(pattern) - 1) = pattern

\* Where reading goes on behind the next occurrence of a pattern: behind
\* the end when there is none.
After(s, pattern, i) ==
    LET found == {j \in i .. Len(s) : At(s, pattern, j)}
    IN  IF found = {} THEN Len(s) + 1 ELSE Min(found) + Len(pattern)

\* The length of the delimiter of a raw literal R"delimiter( at i, or -1.
Delimiter(s, i) ==
    LET lengths == {d \in 0 .. 16 :
            /\ i + 2 + d <= Len(s) /\ s[i + 2 + d] = "("
            /\ \A j \in i + 2 .. i + 1 + d : s[j] \notin {" ", "(", ")", "\\", "\n"}}
    IN  IF At(s, <<"R", "\"">>, i) /\ lengths # {} THEN Min(lengths) ELSE -1

DigitSeparator_Any(s, i) == s[i] = "'" \* mutant
\* An apostrophe inside a number: 1'000.
DigitSeparator(s, i) ==
    /\ s[i] = "'" /\ i < Len(s) /\ s[i + 1] \in Alphanumeric
    /\ \E j \in 1 .. i - 1 :
          /\ s[j] = "0" /\ (j > 1 => s[j - 1] \notin Alphanumeric)
          /\ \A k \in j .. i - 1 : s[k] \in {"0", "a", "'"}

\* Behind the quoted literal that opens at i.
AfterLiteral(s, i) ==
    LET end[j \in Nat] ==
            IF j > Len(s) THEN Len(s) + 1
            ELSE IF s[j] = "\\" THEN end[j + 2]
            ELSE IF s[j] = s[i] THEN j + 1 ELSE end[j + 1]
    IN  end[i + 1]

cpp_comment_count(source) ==
    LET s == Spliced(source)
        count[i \in Nat] ==
            LET d == Delimiter(s, i) IN
            IF i > Len(s) THEN 0
            ELSE IF d >= 0
                THEN count[After(s, <<")">> \o SubSeq(s, i + 2, i + 1 + d) \o <<"\"">>, i + 3 + d)]
            ELSE IF At(s, <<"/", "/">>, i) THEN 1 + count[After(s, <<"\n">>, i + 2)]
            ELSE IF At(s, <<"/", "*">>, i) THEN 1 + count[After(s, <<"*", "/">>, i + 2)]
            ELSE IF s[i] \in {"\"", "'"} /\ ~DigitSeparator(s, i) THEN count[AfterLiteral(s, i)]
            ELSE count[i + 1]
    IN  count[1]

(***************************************************************************)
(* The automatic mark, the percent.                                        *)
(***************************************************************************)
Threshold(kind) ==
    IF kind \in DOMAIN THRESHOLDS_MS THEN THRESHOLDS_MS[kind] ELSE DefaultThreshold

Fast(kind, elapsed) == elapsed <= Threshold(kind)

\* evaluate: the mark and the number of comments.  The reasons it lists are
\* there exactly when the mark is negative.
evaluate(kind, elapsed, source) ==
    IF elapsed = None \/ elapsed < 0 \/ (kind = "code" /\ source = None)
    THEN [verdict |-> "unknown", comments |-> None]
    ELSE LET comments == IF kind = "code" THEN cpp_comment_count(source) ELSE None
         IN  [verdict  |-> IF Fast(kind, elapsed) \/ (kind = "code" /\ comments > 0)
                           THEN "negative" ELSE "positive",
              comments |-> comments]

\* Python's round of a / b: a half goes to the even neighbour.
Round(a, b) ==
    LET q == a \div b
        r == 2 * (a % b)
    IN  IF r > b \/ (r = b /\ q % 2 = 1) THEN q + 1 ELSE q

Percent_Rounded(done, total) == IF total = 0 THEN 0 ELSE Round(done * 100, total) \* mutant
Percent(done, total) ==
    IF total = 0 THEN 0
    ELSE IF done < total THEN Min({99, Round(done * 100, total)}) ELSE 100

\* The colour of a student: by the share of negative marks, not rounded.
zone(negative, assessed) ==
    CASE assessed = 0 -> "unknown"
      [] assessed > 0 /\ negative * 100 <= assessed * 33 -> "green"
      [] assessed > 0 /\ negative * 100 > assessed * 66 -> "red"
      [] OTHER -> "orange"

(***************************************************************************)
(* A quiz.  A text is [word, upper]: spaces at its ends are left out, ""   *)
(* is a blank one, upper tells whether its case differs from the usual.    *)
(* A choice is [text, correct]; an answer is a sequence of texts, a chosen *)
(* choice stands there by its key.                                         *)
(***************************************************************************)
Folded(q, text) == IF q.case_sensitive THEN text ELSE [text EXCEPT !.upper = FALSE]

Key(c) == [word |-> ToString(c), upper |-> FALSE]
Expected(q) == {Key(c) : c \in {k \in DOMAIN q.choices : q.choices[k].correct}}
Accepted(q) == {Folded(q, text) : text \in {t \in q.answers : t.word # ""}}

Correct(q, values) ==
    LET given == {values[i] : i \in DOMAIN values} IN
    IF q.type = "short"
    THEN Len(values) = 1 /\ Folded(q, values[1]) \in Accepted(q)
    ELSE /\ Expected(q) # {} /\ given = Expected(q) /\ Len(values) = Cardinality(given)
         /\ q.type = "single" => Len(values) = 1

\* The answers to all questions pass the quiz.
Passes(quiz, answers) ==
    LET right == {i \in DOMAIN quiz.questions : Correct(quiz.questions[i], answers[i])}
    IN  Cardinality(right) * 100 >= quiz.passing * Len(quiz.questions)
=============================================================================
