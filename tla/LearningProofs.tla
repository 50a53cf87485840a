--------------------------- MODULE LearningProofs ---------------------------
(* Theorems about Learning and Reports, for any courses, programs, tabs and  *)
(* bounds.                                                                   *)
EXTENDS Reports, SequenceTheorems, FiniteSetTheorems, TLAPS

(***************************************************************************)
(* Numbers: the quotient, Python's round, the percent.                     *)
(***************************************************************************)
LEMMA Division ==
    ASSUME NEW a \in Nat, NEW b \in Nat \ {0}
    PROVE  /\ a \div b \in Nat /\ a % b \in 0 .. b - 1
           /\ a = b * (a \div b) + (a % b)
    OBVIOUS

\* The quotient of a smaller number is no larger, and when it is the same the
\* remainder is no larger.
LEMMA DivisionGrows ==
    ASSUME NEW a \in Nat, NEW c \in Nat, NEW b \in Nat \ {0}, a <= c
    PROVE  /\ a \div b <= c \div b
           /\ a \div b = c \div b => a % b <= c % b
<1> DEFINE q == a \div b
           p == c \div b
<1>1. q \in Nat /\ p \in Nat /\ a % b \in 0 .. b - 1 /\ c % b \in 0 .. b - 1
    BY Division
<1>2. a = b * q + (a % b) /\ c = b * p + (c % b)
    BY Division
<1> HIDE DEF q, p
<1>3. q <= p
    <2>1. SUFFICES ASSUME p + 1 <= q PROVE FALSE
        BY <1>1
    <2>2. PICK d \in Nat : q = p + 1 + d
        <3>1. q - p - 1 \in Nat /\ q = p + 1 + (q - p - 1)
            BY <1>1, <2>1
        <3> QED BY <3>1
    <2>3. b * q = b * p + b + b * d
        BY <1>1, <2>2
    <2>4. b * d \in Nat /\ b * p \in Nat
        BY <1>1, <2>2
    <2> QED BY <1>1, <1>2, <2>3, <2>4
<1>4. q = p => a % b <= c % b
    <2>1. ASSUME q = p PROVE a % b <= c % b
        <3>1. b * q = b * p /\ b * p \in Nat
            BY <1>1, <2>1
        <3> QED BY <3>1, <1>1, <1>2
    <2> QED BY <2>1
<1> QED BY <1>3, <1>4 DEF q, p

LEMMA RoundNat ==
    ASSUME NEW a \in Nat, NEW b \in Nat \ {0}
    PROVE  Round(a, b) \in Nat
BY Division DEF Round

\* Rounding keeps the order.
LEMMA RoundGrows ==
    ASSUME NEW a \in Nat, NEW c \in Nat, NEW b \in Nat \ {0}, a <= c
    PROVE  Round(a, b) <= Round(c, b)
<1> DEFINE q == a \div b
           p == c \div b
           r == a % b
           s == c % b
<1>1. q \in Nat /\ p \in Nat /\ r \in Nat /\ s \in Nat
    BY Division
<1>2. q <= p /\ (q = p => r <= s)
    BY DivisionGrows
<1>3. /\ Round(a, b) = IF 2 * r > b \/ (2 * r = b /\ q % 2 = 1) THEN q + 1 ELSE q
      /\ Round(c, b) = IF 2 * s > b \/ (2 * s = b /\ p % 2 = 1) THEN p + 1 ELSE p
    BY DEF Round
<1> HIDE DEF q, p, r, s
<1>4. CASE q = p
    BY <1>1, <1>2, <1>3, <1>4
<1>5. CASE q # p
    <2>1. q + 1 <= p
        BY <1>1, <1>2, <1>5
    <2>2. Round(a, b) <= q + 1 /\ p <= Round(c, b) /\ Round(a, b) \in Nat /\ Round(c, b) \in Nat
        BY <1>1, <1>3
    <2> QED BY <1>1, <2>1, <2>2
<1> QED BY <1>4, <1>5

LEMMA RoundZero ==
    ASSUME NEW b \in Nat \ {0}
    PROVE  Round(0, b) = 0
<1> DEFINE q == 0 \div b
           r == 0 % b
<1>1. q \in Nat /\ r \in Nat /\ 0 = b * q + r
    BY Division
<1>2. Round(0, b) = IF 2 * r > b \/ (2 * r = b /\ q % 2 = 1) THEN q + 1 ELSE q
    BY DEF Round
<1> HIDE DEF q, r
<1>3. b * q \in Nat /\ r = 0 /\ b * q = 0
    BY <1>1
<1>4. q = 0
    BY <1>1, <1>3
<1> QED BY <1>2, <1>3, <1>4

LEMMA MinOfTwo ==
    ASSUME NEW x \in Nat, NEW y \in Nat
    PROVE  Min({x, y}) = IF x <= y THEN x ELSE y
<1>1. \E z \in {x, y} : \A w \in {x, y} : z <= w
    OBVIOUS
<1>2. Min({x, y}) \in {x, y} /\ \A w \in {x, y} : Min({x, y}) <= w
    BY <1>1 DEF Min
<1> QED BY <1>2

LEMMA MaxOfTwo ==
    ASSUME NEW x \in Int, NEW y \in Int
    PROVE  Max({x, y}) = IF x >= y THEN x ELSE y
<1>1. \E z \in {x, y} : \A w \in {x, y} : z >= w
    OBVIOUS
<1>2. Max({x, y}) \in {x, y} /\ \A w \in {x, y} : Max({x, y}) >= w
    BY <1>1 DEF Max
<1> QED BY <1>2

\* The percent is one, and 100 only when all is done.
LEMMA PercentBounds ==
    ASSUME NEW total \in Nat, NEW done \in 0 .. total
    PROVE  /\ Percent(done, total) \in 0 .. 100
           /\ Percent(done, total) = 100 <=> total # 0 /\ done = total
<1>1. CASE total = 0
    BY <1>1 DEF Percent
<1>2. CASE total # 0
    <2>1. Round(done * 100, total) \in Nat
        BY <1>2, RoundNat
    <2> DEFINE x == Round(done * 100, total)
    <2>2. Percent(done, total) = IF done < total THEN Min({99, x}) ELSE 100
        BY <1>2 DEF Percent
    <2> HIDE DEF x
    <2>3. Min({99, x}) = IF 99 <= x THEN 99 ELSE x
        BY <2>1, MinOfTwo DEF x
    <2>4. x \in Nat
        BY <2>1 DEF x
    <2> QED BY <1>2, <2>2, <2>3, <2>4
<1> QED BY <1>1, <1>2

LEMMA PercentGrows ==
    ASSUME NEW total \in Nat, NEW done \in 0 .. total, NEW more \in 0 .. total, done <= more
    PROVE  Percent(done, total) <= Percent(more, total)
<1>1. CASE total = 0
    BY <1>1 DEF Percent
<1>2. CASE total # 0 /\ more = total
    BY <1>2, PercentBounds DEF Percent
<1>3. CASE total # 0 /\ more # total
    <2> DEFINE x == Round(done * 100, total)
               y == Round(more * 100, total)
    <2>1. x \in Nat /\ y \in Nat
        BY <1>3, RoundNat
    <2>2. x <= y
        BY <1>3, RoundGrows
    <2>3. Percent(done, total) = Min({99, x}) /\ Percent(more, total) = Min({99, y})
        BY <1>3 DEF Percent
    <2> HIDE DEF x, y
    <2>4. Min({99, x}) = IF 99 <= x THEN 99 ELSE x
        BY <2>1, MinOfTwo
    <2>5. Min({99, y}) = IF 99 <= y THEN 99 ELSE y
        BY <2>1, MinOfTwo
    <2> QED BY <2>1, <2>2, <2>3, <2>4, <2>5
<1> QED BY <1>1, <1>2, <1>3

LEMMA PercentZero ==
    ASSUME NEW total \in Nat
    PROVE  Percent(0, total) = 0
<1>1. CASE total = 0
    BY <1>1 DEF Percent
<1>2. CASE total # 0
    <2>1. Round(0 * 100, total) = 0
        BY <1>2, RoundZero
    <2>2. Min({99, 0}) = 0
        BY MinOfTwo
    <2> QED BY <1>2, <2>1, <2>2 DEF Percent
<1> QED BY <1>1, <1>2

(***************************************************************************)
(* Courses.                                                                *)
(***************************************************************************)
\* The materials of one lesson.
Rest(d, l) ==
    {<<l, 2 * i>> : i \in DOMAIN d.lessons[l].steps}
        \cup {<<l, 2 * i + 1>> : i \in {j \in DOMAIN d.lessons[l].steps :
                                           d.lessons[l].steps[j].viewer # None}}

LEMMA LessonFinite ==
    ASSUME NEW d, IsCourse(d), NEW l \in DOMAIN d.lessons
    PROVE  /\ IsFiniteSet(Rest(d, l))
           /\ \A m \in Rest(d, l) :
                 /\ m = <<l, m[2]>> /\ m[2] \in Nat
                 /\ m[2] \div 2 \in DOMAIN d.lessons[l].steps
                 /\ m[2] % 2 = 0 \/ d.lessons[l].steps[m[2] \div 2].viewer # None
<1> DEFINE n == Len(d.lessons[l].steps)
<1>1. n \in Nat /\ DOMAIN d.lessons[l].steps = 1 .. n
    BY DEF IsCourse, IsLesson, IsList, Range
<1>2. Rest(d, l) \subseteq {l} \X (0 .. 2 * n + 1)
    BY <1>1 DEF Rest
<1>3. IsFiniteSet({l} \X (0 .. 2 * n + 1))
    <2>1. 2 * n + 1 \in Int
        BY <1>1
    <2>2. IsFiniteSet(0 .. 2 * n + 1)
        BY <2>1, FS_Interval
    <2>3. IsFiniteSet({l})
        BY FS_Singleton
    <2> QED BY <2>2, <2>3, FS_Product
<1>4. IsFiniteSet(Rest(d, l))
    BY <1>2, <1>3, FS_Subset
<1>5. ASSUME NEW m \in Rest(d, l)
      PROVE  /\ m = <<l, m[2]>> /\ m[2] \in Nat
             /\ m[2] \div 2 \in DOMAIN d.lessons[l].steps
             /\ m[2] % 2 = 0 \/ d.lessons[l].steps[m[2] \div 2].viewer # None
    <2>1. CASE \E i \in DOMAIN d.lessons[l].steps : m = <<l, 2 * i>>
        <3>1. PICK i \in 1 .. n : m = <<l, 2 * i>>
            BY <2>1, <1>1
        <3>2. (2 * i) \div 2 = i /\ (2 * i) % 2 = 0 /\ 2 * i \in Nat
            BY <1>1
        <3> QED BY <3>1, <3>2, <1>1
    <2>2. CASE \E i \in DOMAIN d.lessons[l].steps :
                  m = <<l, 2 * i + 1>> /\ d.lessons[l].steps[i].viewer # None
        <3>1. PICK i \in 1 .. n : m = <<l, 2 * i + 1>> /\ d.lessons[l].steps[i].viewer # None
            BY <2>2, <1>1
        <3>2. (2 * i + 1) \div 2 = i /\ 2 * i + 1 \in Nat
            BY <1>1
        <3> QED BY <3>1, <3>2, <1>1
    <2> QED BY <2>1, <2>2 DEF Rest
<1> QED BY <1>4, <1>5

\* A course has finitely many materials, each a row of one of its steps.
LEMMA MaterialsOf ==
    ASSUME NEW d, IsCourse(d)
    PROVE  /\ IsFiniteSet(Materials(d))
           /\ \A m \in Materials(d) :
                 /\ m[1] \in DOMAIN d.lessons /\ m = <<m[1], m[2]>> /\ m[2] \in Nat
                 /\ m[2] \div 2 \in DOMAIN d.lessons[m[1]].steps
                 /\ Attachment(m) => StepOf(d, m).viewer # None
<1> DEFINE f == [l \in DOMAIN d.lessons |-> Rest(d, l)]
           n == Len(d.lessons)
<1>1. n \in Nat /\ DOMAIN d.lessons = 1 .. n
    BY DEF IsCourse, IsList
<1>2. IsFiniteSet(DOMAIN d.lessons)
    BY <1>1, FS_Interval
<1>3. f \in Surjection(DOMAIN d.lessons, Range(f))
    BY DEF Surjection, Range
<1>4. IsFiniteSet(Range(f))
    BY <1>2, <1>3, FS_Surjection
<1>5. \A T \in Range(f) : IsFiniteSet(T)
    BY LessonFinite DEF Range
<1>6. Materials(d) = UNION Range(f)
    <2>1. Materials(d) = UNION {Rest(d, l) : l \in DOMAIN d.lessons}
        BY Zenon DEF Materials, Rest
    <2>2. {Rest(d, l) : l \in DOMAIN d.lessons} = Range(f)
        BY DEF Range
    <2> QED BY <2>1, <2>2
<1>7. IsFiniteSet(Materials(d))
    BY <1>4, <1>5, <1>6, FS_UNION
<1>8. ASSUME NEW m \in Materials(d)
      PROVE  /\ m[1] \in DOMAIN d.lessons /\ m = <<m[1], m[2]>> /\ m[2] \in Nat
             /\ m[2] \div 2 \in DOMAIN d.lessons[m[1]].steps
             /\ Attachment(m) => StepOf(d, m).viewer # None
    <2>1. PICK l \in DOMAIN d.lessons : m \in Rest(d, l)
        BY <1>6 DEF Range
    <2>2. m = <<l, m[2]>> /\ m[1] = l
        BY <2>1, LessonFinite
    <2>3. /\ m[2] \in Nat /\ m[2] \div 2 \in DOMAIN d.lessons[l].steps
          /\ m[2] % 2 = 0 \/ d.lessons[l].steps[m[2] \div 2].viewer # None
        BY <2>1, LessonFinite
    <2>4. Attachment(m) => StepOf(d, m).viewer # None
        BY <2>2, <2>3 DEF Attachment, StepOf
    <2> QED BY <2>2, <2>3, <2>4
<1> QED BY <1>7, <1>8

(***************************************************************************)
(* The inductive invariant.                                                *)
(***************************************************************************)
DoneSet(rows) == {m \in All : DoneIn(rows, m)}
Percents == [percent : 0 .. 100, completed : BOOLEAN]
Answered == [block : All, at : Times, passed : BOOLEAN]
Filed == [block : All, at : Times, source : Sources]
Reviews == [before : Verdicts, after : Verdicts]

Types ==
    /\ doc \in Documents /\ WellFormed(doc) /\ (doc.legacy # None \/ Complete(doc))
    /\ now \in Times
    /\ enrollment \in Percents \cup {None}
    /\ row \in [All -> Rows \cup {None}]
    /\ accepted \in [All -> Sources \cup {None}]
    /\ lessonDone \in [LessonsOf -> BOOLEAN \cup {None}]
    /\ achievements \subseteq Achievements
    /\ quizAttempts \in [All -> Nat]
    /\ review \in [All -> Verdicts \cup {None}]
    /\ events \in [All -> Seq(Reviews)] /\ \A m \in All : Len(events[m]) <= MaxEvents
    /\ request \in [Tabs -> Answered \cup {None}]
    /\ job \in Filed \cup {None}

\* Work begins with the enrolment and the opening, and has no mark before it
\* is done; what is waiting to be handled can be handled.
Begun ==
    /\ \A m \in All : row[m] # None =>
          /\ enrollment # None
          /\ row[m].done \/ row[m].opened # None
          /\ row[m].verdict # "unknown" => row[m].done
    /\ \A t \in Tabs : request[t] # None => Kind(doc, request[t].block) # "code"
    /\ job # None => HasTask(doc, job.block) /\ row[job.block] # None

\* What is recomputed agrees with the rows.
Agreed ==
    /\ enrollment # None => enrollment = Enrolled(row)
    /\ \A a \in achievements : Cardinality(DoneSet(row)) >= a[2]
    /\ <<"course_complete", 1>> \in achievements => Enrolled(row).completed
    /\ \A l \in LessonsOf : lessonDone[l] = TRUE => LessonComplete(row, l)
    /\ (\E m \in All : Done(m) /\ ~row[m].imported) =>
          \A l \in LessonsOf : lessonDone[l] = LessonComplete(row, l)
    /\ \A m \in All : row[m] # None /\ ~row[m].imported /\ Kind(doc, m) = "quiz" =>
          quizAttempts[m] = row[m].attempts
    /\ \A m \in All : row[m] = None => quizAttempts[m] = 0

\* The journal of a block goes from the automatic mark to the mark in force.
Journal(first, list, last) ==
    /\ \A i \in 1 .. Len(list) : list[i].before = IF i = 1 THEN first ELSE list[i - 1].after
    /\ last = IF list = << >> THEN first ELSE list[Len(list)].after
Chained ==
    \A m \in All :
        IF Done(m) THEN Journal(row[m].verdict, events[m], Effective(m))
        ELSE review[m] = None /\ events[m] = << >>

LearningInv == Types /\ Begun /\ Agreed /\ Chained

(***************************************************************************)
(* What is recomputed from the rows.                                       *)
(***************************************************************************)
LEMMA CourseFinite ==
    ASSUME doc \in Documents
    PROVE  IsFiniteSet(All) /\ IsFiniteSet(Blocks) /\ Blocks \subseteq All
<1>1. IsFiniteSet(All)
    BY LearningConstants, MaterialsOf DEF All
<1>2. Blocks \subseteq All
    BY DEF Blocks
<1> QED BY <1>1, <1>2, FS_Subset

\* A release does not change, so what is said of it before a step is said of
\* it after.
LEMMA SameCourse ==
    ASSUME doc' = doc
    PROVE  /\ All' = All /\ Blocks' = Blocks /\ LessonsOf' = LessonsOf
           /\ Enrolled(row)' = Enrolled(row')
           /\ DoneSet(row)' = DoneSet(row')
           /\ \A l : LessonComplete(row, l)' = LessonComplete(row', l)
<1>1. All' = All
    BY DEF All
<1>2. LessonsOf' = LessonsOf
    BY DEF LessonsOf
<1>3. Blocks' = Blocks
    BY <1>1 DEF Blocks
<1>4. Enrolled(row)' = Enrolled(row')
    BY <1>3 DEF Enrolled, DoneIn
<1>5. DoneSet(row)' = DoneSet(row')
    BY <1>1 DEF DoneSet, DoneIn
<1>6. \A l : LessonComplete(row, l)' = LessonComplete(row', l)
    BY <1>3 DEF LessonComplete, DoneIn
<1> QED BY <1>1, <1>2, <1>3, <1>4, <1>5, <1>6

LEMMA EnrolledType ==
    ASSUME doc \in Documents, NEW rows
    PROVE  /\ Enrolled(rows) \in Percents
           /\ Enrolled(rows).percent = 100 <=> Enrolled(rows).completed
           /\ Enrolled(rows).completed <=> Blocks # {} /\ \A m \in Blocks : DoneIn(rows, m)
<1> DEFINE S == {m \in Blocks : DoneIn(rows, m)}
           done == Cardinality(S)
           total == Cardinality(Blocks)
<1>1. IsFiniteSet(Blocks)
    BY CourseFinite
<1>2. S \subseteq Blocks /\ (S = Blocks <=> \A m \in Blocks : DoneIn(rows, m))
    OBVIOUS
<1>3. total \in Nat /\ (total = 0 <=> Blocks = {})
    BY <1>1, FS_CardinalityType, FS_EmptySet
<1>4. /\ IsFiniteSet(S) /\ done <= total
      /\ done = total <=> S = Blocks
    BY <1>1, <1>2, FS_Subset
<1>5. done \in 0 .. total
    BY <1>3, <1>4, FS_CardinalityType
<1>6. /\ Percent(done, total) \in 0 .. 100
      /\ Percent(done, total) = 100 <=> total # 0 /\ done = total
    BY <1>3, <1>5, PercentBounds
<1>7. Enrolled(rows) = [percent |-> Percent(done, total),
                        completed |-> Blocks # {} /\ \A m \in Blocks : DoneIn(rows, m)]
    BY DEF Enrolled
<1> DEFINE all == Blocks # {} /\ \A m \in Blocks : DoneIn(rows, m)
<1>8. all \in BOOLEAN /\ (all <=> total # 0 /\ done = total)
    BY <1>2, <1>3, <1>4
<1>9. Enrolled(rows) = [percent |-> Percent(done, total), completed |-> all]
    BY <1>7
<1> HIDE DEF done, total, all
<1>10. Enrolled(rows) \in Percents
    BY <1>6, <1>8, <1>9 DEF Percents
<1>11. Enrolled(rows).percent = 100 <=> Enrolled(rows).completed
    BY <1>6, <1>8, <1>9
<1>12. Enrolled(rows).completed <=> all
    BY <1>9
<1> QED BY <1>10, <1>11, <1>12 DEF all

\* More done: no less percent, no course finished before that is not now.
LEMMA EnrolledGrows ==
    ASSUME doc \in Documents, NEW rows, NEW more,
           \A m \in All : DoneIn(rows, m) => DoneIn(more, m)
    PROVE  /\ Enrolled(rows).percent <= Enrolled(more).percent
           /\ Enrolled(rows).completed => Enrolled(more).completed
           /\ Cardinality(DoneSet(rows)) \in Nat /\ Cardinality(DoneSet(more)) \in Nat
           /\ Cardinality(DoneSet(rows)) <= Cardinality(DoneSet(more))
           /\ \A l : LessonComplete(rows, l) => LessonComplete(more, l)
<1> DEFINE S == {m \in Blocks : DoneIn(rows, m)}
           T == {m \in Blocks : DoneIn(more, m)}
           total == Cardinality(Blocks)
<1>1. IsFiniteSet(Blocks) /\ Blocks \subseteq All /\ IsFiniteSet(All)
    BY CourseFinite
<1>2. S \subseteq T /\ T \subseteq Blocks /\ DoneSet(rows) \subseteq DoneSet(more)
      /\ DoneSet(more) \subseteq All
    BY <1>1 DEF DoneSet
<1>3. IsFiniteSet(T) /\ IsFiniteSet(DoneSet(more)) /\ Cardinality(T) <= total
    BY <1>1, <1>2, FS_Subset
<1>4. IsFiniteSet(S) /\ Cardinality(S) <= Cardinality(T)
    BY <1>2, <1>3, FS_Subset
<1>5. /\ IsFiniteSet(DoneSet(rows))
      /\ Cardinality(DoneSet(rows)) <= Cardinality(DoneSet(more))
    BY <1>2, <1>3, FS_Subset
<1>6. total \in Nat /\ Cardinality(S) \in Nat /\ Cardinality(T) \in Nat
    BY <1>1, <1>3, <1>4, FS_CardinalityType
<1>7. Cardinality(S) \in 0 .. total /\ Cardinality(T) \in 0 .. total
    BY <1>3, <1>4, <1>6
<1>8. Percent(Cardinality(S), total) <= Percent(Cardinality(T), total)
    BY <1>4, <1>6, <1>7, PercentGrows
<1>9. /\ Enrolled(rows).percent = Percent(Cardinality(S), total)
      /\ Enrolled(more).percent = Percent(Cardinality(T), total)
    BY DEF Enrolled
<1>10. Enrolled(rows).completed => Enrolled(more).completed
    BY <1>1, EnrolledType
<1>11. \A l : LessonComplete(rows, l) => LessonComplete(more, l)
    BY <1>1 DEF LessonComplete
<1>12. Cardinality(DoneSet(rows)) \in Nat /\ Cardinality(DoneSet(more)) \in Nat
    BY <1>3, <1>5, FS_CardinalityType
<1> QED BY <1>5, <1>8, <1>9, <1>10, <1>11, <1>12

\* Rows that do not differ in what is done give the same.
LEMMA EnrolledSame ==
    ASSUME NEW rows, NEW other, Blocks \subseteq All,
           \A m \in All : DoneIn(rows, m) <=> DoneIn(other, m)
    PROVE  /\ Enrolled(rows) = Enrolled(other) /\ DoneSet(rows) = DoneSet(other)
           /\ \A l : LessonComplete(rows, l) = LessonComplete(other, l)
<1>1. {m \in Blocks : DoneIn(rows, m)} = {m \in Blocks : DoneIn(other, m)}
    OBVIOUS
<1>2. (\A m \in Blocks : DoneIn(rows, m)) <=> (\A m \in Blocks : DoneIn(other, m))
    OBVIOUS
<1>3. Enrolled(rows) = Enrolled(other)
    BY <1>1, <1>2 DEF Enrolled
<1>4. DoneSet(rows) = DoneSet(other)
    BY DEF DoneSet
<1>5. \A l : LessonComplete(rows, l) <=> LessonComplete(other, l)
    BY DEF LessonComplete
<1>6. \A l : LessonComplete(rows, l) \in BOOLEAN /\ LessonComplete(other, l) \in BOOLEAN
    BY DEF LessonComplete
<1> QED BY <1>3, <1>4, <1>5, <1>6

LEMMA EnrolledNothing ==
    ASSUME doc \in Documents, NEW rows, \A m \in All : ~DoneIn(rows, m)
    PROVE  Enrolled(rows) = [percent |-> 0, completed |-> FALSE]
<1>1. IsFiniteSet(Blocks) /\ Blocks \subseteq All
    BY CourseFinite
<1>2. {m \in Blocks : DoneIn(rows, m)} = {} /\ ~(Blocks # {} /\ \A m \in Blocks : DoneIn(rows, m))
    BY <1>1
<1>3. Cardinality({m \in Blocks : DoneIn(rows, m)}) = 0 /\ Cardinality(Blocks) \in Nat
    BY <1>1, <1>2, FS_EmptySet, FS_CardinalityType
<1>4. Percent(0, Cardinality(Blocks)) = 0
    BY <1>3, PercentZero
<1> QED BY <1>2, <1>3, <1>4 DEF Enrolled

LEMMA RowShapes ==
    /\ BlankRow \in Rows
    /\ \A m : /\ ImportedRow(m) \in Rows
              /\ ImportedRow(m).done /\ ImportedRow(m).imported
              /\ ImportedRow(m).verdict = "unknown"
BY DEF BlankRow, ImportedRow, Rows, Verdicts

LEMMA LessonFlags == \A rows, l : LessonComplete(rows, l) \in BOOLEAN
BY DEF LessonComplete

LEMMA LearningStarts == LearningInit => LearningInv
<1> SUFFICES ASSUME LearningInit PROVE LearningInv
    OBVIOUS
<1>1. \A m \in All : row[m] = IF Imported(m) THEN ImportedRow(m) ELSE None
    BY DEF LearningInit
<1>2. row \in [All -> Rows \cup {None}]
    <2>1. row = [m \in All |-> IF Imported(m) THEN ImportedRow(m) ELSE None]
        BY DEF LearningInit
    <2>2. \A m \in All : (IF Imported(m) THEN ImportedRow(m) ELSE None) \in Rows \cup {None}
        BY RowShapes
    <2> QED BY <2>1, <2>2
<1>3. doc \in Documents /\ WellFormed(doc) /\ (doc.legacy # None \/ Complete(doc))
    BY DEF LearningInit
<1>4. enrollment \in Percents \cup {None}
    BY <1>3, EnrolledType DEF LearningInit
<1>5. lessonDone \in [LessonsOf -> BOOLEAN \cup {None}]
    BY LessonFlags DEF LearningInit
<1>6. \A m \in All : DoneIn(row, m) => row[m].imported
    BY <1>1, RowShapes DEF DoneIn
<1>7. \A m \in All : row[m] # None =>
         row[m].done /\ row[m].imported /\ row[m].verdict = "unknown" /\ doc.legacy # None
    BY <1>1, RowShapes DEF Imported
<1>8. doc.legacy # None => enrollment # None
    BY <1>3, EnrolledType, LearningConstants DEF LearningInit, Percents
<1>9. Types
    <2>1. now \in Times
        BY LearningConstants DEF LearningInit, Times
    <2>2. events \in [All -> Seq(Reviews)] /\ \A m \in All : Len(events[m]) <= MaxEvents
        BY LearningConstants DEF LearningInit
    <2>3. /\ accepted \in [All -> Sources \cup {None}] /\ quizAttempts \in [All -> Nat]
          /\ review \in [All -> Verdicts \cup {None}] /\ achievements \subseteq Achievements
          /\ request \in [Tabs -> Answered \cup {None}] /\ job \in Filed \cup {None}
        BY DEF LearningInit
    <2> QED BY <1>2, <1>3, <1>4, <1>5, <2>1, <2>2, <2>3 DEF Types
<1>10. Begun
    BY <1>7, <1>8 DEF Begun, LearningInit
<1>11. Agreed
    <2>1. enrollment # None => enrollment = Enrolled(row)
        BY DEF LearningInit
    <2>2. \A l \in LessonsOf : lessonDone[l] = TRUE => LessonComplete(row, l)
        BY LearningConstants DEF LearningInit
    <2>3. \A m \in All : row[m] # None => row[m].imported
        BY <1>7
    <2>4. \A m \in All : quizAttempts[m] = 0
        BY DEF LearningInit
    <2>5. achievements = {}
        BY DEF LearningInit
    <2> QED BY <2>1, <2>2, <2>3, <2>4, <2>5 DEF Agreed, Done, DoneIn
<1>12. Chained
    <2> SUFFICES ASSUME NEW m \in All
                 PROVE  IF Done(m) THEN Journal(row[m].verdict, events[m], Effective(m))
                        ELSE review[m] = None /\ events[m] = << >>
        BY DEF Chained
    <2>1. review[m] = None /\ events[m] = << >>
        BY DEF LearningInit
    <2>2. Effective(m) = row[m].verdict
        BY <2>1 DEF Effective
    <2>3. Journal(row[m].verdict, << >>, row[m].verdict)
        BY DEF Journal
    <2> QED BY <2>1, <2>2, <2>3
<1> QED BY <1>9, <1>10, <1>11, <1>12 DEF LearningInv

(***************************************************************************)
(* Steps that leave the rows alone, and the opening of a block.            *)
(***************************************************************************)
\* What a step does to the rows: what is done stays, a clock that runs is not
\* set back, and nothing begun disappears.
RowsKept ==
    /\ doc' = doc /\ row' \in [All -> Rows \cup {None}]
    /\ \A m \in All : row[m] # None =>
          /\ row'[m] # None /\ row'[m].opened = row[m].opened
          /\ row[m].done => row'[m] = row[m]

\* Only the rows that are not done differ, and none of them is done.
NoneFinished ==
    /\ doc' = doc
    /\ \A m \in All : DoneIn(row', m) <=> DoneIn(row, m)
    /\ \A m \in All : DoneIn(row, m) => row'[m] = row[m]

LEMMA ChainedKept ==
    ASSUME Types, Chained, NoneFinished, UNCHANGED reviewVars
    PROVE  Chained'
<1> SUFFICES ASSUME NEW m \in All
             PROVE  (IF Done(m) THEN Journal(row[m].verdict, events[m], Effective(m))
                     ELSE review[m] = None /\ events[m] = << >>)'
    BY SameCourse DEF Chained, NoneFinished
<1>1. Done(m)' <=> Done(m)
    BY DEF NoneFinished, Done, DoneIn
<1>2. Done(m) => row'[m] = row[m]
    BY DEF NoneFinished, Done
<1>3. review' = review /\ events' = events
    BY DEF reviewVars
<1>4. IF Done(m) THEN Journal(row[m].verdict, events[m], Effective(m))
      ELSE review[m] = None /\ events[m] = << >>
    BY DEF Chained
<1>5. CASE Done(m)
    <2>1. Effective(m)' = Effective(m)
        BY <1>2, <1>3, <1>5 DEF Effective
    <2>2. Journal(row'[m].verdict, events'[m], Effective(m)')
        BY <1>2, <1>3, <1>4, <1>5, <2>1
    <2> QED BY <1>1, <1>5, <2>2 DEF Journal
<1>6. CASE ~Done(m)
    BY <1>1, <1>3, <1>4, <1>6
<1> QED BY <1>5, <1>6

LEMMA AgreedKept ==
    ASSUME Types, Begun, Agreed, NoneFinished, UNCHANGED <<lessonDone, achievements>>,
           \/ enrollment' = enrollment
           \/ enrollment = None /\ enrollment' = [percent |-> 0, completed |-> FALSE],
           \A m \in All : /\ row'[m] # None /\ ~row'[m].imported /\ Kind(doc, m) = "quiz" =>
                                quizAttempts'[m] = row'[m].attempts
                          /\ row'[m] = None => quizAttempts'[m] = 0
    PROVE  Agreed'
<1>1. doc \in Documents /\ doc' = doc /\ Blocks \subseteq All
    BY CourseFinite DEF Types, NoneFinished
<1>2. /\ Enrolled(row') = Enrolled(row) /\ DoneSet(row') = DoneSet(row)
      /\ \A l : LessonComplete(row', l) = LessonComplete(row, l)
    BY <1>1, EnrolledSame DEF NoneFinished
<1>3. /\ All' = All /\ LessonsOf' = LessonsOf /\ Enrolled(row)' = Enrolled(row)
      /\ DoneSet(row)' = DoneSet(row)
      /\ \A l : LessonComplete(row, l)' = LessonComplete(row, l)
    BY <1>1, <1>2, SameCourse
<1>4. enrollment' # None => enrollment' = Enrolled(row)
    <2>1. CASE enrollment' = enrollment
        BY <2>1 DEF Agreed
    <2>2. CASE enrollment = None /\ enrollment' = [percent |-> 0, completed |-> FALSE]
        <3>1. \A m \in All : ~DoneIn(row, m)
            BY <2>2 DEF Begun, DoneIn
        <3> QED BY <1>1, <2>2, <3>1, EnrolledNothing
    <2> QED BY <2>1, <2>2
<1>5. /\ \A a \in achievements : Cardinality(DoneSet(row)) >= a[2]
      /\ <<"course_complete", 1>> \in achievements => Enrolled(row).completed
      /\ \A l \in LessonsOf : lessonDone[l] = TRUE => LessonComplete(row, l)
    BY DEF Agreed
<1>6. (\E m \in All : Done(m)' /\ ~row'[m].imported) =>
         \A l \in LessonsOf : lessonDone[l] = LessonComplete(row, l)
    <2> SUFFICES ASSUME NEW m \in All, Done(m)', ~row'[m].imported
                 PROVE  \A l \in LessonsOf : lessonDone[l] = LessonComplete(row, l)
        OBVIOUS
    <2>1. DoneIn(row', m)
        BY DEF Done, DoneIn
    <2>2. Done(m) /\ ~row[m].imported
        BY <2>1 DEF NoneFinished, Done
    <2> QED BY <2>2 DEF Agreed
<1>7. /\ enrollment' # None => enrollment' = Enrolled(row)'
      /\ \A a \in achievements' : Cardinality(DoneSet(row)') >= a[2]
      /\ <<"course_complete", 1>> \in achievements' => Enrolled(row)'.completed
      /\ \A l \in LessonsOf' : lessonDone'[l] = TRUE => LessonComplete(row, l)'
      /\ (\E m \in All' : Done(m)' /\ ~row'[m].imported) =>
             \A l \in LessonsOf' : lessonDone'[l] = LessonComplete(row, l)'
      /\ \A m \in All' : row'[m] # None /\ ~row'[m].imported /\ Kind(doc', m) = "quiz" =>
             quizAttempts'[m] = row'[m].attempts
      /\ \A m \in All' : row'[m] = None => quizAttempts'[m] = 0
    BY <1>1, <1>3, <1>4, <1>5, <1>6
<1> QED BY <1>7 DEF Agreed

\* What every step keeps.
Kept ==
    /\ LearningInv' /\ RowsKept
    /\ \A m \in All : Done(m) => accepted'[m] = accepted[m]

LEMMA RowsAlone ==
    ASSUME Types, doc' = doc, row' = row
    PROVE  NoneFinished /\ RowsKept
BY DEF Types, NoneFinished, RowsKept, DoneIn

LEMMA KeepsEnrol ==
    ASSUME LearningInv, Enrol
    PROVE  Kept
<1>1. /\ enrollment = None /\ enrollment' = [percent |-> 0, completed |-> FALSE]
      /\ UNCHANGED <<doc, now, row, lessonDone, achievements, accepted, quizAttempts,
                     reviewVars, request, job>>
    BY DEF Enrol
<1>2. Types /\ Begun /\ Agreed /\ Chained
    BY DEF LearningInv
<1>3. NoneFinished /\ RowsKept
    BY <1>1, <1>2, RowsAlone
<1>4. All' = All /\ LessonsOf' = LessonsOf
    BY <1>1, SameCourse
<1>5. enrollment' \in Percents
    BY <1>1 DEF Percents
<1>6. Types'
    BY <1>1, <1>2, <1>4, <1>5 DEF Types, Answered, Filed, reviewVars
<1>7. Begun'
    BY <1>1, <1>2, <1>4, <1>5, LearningConstants DEF Begun, Percents
<1>8. Agreed'
    <2>1. \A m \in All : /\ row'[m] # None /\ ~row'[m].imported /\ Kind(doc, m) = "quiz" =>
                                quizAttempts'[m] = row'[m].attempts
                         /\ row'[m] = None => quizAttempts'[m] = 0
        BY <1>1, <1>2 DEF Agreed
    <2> QED BY <1>1, <1>2, <1>3, <2>1, AgreedKept
<1>9. Chained'
    BY <1>1, <1>2, <1>3, ChainedKept
<1> QED BY <1>1, <1>3, <1>6, <1>7, <1>8, <1>9 DEF Kept, LearningInv

\* Steps that change no row, none of what is recomputed and no review.
LEMMA KeepsQuiet ==
    ASSUME LearningInv, doc' = doc, UNCHANGED <<progressVars, accepted, quizAttempts, reviewVars>>
    PROVE  /\ Agreed' /\ Chained' /\ RowsKept /\ All' = All
           /\ \A m \in All : Done(m) => accepted'[m] = accepted[m]
           /\ now' \in Times /\ request' \in [Tabs -> Answered \cup {None}]
              /\ job' \in Filed \cup {None} => Types'
<1>1. UNCHANGED <<enrollment, row, lessonDone, achievements, accepted, quizAttempts>>
    BY DEF progressVars
<1>2. Types /\ Begun /\ Agreed /\ Chained
    BY DEF LearningInv
<1>3. NoneFinished /\ RowsKept
    BY <1>1, <1>2, RowsAlone
<1>4. All' = All /\ LessonsOf' = LessonsOf
    BY SameCourse
<1>5. Agreed'
    <2>1. \A m \in All : /\ row'[m] # None /\ ~row'[m].imported /\ Kind(doc, m) = "quiz" =>
                                quizAttempts'[m] = row'[m].attempts
                         /\ row'[m] = None => quizAttempts'[m] = 0
        BY <1>1, <1>2 DEF Agreed
    <2> QED BY <1>1, <1>2, <1>3, <2>1, AgreedKept
<1>6. Chained'
    BY <1>2, <1>3, ChainedKept
<1>7. now' \in Times /\ request' \in [Tabs -> Answered \cup {None}]
      /\ job' \in Filed \cup {None} => Types'
    BY <1>1, <1>2, <1>4 DEF Types, Answered, Filed, reviewVars
<1> QED BY <1>1, <1>3, <1>4, <1>5, <1>6, <1>7

LEMMA KeepsTick ==
    ASSUME LearningInv, Tick
    PROVE  Kept
<1>1. /\ now < MaxTime /\ now' = now + 1 /\ doc' = doc
      /\ UNCHANGED <<progressVars, accepted, quizAttempts, reviewVars, request, job>>
    BY DEF Tick
<1>2. Types /\ Begun
    BY DEF LearningInv
<1>3. /\ Agreed' /\ Chained' /\ RowsKept /\ All' = All
      /\ \A m \in All : Done(m) => accepted'[m] = accepted[m]
      /\ now' \in Times /\ request' \in [Tabs -> Answered \cup {None}]
         /\ job' \in Filed \cup {None} => Types'
    BY <1>1, KeepsQuiet
<1>4. now' \in Times
    BY <1>1, <1>2, LearningConstants DEF Types, Times
<1>5. Types'
    BY <1>1, <1>2, <1>3, <1>4 DEF Types
<1>6. Begun'
    BY <1>1, <1>2, <1>3 DEF Begun, progressVars
<1> QED BY <1>3, <1>5, <1>6 DEF Kept, LearningInv

LEMMA KeepsReceive ==
    ASSUME LearningInv, NEW t \in Tabs, Receive(t)
    PROVE  Kept
<1>1. /\ doc' = doc /\ now' = now
      /\ UNCHANGED <<progressVars, accepted, quizAttempts, reviewVars, job>>
    BY DEF Receive
<1>2. Types /\ Begun
    BY DEF LearningInv
<1>3. PICK m \in All, passed \in BOOLEAN :
         /\ Kind(doc, m) # "code"
         /\ request' = [request EXCEPT ![t] = [block |-> m, at |-> now, passed |-> passed]]
    <2>1. PICK m \in All :
             /\ Kind(doc, m) # "code"
             /\ \E passed \in IF Kind(doc, m) = "quiz"
                              THEN {Passes(StepOf(doc, m), a) : a \in Answers(StepOf(doc, m))} ELSE {TRUE} :
                   request' = [request EXCEPT ![t] = [block |-> m, at |-> now, passed |-> passed]]
        BY DEF Receive
    <2>2. \A a : Passes(StepOf(doc, m), a) \in BOOLEAN
        BY DEF Passes
    <2> QED BY <2>1, <2>2
<1>4. /\ Agreed' /\ Chained' /\ RowsKept /\ All' = All
      /\ \A k \in All : Done(k) => accepted'[k] = accepted[k]
      /\ now' \in Times /\ request' \in [Tabs -> Answered \cup {None}]
         /\ job' \in Filed \cup {None} => Types'
    BY <1>1, KeepsQuiet
<1>5. request' \in [Tabs -> Answered \cup {None}]
    BY <1>2, <1>3 DEF Types, Answered
<1>6. Types'
    BY <1>1, <1>2, <1>4, <1>5 DEF Types
<1>7. Begun'
    <2>1. \A k \in Tabs : request'[k] # None => Kind(doc, request'[k].block) # "code"
        BY <1>2, <1>3 DEF Types, Begun
    <2> QED BY <1>1, <1>2, <1>4, <2>1 DEF Begun, progressVars
<1> QED BY <1>4, <1>6, <1>7 DEF Kept, LearningInv

LEMMA KeepsSubmit ==
    ASSUME LearningInv, NEW m \in All, Submit(m)
    PROVE  Kept
<1>1. /\ doc' = doc /\ now' = now /\ HasTask(doc, m) /\ row[m] # None
      /\ UNCHANGED <<progressVars, accepted, quizAttempts, reviewVars, request>>
    BY DEF Submit
<1>2. Types /\ Begun
    BY DEF LearningInv
<1>3. PICK source \in Sources : job' = [block |-> m, at |-> now, source |-> source]
    BY DEF Submit
<1>4. /\ Agreed' /\ Chained' /\ RowsKept /\ All' = All
      /\ \A k \in All : Done(k) => accepted'[k] = accepted[k]
      /\ now' \in Times /\ request' \in [Tabs -> Answered \cup {None}]
         /\ job' \in Filed \cup {None} => Types'
    BY <1>1, KeepsQuiet
<1>5. Types'
    BY <1>1, <1>2, <1>3, <1>4 DEF Types, Filed
<1>6. Begun'
    BY <1>1, <1>2, <1>3, <1>4 DEF Begun, progressVars
<1> QED BY <1>4, <1>5, <1>6 DEF Kept, LearningInv

\* A change of the mark in force becomes the last entry of the journal.
LEMMA JournalGrows ==
    ASSUME NEW list \in Seq(Reviews), NEW first, NEW last, NEW next \in Reviews,
           Journal(first, list, last), next.before = last
    PROVE  Journal(first, Append(list, next), next.after)
<1> DEFINE n == Len(list)
           longer == Append(list, next)
<1>1. n \in Nat /\ Len(longer) = n + 1 /\ longer # << >>
    BY AppendProperties
<1>2. (\A i \in 1 .. n : longer[i] = list[i]) /\ longer[n + 1] = next
    BY AppendProperties
<1>3. list = << >> <=> n = 0
    BY EmptySeq
<1>4. /\ \A i \in 1 .. n : list[i].before = IF i = 1 THEN first ELSE list[i - 1].after
      /\ last = IF n = 0 THEN first ELSE list[n].after
    BY <1>3 DEF Journal
<1> HIDE DEF n, longer
<1>5. ASSUME NEW i \in 1 .. n + 1
      PROVE  longer[i].before = IF i = 1 THEN first ELSE longer[i - 1].after
    <2>1. CASE i \in 1 .. n
        <3>1. i # 1 => i - 1 \in 1 .. n
            BY <1>1, <2>1
        <3> QED BY <1>2, <1>4, <2>1, <3>1
    <2>2. CASE i = n + 1 /\ n = 0
        BY <1>2, <1>4, <2>2
    <2>3. CASE i = n + 1 /\ n # 0
        <3>1. i - 1 = n /\ n \in 1 .. n /\ i # 1
            BY <1>1, <2>3
        <3> QED BY <1>2, <1>4, <2>3, <3>1
    <2> QED BY <1>1, <2>1, <2>2, <2>3
<1>6. /\ \A i \in 1 .. Len(longer) : longer[i].before = IF i = 1 THEN first ELSE longer[i - 1].after
      /\ next.after = IF longer = << >> THEN first ELSE longer[Len(longer)].after
    BY <1>1, <1>2, <1>5
<1> QED BY <1>6 DEF Journal, longer

LEMMA KeepsReview ==
    ASSUME LearningInv, NEW m \in All, NEW value \in Verdicts \cup {"reset"}, Review(m, value)
    PROVE  Kept
<1> DEFINE after == IF value = "reset" THEN row[m].verdict ELSE value
           entry == [before |-> Effective(m), after |-> after]
<1>1. /\ Done(m) /\ Len(events[m]) < MaxEvents
      /\ events' = [events EXCEPT ![m] = Append(@, entry)]
      /\ review' = [review EXCEPT ![m] = IF value = "reset" THEN None ELSE value]
      /\ UNCHANGED <<doc, now, enrollment, row, lessonDone, achievements, accepted, quizAttempts,
                     request, job>>
    BY DEF Review, record_review, Before, progressVars
<1>2. Types /\ Begun /\ Agreed /\ Chained
    BY DEF LearningInv
<1>3. NoneFinished /\ RowsKept
    BY <1>1, <1>2, RowsAlone
<1>4. All' = All /\ LessonsOf' = LessonsOf
    BY <1>1, SameCourse
<1>5. row[m] \in Rows /\ row[m].verdict \in Verdicts
    BY <1>1, <1>2 DEF Types, Done, DoneIn, Rows
<1>6. Effective(m) \in Verdicts /\ after \in Verdicts
    BY <1>2, <1>5 DEF Types, Effective
<1>7. entry \in Reviews /\ entry.before = Effective(m) /\ entry.after = after
    BY <1>6 DEF Reviews
<1>8. events[m] \in Seq(Reviews)
    BY <1>2 DEF Types
<1> HIDE DEF entry, after
<1>9. Append(events[m], entry) \in Seq(Reviews) /\ Len(Append(events[m], entry)) <= MaxEvents
    BY <1>1, <1>7, <1>8, LearningConstants
<1>10. /\ events' \in [All -> Seq(Reviews)] /\ events'[m] = Append(events[m], entry)
       /\ \A k \in All \ {m} : events'[k] = events[k]
    BY <1>1, <1>2, <1>9 DEF Types
<1>11. /\ review' \in [All -> Verdicts \cup {None}]
       /\ review'[m] = IF value = "reset" THEN None ELSE value
       /\ \A k \in All \ {m} : review'[k] = review[k]
    BY <1>1, <1>2 DEF Types
<1>12. Types'
    <2>1. \A k \in All : Len(events'[k]) <= MaxEvents
        BY <1>2, <1>9, <1>10 DEF Types
    <2> QED BY <1>1, <1>2, <1>4, <1>10, <1>11, <2>1 DEF Types, Answered, Filed
<1>13. Begun'
    BY <1>1, <1>2, <1>4 DEF Begun
<1>14. Agreed'
    <2>1. \A k \in All : /\ row'[k] # None /\ ~row'[k].imported /\ Kind(doc, k) = "quiz" =>
                                quizAttempts'[k] = row'[k].attempts
                         /\ row'[k] = None => quizAttempts'[k] = 0
        BY <1>1, <1>2 DEF Agreed
    <2> QED BY <1>1, <1>2, <1>3, <2>1, AgreedKept
<1>15. Chained'
    <2> SUFFICES ASSUME NEW k \in All
                 PROVE  (IF Done(k) THEN Journal(row[k].verdict, events[k], Effective(k))
                         ELSE review[k] = None /\ events[k] = << >>)'
        BY <1>4 DEF Chained
    <2>1. (Done(k))' <=> Done(k)
        BY <1>1 DEF Done, DoneIn
    <2>2. IF Done(k) THEN Journal(row[k].verdict, events[k], Effective(k))
          ELSE review[k] = None /\ events[k] = << >>
        BY <1>2 DEF Chained
    <2>3. CASE k = m
        <3>1. Journal(row[m].verdict, Append(events[m], entry), after)
            BY <1>1, <1>7, <1>8, <2>2, <2>3, JournalGrows
        <3>2. Effective(m)' = after
            BY <1>1, <1>11, LearningConstants DEF Effective, after
        <3>3. (Journal(row[m].verdict, events[m], Effective(m)))'
            BY <1>1, <1>10, <3>1, <3>2 DEF Journal
        <3> QED BY <1>1, <2>1, <2>3, <3>3
    <2>4. CASE k # m
        <3>1. events'[k] = events[k] /\ review'[k] = review[k] /\ row'[k] = row[k]
            BY <1>1, <1>10, <1>11, <2>4
        <3>2. Effective(k)' = Effective(k)
            BY <3>1 DEF Effective
        <3> QED BY <2>1, <2>2, <3>1, <3>2 DEF Journal
    <2> QED BY <2>3, <2>4
<1>16. \A k \in All : Done(k) => accepted'[k] = accepted[k]
    BY <1>1
<1> QED BY <1>3, <1>12, <1>13, <1>14, <1>15, <1>16 DEF Kept, LearningInv

\* A row that is there is left as it is: its clock runs, or it is done.
LEMMA OpenedRow ==
    ASSUME Types, Begun, NEW m \in All
    PROVE  /\ Opened(m) \in Rows
           /\ row[m] # None => Opened(m) = row[m]
           /\ row[m] = None => /\ Opened(m).opened # None /\ ~Opened(m).done
                               /\ Opened(m).verdict = "unknown" /\ Opened(m).attempts = 0
<1>1. now \in Times /\ now # None
    BY LearningConstants DEF Types, Times
<1>2. CASE row[m] = None
    <2>1. Opened(m) = [BlankRow EXCEPT !.opened = now]
        BY <1>2 DEF Opened, BlankRow
    <2>2. Opened(m) \in Rows
        BY <1>1, <2>1, RowShapes DEF Rows
    <2>3. /\ Opened(m).opened = now /\ ~Opened(m).done
          /\ Opened(m).verdict = "unknown" /\ Opened(m).attempts = 0
        BY <2>1 DEF BlankRow
    <2> QED BY <1>1, <1>2, <2>2, <2>3
<1>3. CASE row[m] # None
    <2>1. row[m] \in Rows /\ (row[m].done \/ row[m].opened # None)
        BY <1>3 DEF Types, Begun
    <2> QED BY <1>3, <2>1 DEF Opened
<1> QED BY <1>2, <1>3

LEMMA KeepsStart ==
    ASSUME LearningInv, NEW m \in All, Start(m)
    PROVE  Kept
<1>1. /\ enrollment # None /\ row' = [row EXCEPT ![m] = Opened(m)]
      /\ UNCHANGED <<doc, now, enrollment, lessonDone, achievements, accepted, quizAttempts,
                     review, events, request, job>>
    BY DEF Start, Authorized, reviewVars
<1>2. Types /\ Begun /\ Agreed /\ Chained
    BY DEF LearningInv
<1>3. /\ Opened(m) \in Rows
      /\ row[m] # None => Opened(m) = row[m]
      /\ row[m] = None => /\ Opened(m).opened # None /\ ~Opened(m).done
                          /\ Opened(m).verdict = "unknown" /\ Opened(m).attempts = 0
    BY <1>2, OpenedRow
<1>4. All' = All /\ LessonsOf' = LessonsOf
    BY <1>1, SameCourse
<1>5. /\ row' \in [All -> Rows \cup {None}] /\ row'[m] = Opened(m) /\ row'[m] # None
      /\ \A k \in All \ {m} : row'[k] = row[k]
    BY <1>1, <1>2, <1>3, LearningConstants DEF Types
<1>6. NoneFinished /\ RowsKept
    BY <1>1, <1>3, <1>5 DEF NoneFinished, RowsKept, DoneIn
<1>7. Types'
    BY <1>1, <1>2, <1>4, <1>5 DEF Types, Answered, Filed
<1>8. Begun'
    <2>1. \A k \in All : row'[k] # None =>
             /\ row'[k].done \/ row'[k].opened # None
             /\ row'[k].verdict # "unknown" => row'[k].done
        BY <1>2, <1>3, <1>5 DEF Begun
    <2>2. job # None => job.block \in All
        BY <1>2 DEF Types, Filed
    <2> QED BY <1>1, <1>2, <1>4, <1>5, <2>1, <2>2 DEF Begun
<1>9. Agreed'
    <2>1. \A k \in All : /\ row'[k] # None /\ ~row'[k].imported /\ Kind(doc, k) = "quiz" =>
                                quizAttempts'[k] = row'[k].attempts
                         /\ row'[k] = None => quizAttempts'[k] = 0
        BY <1>1, <1>2, <1>3, <1>5 DEF Agreed
    <2> QED BY <1>1, <1>2, <1>6, <2>1, AgreedKept
<1>10. Chained'
    BY <1>1, <1>2, <1>6, ChainedKept DEF reviewVars
<1>11. \A k \in All : Done(k) => accepted'[k] = accepted[k]
    BY <1>1
<1> QED BY <1>6, <1>7, <1>8, <1>9, <1>10, <1>11 DEF Kept, LearningInv

(***************************************************************************)
(* An attempt, and the completion of a block.                              *)
(***************************************************************************)
LEMMA EvaluateType ==
    ASSUME NEW kind, NEW elapsed, NEW source
    PROVE  /\ evaluate(kind, elapsed, source).verdict \in Verdicts
           /\ \/ evaluate(kind, elapsed, source).comments = None
              \/ /\ kind = "code" /\ source # None
                 /\ evaluate(kind, elapsed, source).comments = cpp_comment_count(source)
BY DEF evaluate, Verdicts

\* The program of an attempt at a block, as the mark is computed from it.
Read(m, source) == Kind(doc, m) # "code" \/ \E s \in Sources : source = Text(s)

LEMMA FinishedRow ==
    ASSUME Types, Begun, NEW m \in All, row[m] # None, ~row[m].done,
           NEW at \in Times, NEW source, Read(m, source)
    PROVE  LET tried == [row[m] EXCEPT !.attempts = @ + 1]
               finished == Finished(m, tried, at, source)
           IN  /\ tried \in Rows /\ finished \in Rows /\ finished.done
               /\ ~tried.done
               /\ tried.opened = row[m].opened /\ finished.opened = row[m].opened
               /\ tried.opened # None /\ tried.verdict = row[m].verdict
               /\ tried.attempts = row[m].attempts + 1
               /\ finished.attempts = row[m].attempts + 1
               /\ tried.imported = row[m].imported /\ finished.imported = row[m].imported
<1> DEFINE r == row[m]
           tried == [r EXCEPT !.attempts = @ + 1]
           mark == evaluate(Kind(doc, m), at - tried.opened, source)
           spent == Max({0, at - tried.opened})
           finished == [tried EXCEPT !.submitted = at, !.done = TRUE, !.elapsed = spent,
                                     !.verdict = mark.verdict, !.comments = mark.comments]
<1>1. r \in Rows /\ r.opened # None
    BY DEF Types, Begun
<1>2. /\ tried \in Rows /\ tried.opened = r.opened /\ tried.verdict = r.verdict
      /\ tried.attempts = r.attempts + 1 /\ tried.imported = r.imported /\ tried.done = r.done
    BY <1>1 DEF Rows
<1>3. tried.opened \in Times /\ tried.opened # None
    BY <1>1, <1>2 DEF Rows
<1>4. spent \in Times
    <2>1. at - tried.opened \in Int /\ at - tried.opened <= MaxTime
        BY <1>3, LearningConstants DEF Times
    <2>2. \A x \in Int : Max({0, x}) = IF 0 >= x THEN 0 ELSE x
        BY MaxOfTwo
    <2>3. spent = IF 0 >= at - tried.opened THEN 0 ELSE at - tried.opened
        BY <2>1, <2>2
    <2> HIDE DEF spent
    <2> QED BY <2>1, <2>3, LearningConstants DEF Times
<1>5. mark.verdict \in Verdicts /\ mark.comments \in Counts \cup {None}
    <2>1. /\ mark.verdict \in Verdicts
          /\ \/ mark.comments = None
             \/ /\ Kind(doc, m) = "code" /\ source # None
                /\ mark.comments = cpp_comment_count(source)
        BY EvaluateType
    <2> QED BY <2>1 DEF Read, Counts
<1>6. finished = Finished(m, tried, at, source)
    BY DEF Finished
<1> HIDE DEF mark, spent
<1>7. /\ finished \in Rows /\ finished.done /\ finished.opened = tried.opened
      /\ finished.attempts = tried.attempts /\ finished.imported = tried.imported
    BY <1>2, <1>4, <1>5 DEF Rows
<1> QED BY <1>2, <1>3, <1>6, <1>7

\* What an attempt at a block that is not done does to the rows.
Attempt(m, passed) ==
    /\ doc' = doc /\ row' \in [All -> Rows \cup {None}]
    /\ row[m] # None /\ ~row[m].done
    /\ row'[m] \in Rows /\ row'[m] # None
    /\ row'[m].done <=> passed
    /\ row'[m].opened = row[m].opened /\ row'[m].opened # None
    /\ row'[m].attempts = row[m].attempts + 1 /\ row'[m].imported = row[m].imported
    /\ ~passed => row'[m].verdict = row[m].verdict
    /\ \A k \in All \ {m} : row'[k] = row[k]

LEMMA FinishIsAttempt ==
    ASSUME Types, Begun, doc' = doc, NEW m \in All, row[m] # None, ~row[m].done,
           NEW at \in Times, NEW source, Read(m, source), NEW passed \in BOOLEAN,
           Finish(m, row[m], at, source, passed)
    PROVE  Attempt(m, passed)
<1> DEFINE tried == [row[m] EXCEPT !.attempts = @ + 1]
           finished == Finished(m, tried, at, source)
<1>1. /\ tried \in Rows /\ finished \in Rows /\ finished.done
      /\ ~tried.done
      /\ tried.opened = row[m].opened /\ finished.opened = row[m].opened
      /\ tried.opened # None /\ tried.verdict = row[m].verdict
      /\ tried.attempts = row[m].attempts + 1
      /\ finished.attempts = row[m].attempts + 1
      /\ tried.imported = row[m].imported /\ finished.imported = row[m].imported
    BY FinishedRow
<1>2. row' = [row EXCEPT ![m] = IF passed THEN finished ELSE tried]
    BY DEF Finish, Recalculate
<1> HIDE DEF tried, finished
<1>3. /\ row' \in [All -> Rows \cup {None}]
      /\ row'[m] = IF passed THEN finished ELSE tried
      /\ \A k \in All \ {m} : row'[k] = row[k]
    BY <1>1, <1>2 DEF Types
<1> QED BY <1>1, <1>3, LearningConstants DEF Attempt

LEMMA AttemptKeepsRows ==
    ASSUME Types, Begun, Chained, NEW m \in All, NEW passed \in BOOLEAN, Attempt(m, passed)
    PROVE  /\ RowsKept
           /\ \A k \in All : DoneIn(row, k) => DoneIn(row', k)
           /\ ~passed => NoneFinished
           /\ \A k \in All : row'[k] # None =>
                 /\ enrollment # None
                 /\ row'[k].done \/ row'[k].opened # None
                 /\ row'[k].verdict # "unknown" => row'[k].done
           /\ UNCHANGED reviewVars => Chained'
<1>1. RowsKept
    BY DEF Attempt, RowsKept
<1>2. \A k \in All : DoneIn(row, k) => DoneIn(row', k)
    BY DEF Attempt, DoneIn
<1>3. ~passed => NoneFinished
    BY DEF Attempt, NoneFinished, DoneIn
<1>4. \A k \in All : row'[k] # None =>
         /\ enrollment # None
         /\ row'[k].done \/ row'[k].opened # None
         /\ row'[k].verdict # "unknown" => row'[k].done
    BY DEF Attempt, Begun
<1>5. ASSUME UNCHANGED reviewVars PROVE Chained'
    <2> SUFFICES ASSUME NEW k \in All
                 PROVE  (IF Done(k) THEN Journal(row[k].verdict, events[k], Effective(k))
                         ELSE review[k] = None /\ events[k] = << >>)'
        BY SameCourse DEF Chained, Attempt
    <2>1. review' = review /\ events' = events
        BY <1>5 DEF reviewVars
    <2>2. IF Done(k) THEN Journal(row[k].verdict, events[k], Effective(k))
          ELSE review[k] = None /\ events[k] = << >>
        BY DEF Chained
    <2>3. CASE k = m
        <3>1. review[m] = None /\ events[m] = << >>
            BY <2>2, <2>3 DEF Attempt, Done, DoneIn
        <3>2. Effective(m)' = row'[m].verdict
            BY <2>1, <3>1 DEF Effective
        <3>3. Journal(row'[m].verdict, << >>, row'[m].verdict)
            BY DEF Journal
        <3>4. (Journal(row[m].verdict, events[m], Effective(m)))'
            BY <2>1, <3>1, <3>2, <3>3 DEF Journal
        <3> QED BY <2>1, <2>3, <3>1, <3>4
    <2>4. CASE k # m
        <3>1. row'[k] = row[k]
            BY <2>4 DEF Attempt
        <3>2. Effective(k)' = Effective(k) /\ (Done(k)' <=> Done(k))
            BY <2>1, <3>1 DEF Effective, Done, DoneIn
        <3> QED BY <2>1, <2>2, <3>1, <3>2 DEF Journal
    <2> QED BY <2>3, <2>4
<1> QED BY <1>1, <1>2, <1>3, <1>4, <1>5

LEMMA GrantedTrue ==
    ASSUME doc \in Documents, NEW rows, NEW m \in All, DoneIn(rows, m)
    PROVE  /\ Granted(rows) \subseteq Achievements
           /\ \A a \in Granted(rows) : Cardinality(DoneSet(rows)) >= a[2]
           /\ <<"course_complete", 1>> \in Granted(rows) => Enrolled(rows).completed
<1>1. IsFiniteSet(DoneSet(rows)) /\ DoneSet(rows) # {}
    <2>1. DoneSet(rows) \subseteq All /\ m \in DoneSet(rows)
        BY DEF DoneSet
    <2> QED BY <2>1, CourseFinite, FS_Subset
<1>2. Cardinality(DoneSet(rows)) \in Nat /\ Cardinality(DoneSet(rows)) >= 1
    BY <1>1, FS_CardinalityType, FS_EmptySet
<1>3. ASSUME NEW a \in Granted(rows)
      PROVE  /\ a \in Achievements /\ Cardinality(DoneSet(rows)) >= a[2]
             /\ a = <<"course_complete", 1>> => Enrolled(rows).completed
    <2>1. CASE a = <<"first_block", 1>>
        BY <1>2, <2>1 DEF Achievements
    <2>2. CASE \E n \in Milestones : a = <<"blocks", n>> /\ Cardinality(DoneSet(rows)) >= n
        BY <2>2, LearningConstants DEF Achievements
    <2>3. CASE a = <<"course_complete", 1>> /\ Enrolled(rows).completed
        BY <1>2, <2>3 DEF Achievements
    <2> QED BY <2>1, <2>2, <2>3 DEF Granted, DoneSet
<1> QED BY <1>3

\* A passed attempt: what is recomputed agrees with the new rows.
LEMMA AgreedPassed ==
    ASSUME Types, Begun, Agreed, NEW m \in All, Attempt(m, TRUE),
           \A k \in All : DoneIn(row, k) => DoneIn(row', k),
           enrollment' = Enrolled(row'),
           lessonDone' = [l \in LessonsOf |-> LessonComplete(row', l)],
           achievements' = achievements \cup Granted(row'),
           \A k \in All : /\ row'[k] # None /\ ~row'[k].imported /\ Kind(doc, k) = "quiz" =>
                                quizAttempts'[k] = row'[k].attempts
                          /\ row'[k] = None => quizAttempts'[k] = 0
    PROVE  /\ Agreed'
           /\ enrollment' \in Percents /\ achievements' \subseteq Achievements
           /\ lessonDone' \in [LessonsOf -> BOOLEAN \cup {None}]
<1>1. doc \in Documents /\ doc' = doc /\ achievements \subseteq Achievements
    BY DEF Types, Attempt
<1>2. /\ All' = All /\ LessonsOf' = LessonsOf /\ Enrolled(row)' = Enrolled(row')
      /\ DoneSet(row)' = DoneSet(row')
      /\ \A l : LessonComplete(row, l)' = LessonComplete(row', l)
    BY <1>1, SameCourse
<1>3. /\ Enrolled(row).completed => Enrolled(row').completed
      /\ Cardinality(DoneSet(row)) \in Nat /\ Cardinality(DoneSet(row')) \in Nat
      /\ Cardinality(DoneSet(row)) <= Cardinality(DoneSet(row'))
    BY <1>1, EnrolledGrows
<1>4. DoneIn(row', m)
    BY DEF Attempt, DoneIn
<1>5. /\ Granted(row') \subseteq Achievements
      /\ \A a \in Granted(row') : Cardinality(DoneSet(row')) >= a[2]
      /\ <<"course_complete", 1>> \in Granted(row') => Enrolled(row').completed
    BY <1>1, <1>4, GrantedTrue
<1>6. \A a \in achievements' : Cardinality(DoneSet(row')) >= a[2]
    <2>1. \A a \in achievements : Cardinality(DoneSet(row)) >= a[2] /\ a[2] \in Nat
        BY <1>1 DEF Agreed, Achievements
    <2> QED BY <1>3, <1>5, <2>1
<1>7. <<"course_complete", 1>> \in achievements' => Enrolled(row').completed
    BY <1>3, <1>5 DEF Agreed
<1>8. \A l \in LessonsOf : lessonDone'[l] = LessonComplete(row', l)
    OBVIOUS
<1>9. enrollment' \in Percents
    BY <1>1, EnrolledType
<1>10. lessonDone' \in [LessonsOf -> BOOLEAN \cup {None}]
    BY LessonFlags
<1>11. /\ enrollment' = Enrolled(row)'
       /\ \A a \in achievements' : Cardinality(DoneSet(row)') >= a[2]
       /\ <<"course_complete", 1>> \in achievements' => Enrolled(row)'.completed
       /\ \A l \in LessonsOf' : lessonDone'[l] = LessonComplete(row, l)'
       /\ \A k \in All' : row'[k] # None /\ ~row'[k].imported /\ Kind(doc', k) = "quiz" =>
              quizAttempts'[k] = row'[k].attempts
       /\ \A k \in All' : row'[k] = None => quizAttempts'[k] = 0
    BY <1>1, <1>2, <1>6, <1>7, <1>8
<1>12. Agreed'
    BY <1>11 DEF Agreed
<1> QED BY <1>1, <1>5, <1>9, <1>10, <1>12

\* Everything an attempt does but the marks of the reviewers and the queues.
LEMMA FinishKeeps ==
    ASSUME LearningInv, doc' = doc, UNCHANGED reviewVars, NEW m \in All, row[m] # None,
           NEW at \in Times, NEW source, Read(m, source), NEW passed \in BOOLEAN,
           Finish(m, row[m], at, source, passed), quizAttempts' \in [All -> Nat],
           \A k \in All \ {m} : quizAttempts'[k] = quizAttempts[k],
           Kind(doc, m) = "quiz" =>
              quizAttempts'[m] = IF row[m].done THEN quizAttempts[m] ELSE quizAttempts[m] + 1
    PROVE  /\ Agreed' /\ Chained' /\ RowsKept
           /\ enrollment' \in Percents \cup {None} /\ achievements' \subseteq Achievements
           /\ lessonDone' \in [LessonsOf -> BOOLEAN \cup {None}]
           /\ \A k \in All : row'[k] # None =>
                 /\ enrollment' # None
                 /\ row'[k].done \/ row'[k].opened # None
                 /\ row'[k].verdict # "unknown" => row'[k].done
<1>1. Types /\ Begun /\ Agreed /\ Chained
    BY DEF LearningInv
<1>2. CASE row[m].done
    <2>1. UNCHANGED <<enrollment, row, lessonDone, achievements>>
        BY <1>2 DEF Finish, progressVars
    <2>2. NoneFinished /\ RowsKept
        BY <1>1, <2>1, RowsAlone
    <2>3. Chained'
        BY <1>1, <2>2, ChainedKept
    <2>4. \A k \in All : /\ row'[k] # None /\ ~row'[k].imported /\ Kind(doc, k) = "quiz" =>
                                quizAttempts'[k] = row'[k].attempts
                         /\ row'[k] = None => quizAttempts'[k] = 0
        BY <1>1, <1>2, <2>1 DEF Agreed
    <2>5. Agreed'
        BY <1>1, <2>1, <2>2, <2>4, AgreedKept
    <2> QED BY <1>1, <2>1, <2>2, <2>3, <2>5 DEF Types, Begun
<1>3. CASE ~row[m].done
    <2>1. Attempt(m, passed)
        BY <1>1, <1>3, FinishIsAttempt
    <2>2. /\ RowsKept /\ Chained'
          /\ \A k \in All : DoneIn(row, k) => DoneIn(row', k)
          /\ ~passed => NoneFinished
          /\ \A k \in All : row'[k] # None =>
                /\ enrollment # None
                /\ row'[k].done \/ row'[k].opened # None
                /\ row'[k].verdict # "unknown" => row'[k].done
        BY <1>1, <2>1, AttemptKeepsRows
    <2>3. \A k \in All : /\ row'[k] # None /\ ~row'[k].imported /\ Kind(doc, k) = "quiz" =>
                                quizAttempts'[k] = row'[k].attempts
                         /\ row'[k] = None => quizAttempts'[k] = 0
        <3> SUFFICES ASSUME NEW k \in All
                     PROVE  /\ row'[k] # None /\ ~row'[k].imported /\ Kind(doc, k) = "quiz" =>
                                  quizAttempts'[k] = row'[k].attempts
                            /\ row'[k] = None => quizAttempts'[k] = 0
            OBVIOUS
        <3>1. CASE k = m
            BY <1>1, <1>3, <2>1, <3>1 DEF Attempt, Agreed
        <3>2. CASE k # m
            BY <1>1, <2>1, <3>2 DEF Attempt, Agreed
        <3> QED BY <3>1, <3>2
    <2>4. CASE passed
        <3>1. Recalculate([row EXCEPT ![m] =
                  Finished(m, [row[m] EXCEPT !.attempts = @ + 1], at, source)])
            BY <1>3, <2>4 DEF Finish
        <3>2. /\ enrollment' = Enrolled(row')
              /\ lessonDone' = [l \in LessonsOf |-> LessonComplete(row', l)]
              /\ achievements' = achievements \cup Granted(row')
            BY <3>1 DEF Recalculate, grant_achievement
        <3>3. Attempt(m, TRUE)
            BY <2>1, <2>4 DEF Attempt
        <3>4. /\ Agreed'
              /\ enrollment' \in Percents /\ achievements' \subseteq Achievements
              /\ lessonDone' \in [LessonsOf -> BOOLEAN \cup {None}]
            BY <1>1, <2>2, <2>3, <3>2, <3>3, AgreedPassed
        <3>5. enrollment' # None
            BY <3>4, LearningConstants DEF Percents
        <3> QED BY <2>2, <3>4, <3>5
    <2>5. CASE ~passed
        <3>1. UNCHANGED <<enrollment, lessonDone, achievements>>
            BY <1>3, <2>5 DEF Finish
        <3>2. Agreed'
            BY <1>1, <2>2, <2>3, <2>5, <3>1, AgreedKept
        <3> QED BY <1>1, <2>2, <3>1, <3>2 DEF Types
    <2> QED BY <2>4, <2>5
<1> QED BY <1>2, <1>3

LEMMA KeepsHandle ==
    ASSUME LearningInv, NEW t \in Tabs, Handle(t)
    PROVE  Kept
<1> DEFINE q == request[t]
           m == q.block
<1>1. /\ q # None /\ request' = [request EXCEPT ![t] = None]
      /\ UNCHANGED <<doc, now, accepted, reviewVars, job>>
    BY DEF Handle
<1>2. Types /\ Begun /\ Agreed /\ Chained
    BY DEF LearningInv
<1>3. q \in Answered /\ m \in All /\ q.at \in Times /\ q.passed \in BOOLEAN
    BY <1>1, <1>2 DEF Types, Answered
<1>4. Kind(doc, m) # "code"
    BY <1>1, <1>2 DEF Begun
<1>5. All' = All /\ LessonsOf' = LessonsOf
    BY <1>1, SameCourse
<1>6. request' \in [Tabs -> Answered \cup {None}] /\ \A k \in Tabs : request'[k] \in {request[k], None}
    BY <1>1, <1>2 DEF Types
<1>7. CASE row[m] = None
    <2>1. UNCHANGED <<progressVars, quizAttempts>>
        BY <1>7 DEF Handle
    <2>2. /\ Agreed' /\ Chained' /\ RowsKept /\ All' = All
          /\ \A k \in All : Done(k) => accepted'[k] = accepted[k]
          /\ now' \in Times /\ request' \in [Tabs -> Answered \cup {None}]
             /\ job' \in Filed \cup {None} => Types'
        BY <1>1, <2>1, KeepsQuiet
    <2>3. Types'
        BY <1>1, <1>2, <1>6, <2>2 DEF Types
    <2>4. Begun'
        BY <1>1, <1>2, <1>5, <1>6, <2>1 DEF Begun, progressVars
    <2> QED BY <2>2, <2>3, <2>4 DEF Kept, LearningInv
<1>8. CASE row[m] # None
    <2>1. quizAttempts' = Attempted(m) /\ Finish(m, row[m], q.at, None, q.passed)
        BY <1>8 DEF Handle
    <2>2. /\ quizAttempts' \in [All -> Nat]
          /\ \A k \in All \ {m} : quizAttempts'[k] = quizAttempts[k]
          /\ Kind(doc, m) = "quiz" =>
                quizAttempts'[m] = IF row[m].done THEN quizAttempts[m] ELSE quizAttempts[m] + 1
        <3>1. quizAttempts \in [All -> Nat] /\ (Done(m) <=> row[m].done)
            BY <1>2, <1>8 DEF Types, Done, DoneIn
        <3>2. quizAttempts' = [quizAttempts EXCEPT ![m] =
                  IF Kind(doc, m) = "quiz" /\ ~Done(m) THEN quizAttempts[m] + 1 ELSE quizAttempts[m]]
            BY <2>1 DEF Attempted
        <3>3. quizAttempts[m] \in Nat
            BY <1>3, <3>1
        <3> HIDE DEF m
        <3> QED BY <1>3, <3>1, <3>2, <3>3
    <2>3. Read(m, None)
        BY <1>4 DEF Read
    <2>4. /\ Agreed' /\ Chained' /\ RowsKept
          /\ enrollment' \in Percents \cup {None} /\ achievements' \subseteq Achievements
          /\ lessonDone' \in [LessonsOf -> BOOLEAN \cup {None}]
          /\ \A k \in All : row'[k] # None =>
                /\ enrollment' # None
                /\ row'[k].done \/ row'[k].opened # None
                /\ row'[k].verdict # "unknown" => row'[k].done
        <3> HIDE DEF m, q
        <3> QED BY <1>1, <1>3, <1>8, <2>1, <2>2, <2>3, FinishKeeps
    <2>5. Types'
        BY <1>1, <1>2, <1>5, <1>6, <2>2, <2>4 DEF Types, Answered, Filed, reviewVars, RowsKept
    <2>6. Begun'
        <3>1. job # None => job.block \in All
            BY <1>2 DEF Types, Filed
        <3>2. \A k \in All : row[k] # None => row'[k] # None
            BY <2>4 DEF RowsKept
        <3>3. job # None => HasTask(doc, job.block) /\ row'[job.block] # None
            BY <1>2, <3>1, <3>2 DEF Begun
        <3>4. \A k \in Tabs : request'[k] # None => Kind(doc, request'[k].block) # "code"
            BY <1>2, <1>6 DEF Begun
        <3> QED BY <1>1, <1>5, <2>4, <3>3, <3>4 DEF Begun
    <2> QED BY <1>1, <2>4, <2>5, <2>6 DEF Kept, LearningInv
<1> QED BY <1>7, <1>8

LEMMA KeepsJudged ==
    ASSUME LearningInv, NEW outcome \in {"accepted", "wrong_answer", "cancelled"}, Judged(outcome)
    PROVE  Kept
<1> DEFINE m == job.block
<1>1. /\ job # None /\ job' = None
      /\ UNCHANGED <<doc, now, quizAttempts, reviewVars, request>>
      /\ accepted' = IF outcome = "accepted" /\ ~Done(m)
                     THEN [accepted EXCEPT ![m] = job.source] ELSE accepted
    BY DEF Judged
<1>2. Types /\ Begun /\ Agreed /\ Chained
    BY DEF LearningInv
<1>3. m \in All /\ job.at \in Times /\ job.source \in Sources
    BY <1>1, <1>2 DEF Types, Filed
<1>4. row[m] # None /\ Kind(doc, m) = "code"
    BY <1>1, <1>2 DEF Begun, HasTask
<1>5. All' = All /\ LessonsOf' = LessonsOf
    BY <1>1, SameCourse
<1>6. /\ accepted' \in [All -> Sources \cup {None}]
      /\ \A k \in All : Done(k) => accepted'[k] = accepted[k]
    <2>1. accepted \in [All -> Sources \cup {None}]
        BY <1>2 DEF Types
    <2> HIDE DEF m
    <2> QED BY <1>1, <1>3, <2>1
<1>7. CASE outcome = "cancelled"
    <2>1. UNCHANGED progressVars
        BY <1>7 DEF Judged
    <2>2. accepted' = accepted
        BY <1>1, <1>7
    <2>3. /\ Agreed' /\ Chained' /\ RowsKept /\ All' = All
          /\ now' \in Times /\ request' \in [Tabs -> Answered \cup {None}]
             /\ job' \in Filed \cup {None} => Types'
        BY <1>1, <2>1, <2>2, KeepsQuiet
    <2>4. Types'
        BY <1>1, <1>2, <2>3 DEF Types
    <2>5. Begun'
        BY <1>1, <1>2, <1>5, <2>1 DEF Begun, progressVars
    <2> QED BY <1>6, <2>3, <2>4, <2>5 DEF Kept, LearningInv
<1>8. CASE outcome # "cancelled"
    <2>1. Finish(m, row[m], job.at, Text(job.source), outcome = "accepted")
        BY <1>8 DEF Judged
    <2>2. Read(m, Text(job.source))
        BY <1>3 DEF Read
    <2>3. quizAttempts' \in [All -> Nat] /\ \A k \in All \ {m} : quizAttempts'[k] = quizAttempts[k]
        BY <1>1, <1>2 DEF Types
    <2>4. Kind(doc, m) # "quiz"
        BY <1>4
    <2>5. (outcome = "accepted") \in BOOLEAN
        OBVIOUS
    <2>6. /\ Agreed' /\ Chained' /\ RowsKept
          /\ enrollment' \in Percents \cup {None} /\ achievements' \subseteq Achievements
          /\ lessonDone' \in [LessonsOf -> BOOLEAN \cup {None}]
          /\ \A k \in All : row'[k] # None =>
                /\ enrollment' # None
                /\ row'[k].done \/ row'[k].opened # None
                /\ row'[k].verdict # "unknown" => row'[k].done
        <3> DEFINE passed == outcome = "accepted"
                   source == Text(job.source)
                   at == job.at
        <3>1. Finish(m, row[m], at, source, passed) /\ passed \in BOOLEAN /\ Read(m, source)
              /\ at \in Times
            BY <1>3, <2>1, <2>2, <2>5
        <3> HIDE DEF m, passed, source, at
        <3> QED BY <1>1, <1>3, <1>4, <2>3, <2>4, <3>1, FinishKeeps
    <2>7. Types'
        BY <1>1, <1>2, <1>5, <1>6, <2>3, <2>6 DEF Types, Answered, Filed, reviewVars, RowsKept
    <2>8. Begun'
        BY <1>1, <1>2, <1>5, <2>6 DEF Begun
    <2> QED BY <1>6, <2>6, <2>7, <2>8 DEF Kept, LearningInv
<1> QED BY <1>7, <1>8

LEMMA KeepsStutter ==
    ASSUME LearningInv, UNCHANGED learningVars
    PROVE  Kept
<1>1. /\ UNCHANGED <<doc, now, progressVars, accepted, quizAttempts, reviewVars, request, job>>
    BY DEF learningVars
<1>2. Types /\ Begun
    BY DEF LearningInv
<1>3. /\ Agreed' /\ Chained' /\ RowsKept /\ All' = All
      /\ \A m \in All : Done(m) => accepted'[m] = accepted[m]
      /\ now' \in Times /\ request' \in [Tabs -> Answered \cup {None}]
         /\ job' \in Filed \cup {None} => Types'
    BY <1>1, KeepsQuiet
<1>4. Types'
    BY <1>1, <1>2, <1>3 DEF Types
<1>5. Begun'
    BY <1>1, <1>2, <1>3 DEF Begun, progressVars
<1> QED BY <1>3, <1>4, <1>5 DEF Kept, LearningInv

LEMMA LearningKeeps ==
    ASSUME LearningInv, [LearningNext]_learningVars
    PROVE  Kept
<1>1. CASE Enrol
    BY <1>1, KeepsEnrol
<1>2. CASE Tick
    BY <1>2, KeepsTick
<1>3. CASE \E m \in All \cap Touched : Start(m) \/ Submit(m)
    BY <1>3, KeepsStart, KeepsSubmit
<1>4. CASE \E t \in Tabs : Receive(t) \/ Handle(t)
    BY <1>4, KeepsReceive, KeepsHandle
<1>5. CASE \E outcome \in {"accepted", "wrong_answer", "cancelled"} : Judged(outcome)
    BY <1>5, KeepsJudged
<1>6. CASE \E m \in All \cap Reviewed, value \in Verdicts \cup {"reset"} : Review(m, value)
    BY <1>6, KeepsReview
<1>7. CASE UNCHANGED learningVars
    BY <1>7, KeepsStutter
<1> QED BY <1>1, <1>2, <1>3, <1>4, <1>5, <1>6, <1>7 DEF LearningNext

(***************************************************************************)
(* The properties of module Learning.                                      *)
(***************************************************************************)
LEMMA TypesHold == LearningInv => LearningTypeOK
<1> SUFFICES ASSUME LearningInv PROVE LearningTypeOK
    OBVIOUS
<1>1. Types /\ Begun /\ Chained
    BY DEF LearningInv
<1>2. enrollment = None \/ (enrollment.percent \in 0 .. 100 /\ enrollment.completed \in BOOLEAN)
    BY <1>1 DEF Types, Percents
<1>3. \A m \in All : /\ row[m] # None /\ row[m].verdict # "unknown" => Done(m)
                     /\ review[m] \in Verdicts \cup {None} /\ (review[m] # None => Done(m))
    BY <1>1 DEF Types, Begun, Chained, Done, DoneIn
<1> QED BY <1>1, <1>2, <1>3 DEF Types, LearningTypeOK

\* What the page of the shelf shows follows from the percent.
LEMMA ShelfAgrees ==
    ASSUME Types, Agreed, enrollment # None, Blocks # {}
    PROVE  Shelf = "done" <=> ResumeTo = {}
<1>1. doc \in Documents /\ enrollment = Enrolled(row)
    BY DEF Types, Agreed
<1>2. /\ enrollment.percent \in 0 .. 100
      /\ enrollment.percent = 100 <=> \A m \in Blocks : Done(m)
    BY <1>1, EnrolledType DEF Percents, Done
<1>3. Shelf = "done" <=> enrollment.percent = 100
    BY <1>2 DEF Shelf
<1>4. ResumeTo = {} <=> \A m \in Blocks : Done(m)
    BY DEF ResumeTo
<1> QED BY <1>2, <1>3, <1>4

LEMMA TicksAgree ==
    ASSUME Types, Agreed
    PROVE  /\ Ticked \subseteq {l \in LessonsOf : LessonComplete(row, l)}
           /\ (\E m \in All : Done(m) /\ ~row[m].imported) =>
                 {l \in LessonsOf : LessonComplete(row, l)} \subseteq Ticked
<1>1. \A l \in LessonsOf : LessonComplete(row, l) => doc.lessons[l].active
    <2> SUFFICES ASSUME NEW l \in LessonsOf, LessonComplete(row, l) PROVE doc.lessons[l].active
        OBVIOUS
    <2>1. PICK m \in Blocks : m[1] = l
        BY DEF LessonComplete
    <2>2. Active(doc, m)
        BY DEF Blocks
    <2> QED BY <2>1, <2>2 DEF Active
<1>2. Ticked \subseteq {l \in LessonsOf : LessonComplete(row, l)}
    BY DEF Ticked, Agreed
<1>3. ASSUME \E m \in All : Done(m) /\ ~row[m].imported
      PROVE  {l \in LessonsOf : LessonComplete(row, l)} \subseteq Ticked
    <2>1. \A l \in LessonsOf : lessonDone[l] = LessonComplete(row, l)
        BY <1>3 DEF Agreed
    <2>2. \A l \in LessonsOf : LessonComplete(row, l) => LessonComplete(row, l) = TRUE
        BY LessonFlags
    <2> QED BY <1>1, <2>1, <2>2 DEF Ticked
<1> QED BY <1>2, <1>3

LEMMA ProgressHolds == LearningInv => ProgressAgrees
<1> SUFFICES ASSUME LearningInv PROVE ProgressAgrees
    OBVIOUS
<1>1. Types /\ Agreed
    BY DEF LearningInv
<1>2. ASSUME enrollment # None
      PROVE  /\ enrollment.completed <=> Blocks # {} /\ \A m \in Blocks : Done(m)
             /\ enrollment.percent = 100 <=> enrollment.completed
             /\ <<"course_complete", 1>> \in achievements => enrollment.completed
    <2>1. doc \in Documents /\ enrollment = Enrolled(row)
        BY <1>1, <1>2 DEF Types, Agreed
    <2> QED BY <1>1, <2>1, EnrolledType DEF Done, Agreed
<1>3. enrollment # None /\ Blocks # {} => (Shelf = "done" <=> ResumeTo = {})
    BY <1>1, ShelfAgrees
<1>4. /\ Ticked \subseteq {l \in LessonsOf : LessonComplete(row, l)}
      /\ (\E m \in All : Done(m) /\ ~row[m].imported) =>
            {l \in LessonsOf : LessonComplete(row, l)} \subseteq Ticked
    BY <1>1, TicksAgree
<1>5. \A a \in achievements : Cardinality({m \in All : Done(m)}) >= a[2]
    BY <1>1 DEF Agreed, DoneSet, Done
<1>6. \A m \in All : row[m] # None /\ ~row[m].imported /\ Kind(doc, m) = "quiz" =>
         quizAttempts[m] = row[m].attempts
    BY <1>1 DEF Agreed
<1> QED BY <1>2, <1>3, <1>4, <1>5, <1>6 DEF ProgressAgrees

LEMMA ChainHolds == LearningInv => ReviewChain
<1> SUFFICES ASSUME LearningInv, NEW m \in All, Done(m)
             PROVE  LET marks == <<row[m].verdict>> \o [i \in DOMAIN events[m] |-> events[m][i].after]
                    IN  /\ \A i \in DOMAIN events[m] : events[m][i].before = marks[i]
                        /\ Effective(m) = Last(marks)
    BY DEF ReviewChain
<1> DEFINE list == events[m]
           n == Len(list)
           v == row[m].verdict
           afters == [i \in 1 .. n |-> list[i].after]
           marks == <<v>> \o afters
<1>1. Types /\ Journal(v, list, Effective(m))
    BY DEF LearningInv, Chained
<1>2. list \in Seq(Reviews)
    BY <1>1 DEF Types
<1>3. n \in Nat /\ DOMAIN list = 1 .. n /\ (list = << >> <=> n = 0)
    BY <1>2, LenProperties, EmptySeq
<1>4. v \in Verdicts /\ \A i \in 1 .. n : list[i].after \in Verdicts
    <2>1. row[m] \in Rows
        BY <1>1 DEF Types, Done, DoneIn
    <2>2. \A i \in 1 .. n : list[i] \in Reviews
        BY <1>2, ElementOfSeq
    <2> QED BY <2>1, <2>2 DEF Rows, Reviews
<1>5. /\ \A i \in 1 .. n : list[i].before = IF i = 1 THEN v ELSE list[i - 1].after
      /\ Effective(m) = IF n = 0 THEN v ELSE list[n].after
    BY <1>1, <1>3 DEF Journal
<1> HIDE DEF n, v, list
<1>6. afters \in Seq(Verdicts) /\ Len(afters) = n
    BY <1>3, <1>4, IsASeq
<1>7. <<v>> \in Seq(Verdicts) /\ Len(<<v>>) = 1 /\ <<v>>[1] = v
    BY <1>4
<1>8. /\ Len(marks) = 1 + n
      /\ \A i \in 1 .. 1 + n : marks[i] = IF i <= 1 THEN <<v>>[i] ELSE afters[i - 1]
    <2> DEFINE head == <<v>>
    <2>1. head \in Seq(Verdicts) /\ Len(head) = 1 /\ afters \in Seq(Verdicts) /\ Len(afters) = n
        BY <1>6, <1>7
    <2> HIDE DEF head, afters
    <2>2. /\ Len(head \o afters) = Len(head) + Len(afters)
          /\ \A i \in 1 .. Len(head) + Len(afters) :
                (head \o afters)[i] = IF i <= Len(head) THEN head[i] ELSE afters[i - Len(head)]
        BY <2>1, ConcatProperties
    <2> QED BY <2>1, <2>2 DEF head
<1>9. \A i \in 1 .. n : list[i].before = marks[i]
    <2> TAKE i \in 1 .. n
    <2>1. i \in 1 .. 1 + n /\ (i # 1 => i - 1 \in 1 .. n)
        BY <1>3
    <2>2. i # 1 => afters[i - 1] = list[i - 1].after
        BY <2>1
    <2> HIDE DEF marks, afters
    <2> QED BY <1>3, <1>5, <1>7, <1>8, <2>1, <2>2
<1>10. Effective(m) = Last(marks)
    <2>1. 1 + n \in 1 .. 1 + n /\ (n # 0 => n \in 1 .. n /\ 1 + n - 1 = n)
        BY <1>3
    <2>2. n # 0 => afters[n] = list[n].after
        BY <2>1
    <2> HIDE DEF marks, afters
    <2>3. marks[1 + n] = IF n = 0 THEN v ELSE list[n].after
        BY <1>3, <1>7, <1>8, <2>1, <2>2
    <2> QED BY <1>5, <1>8, <2>3 DEF Last
<1>11. afters = [i \in DOMAIN list |-> list[i].after]
    BY <1>3
<1> HIDE DEF afters
<1> QED BY <1>3, <1>9, <1>10, <1>11 DEF v, list

\* Every variable has its type; only finished work has a mark.
THEOREM Learning_TypeOK == LearningSpec => []LearningTypeOK
<1>1. LearningInit => LearningInv
    BY LearningStarts
<1>2. LearningInv /\ [LearningNext]_learningVars => LearningInv'
    BY LearningKeeps DEF Kept
<1>3. LearningInv => LearningTypeOK
    BY TypesHold
<1> QED BY <1>1, <1>2, <1>3, PTL DEF LearningSpec

\* What the student is shown agrees with what he has done, for any course,
\* whatever is lost to rounding (recalculate, finish, course_detail, library,
\* resume).
THEOREM Learning_ProgressAgrees == LearningSpec => []ProgressAgrees
<1>1. LearningInit => LearningInv
    BY LearningStarts
<1>2. LearningInv /\ [LearningNext]_learningVars => LearningInv'
    BY LearningKeeps DEF Kept
<1>3. LearningInv => ProgressAgrees
    BY ProgressHolds
<1> QED BY <1>1, <1>2, <1>3, PTL DEF LearningSpec

\* The journal of reviews leads from the automatic mark to the one in force
\* (record_review, effective_verdict).
THEOREM Learning_ReviewChain == LearningSpec => []ReviewChain
<1>1. LearningInit => LearningInv
    BY LearningStarts
<1>2. LearningInv /\ [LearningNext]_learningVars => LearningInv'
    BY LearningKeeps DEF Kept
<1>3. LearningInv => ReviewChain
    BY ChainHolds
<1> QED BY <1>1, <1>2, <1>3, PTL DEF LearningSpec

\* What is done stays as it was done, and no clock is set back (open_block,
\* finish).
THEOREM Learning_PaidForGood == LearningSpec => PaidForGood
<1>1. LearningInit => LearningInv
    BY LearningStarts
<1>2. LearningInv /\ [LearningNext]_learningVars => LearningInv'
    BY LearningKeeps DEF Kept
<1>3. LearningInv /\ [LearningNext]_learningVars =>
         [/\ \A m \in All : Done(m) => row'[m] = row[m] /\ accepted'[m] = accepted[m]
          /\ \A m \in All : row[m] # None => row'[m].opened = row[m].opened]_learningVars
    <2> SUFFICES ASSUME LearningInv, [LearningNext]_learningVars
                 PROVE  /\ \A m \in All : Done(m) => row'[m] = row[m] /\ accepted'[m] = accepted[m]
                        /\ \A m \in All : row[m] # None => row'[m].opened = row[m].opened
        OBVIOUS
    <2>1. Kept
        BY LearningKeeps
    <2> QED BY <2>1 DEF Kept, RowsKept, Done, DoneIn
<1> QED BY <1>1, <1>2, <1>3, PTL DEF LearningSpec, PaidForGood

(***************************************************************************)
(* Every block can be done.                                                *)
(***************************************************************************)
LEMMA SequenceOfSet ==
    ASSUME NEW S, IsFiniteSet(S)
    PROVE  /\ DOMAIN SetToSeq(S) = 1 .. Cardinality(S)
           /\ Len(SetToSeq(S)) = Cardinality(S)
           /\ {SetToSeq(S)[i] : i \in DOMAIN SetToSeq(S)} = S
<1> DEFINE n == Cardinality(S)
           f == SetToSeq(S)
<1>1. n \in Nat /\ ExistsBijection(1 .. n, S)
    BY FS_CardinalityType
<1>2. \E g \in [1 .. n -> S] : IsInjective(g)
    BY <1>1 DEF ExistsBijection, Bijection, Injection
<1>3. f \in [1 .. n -> S] /\ IsInjective(f)
    BY <1>2 DEF SetToSeq
<1>4. IsFiniteSet(1 .. n) /\ Cardinality(1 .. n) = n
    BY <1>1, FS_Interval
<1>5. f \in Injection(1 .. n, S)
    BY <1>3 DEF Injection
<1>6. f \in Surjection(1 .. n, S)
    BY <1>4, <1>5, FS_Injection
<1>7. \A x \in S : \E i \in 1 .. n : f[i] = x
    BY <1>6 DEF Surjection
<1> HIDE DEF n, f
<1>8. {f[i] : i \in DOMAIN f} = S
    BY <1>3, <1>7
<1>9. Len(f) = n
    BY <1>1, <1>3
<1> QED BY <1>3, <1>8, <1>9 DEF n, f

LEMMA ExpectedFinite ==
    ASSUME NEW q, IsQuestion(q)
    PROVE  IsFiniteSet(Expected(q)) /\ Expected(q) \subseteq {Key(k) : k \in DOMAIN q.choices}
<1> DEFINE D == {k \in DOMAIN q.choices : q.choices[k].correct}
           f == [k \in D |-> Key(k)]
<1>1. Len(q.choices) \in Nat /\ DOMAIN q.choices = 1 .. Len(q.choices)
    BY DEF IsQuestion, IsList
<1>2. IsFiniteSet(DOMAIN q.choices)
    BY <1>1, FS_Interval
<1>3. IsFiniteSet(D)
    BY <1>2, FS_Subset
<1>4. f \in Surjection(D, Expected(q))
    BY DEF Surjection, Expected
<1>5. Expected(q) \subseteq {Key(k) : k \in DOMAIN q.choices}
    BY DEF Expected
<1> QED BY <1>3, <1>4, <1>5, FS_Surjection

\* A question the checks let through has an answer that is right, and the
\* page can send it.
LEMMA RightAnswer ==
    ASSUME NEW q, IsQuestion(q), Answerable(q)
    PROVE  \E v \in AnswersTo(q) : Correct(q, v)
<1>1. CASE q.type = "short"
    <2>1. PICK t \in q.answers : t.word # ""
        BY <1>1 DEF Answerable
    <2>2. <<t>> \in AnswersTo(q)
        BY <1>1 DEF AnswersTo
    <2>3. Folded(q, t) \in Accepted(q)
        BY <2>1 DEF Accepted
    <2>4. Len(<<t>>) = 1 /\ <<t>>[1] = t
        OBVIOUS
    <2>5. Correct(q, <<t>>)
        BY <1>1, <2>3, <2>4 DEF Correct
    <2> QED BY <2>2, <2>5
<1>2. CASE q.type # "short"
    <2> DEFINE S == Expected(q)
               v == SetToSeq(S)
    <2>1. IsFiniteSet(S) /\ S \subseteq {Key(k) : k \in DOMAIN q.choices}
        BY ExpectedFinite
    <2>2. v \in AnswersTo(q)
        <3>1. v \in {SetToSeq(c) : c \in SUBSET {Key(k) : k \in DOMAIN q.choices}}
            BY <2>1
        <3> HIDE DEF v
        <3> QED BY <1>2, <3>1 DEF AnswersTo
    <2>3. /\ Len(v) = Cardinality(S)
          /\ {v[i] : i \in DOMAIN v} = S
        BY <2>1, SequenceOfSet
    <2>4. Cardinality(S) \in Nat /\ (Cardinality(S) = 0 <=> S = {})
        BY <2>1, FS_CardinalityType, FS_EmptySet
    <2>5. IF q.type = "single" THEN Cardinality(S) = 1 ELSE Cardinality(S) >= 1
        BY <1>2 DEF Answerable
    <2> HIDE DEF v, S
    <2>6. Cardinality(S) >= 1 /\ (q.type = "single" => Cardinality(S) = 1)
        BY <2>4, <2>5
    <2>7. S # {}
        BY <2>4, <2>6
    <2>8. Correct(q, v)
        BY <1>2, <2>3, <2>6, <2>7 DEF Correct, S
    <2> QED BY <2>2, <2>8
<1> QED BY <1>1, <1>2

\* All questions answered right pass the quiz, whatever its pass mark.
LEMMA PassingAnswers ==
    ASSUME NEW quiz, IsQuiz(quiz), quiz.passing \in 1 .. 100,
           \A q \in Range(quiz.questions) : Answerable(q)
    PROVE  \E a \in Answers(quiz) : Passes(quiz, a)
<1> DEFINE n == Len(quiz.questions)
           a == [i \in DOMAIN quiz.questions |->
                    CHOOSE v \in AnswersTo(quiz.questions[i]) : Correct(quiz.questions[i], v)]
<1>1. n \in Nat /\ DOMAIN quiz.questions = 1 .. n
    BY DEF IsQuiz, IsList
<1>2. \A i \in 1 .. n : quiz.questions[i] \in Range(quiz.questions)
    BY <1>1 DEF Range
<1>3. \A i \in 1 .. n : \E v \in AnswersTo(quiz.questions[i]) : Correct(quiz.questions[i], v)
    BY <1>2, RightAnswer DEF IsQuiz
<1>4. \A i \in 1 .. n : a[i] \in AnswersTo(quiz.questions[i]) /\ Correct(quiz.questions[i], a[i])
    BY <1>1, <1>3
<1> HIDE DEF a
<1>5. a \in Answers(quiz)
    <2>1. DOMAIN a = 1 .. n /\ a = [i \in 1 .. n |-> a[i]]
        BY <1>1 DEF a
    <2>2. \A i \in 1 .. n : a[i] \in UNION {AnswersTo(q) : q \in Range(quiz.questions)}
        BY <1>2, <1>4
    <2>3. a \in [DOMAIN quiz.questions -> UNION {AnswersTo(q) : q \in Range(quiz.questions)}]
        BY <1>1, <2>1, <2>2
    <2> QED BY <1>1, <1>4, <2>1, <2>3 DEF Answers
<1>6. {i \in DOMAIN quiz.questions : Correct(quiz.questions[i], a[i])} = 1 .. n
    BY <1>1, <1>4
<1>7. Cardinality(1 .. n) = n
    BY <1>1, FS_Interval
<1>8. n * 100 >= quiz.passing * n
    <2> DEFINE p == quiz.passing
    <2>1. PICK d \in Nat : p + d = 100 /\ p \in Nat
        <3>1. 100 - p \in Nat /\ p + (100 - p) = 100 /\ p \in Nat
            OBVIOUS
        <3> QED BY <3>1
    <2> HIDE DEF p, n
    <2>2. n * 100 = p * n + d * n /\ d * n \in Nat /\ p * n \in Nat
        BY <1>1, <2>1 DEF n
    <2> QED BY <2>2 DEF p
<1>9. Passes(quiz, a)
    BY <1>6, <1>7, <1>8 DEF Passes
<1> QED BY <1>5, <1>9

LEMMA BlocksCanBeDone == LearningInv => EveryBlockCanBeDone
<1> SUFFICES ASSUME LearningInv, doc.legacy = None, NEW m \in Blocks
             PROVE  /\ Open(m)
                    /\ Kind(doc, m) = "quiz" =>
                          \E a \in Answers(StepOf(doc, m)) : Passes(StepOf(doc, m), a)
                    /\ Kind(doc, m) = "code" => HasTask(doc, m) /\ StepOf(doc, m).tests > 0
                    /\ \A n \in All : n[1] = m[1] /\ File(doc, n) # None =>
                          Served(doc, TRUE, File(doc, n))
    BY DEF EveryBlockCanBeDone
<1> DEFINE st == StepOf(doc, m)
           l == m[1]
           s == m[2] \div 2
<1>1. doc \in Documents /\ IsCourse(doc) /\ WellFormed(doc) /\ Complete(doc)
    BY LearningConstants DEF LearningInv, Types
<1>2. m \in All /\ Active(doc, m) /\ ~Attachment(m)
    BY DEF Blocks
<1>3. /\ l \in DOMAIN doc.lessons /\ s \in DOMAIN doc.lessons[l].steps
      /\ st = doc.lessons[l].steps[s]
    BY <1>1, <1>2, MaterialsOf DEF All, StepOf
<1>4. doc.lessons[l].active
    BY <1>2 DEF Active
<1>5. StepComplete(st)
    BY <1>1, <1>3, <1>4 DEF Complete
<1>6. st \in Steps(doc)
    <2> DEFINE q == doc.lessons[l].steps
    <2>1. st \in Range(q)
        <3> HIDE DEF l, s, st, q
        <3> QED BY <1>3 DEF Range, q
    <2> QED BY <1>3, <2>1 DEF Steps
<1>7. IsMaterial(st)
    BY <1>1, <1>3 DEF IsCourse, IsLesson, Range
<1>8. Kind(doc, m) = st.kind
    BY <1>2 DEF Kind
<1>9. ASSUME Kind(doc, m) = "quiz" PROVE \E a \in Answers(st) : Passes(st, a)
    <2>1. st.passing \in 1 .. 100
        BY <1>1, <1>6 DEF WellFormed
    <2>2. \A q \in Range(st.questions) : Answerable(q)
        BY <1>5, <1>8, <1>9 DEF StepComplete
    <2> HIDE DEF st
    <2> QED BY <1>7, <2>1, <2>2, PassingAnswers DEF IsMaterial
<1>10. Kind(doc, m) = "code" => HasTask(doc, m) /\ st.tests > 0
    BY <1>5, <1>8 DEF StepComplete, HasTask
<1>11. ASSUME NEW n \in All, n[1] = l, File(doc, n) # None
       PROVE  Served(doc, TRUE, File(doc, n))
    <2> DEFINE k == n[2] \div 2
               step == doc.lessons[l].steps[k]
    <2>1. k \in DOMAIN doc.lessons[l].steps /\ StepOf(doc, n) = step
        BY <1>1, <1>11, MaterialsOf DEF All, StepOf
    <2>2. step \in Range(doc.lessons[l].steps)
        BY <2>1 DEF Range
    <2>3. File(doc, n) \in {step.asset, step.viewer} \cup step.images
        BY <2>1 DEF File
    <2> HIDE DEF step, k
    <2>4. File(doc, n) \in UNION {{x.asset, x.viewer} \cup x.images : x \in Range(doc.lessons[l].steps)}
        BY <2>2, <2>3
    <2>5. l \in {j \in DOMAIN doc.lessons : doc.lessons[j].active}
        BY <1>3, <1>4
    <2>6. File(doc, n) \in referenced_assets(doc)
        <3> DEFINE Used(j) == UNION {{x.asset, x.viewer} \cup x.images : x \in Range(doc.lessons[j].steps)}
        <3>1. referenced_assets(doc) =
                 ({doc.cover} \cup UNION {Used(j) : j \in {i \in DOMAIN doc.lessons : doc.lessons[i].active}}) \ {None}
            BY DEF referenced_assets
        <3>2. File(doc, n) \in Used(l)
            BY <2>4
        <3> HIDE DEF Used
        <3> QED BY <1>11, <2>5, <3>1, <3>2
    <2> QED BY <2>6 DEF Served
<1>12. Open(m)
    BY <1>2 DEF Open
<1> QED BY <1>9, <1>10, <1>11, <1>12

\* Whatever draft the checks let through, every block of the course made of
\* it can be done (problems, publish, authorize, submit_test, asset_file).
THEOREM Learning_EveryBlockCanBeDone == LearningSpec => []EveryBlockCanBeDone
<1>1. LearningInit => LearningInv
    BY LearningStarts
<1>2. LearningInv /\ [LearningNext]_learningVars => LearningInv'
    BY LearningKeeps DEF Kept
<1>3. LearningInv => EveryBlockCanBeDone
    BY BlocksCanBeDone
<1> QED BY <1>1, <1>2, <1>3, PTL DEF LearningSpec


(***************************************************************************)
(* The automatic marks.  What the counter of comments finds in a text is a *)
(* recursion no prover here unfolds: that it is right on the programs is   *)
(* the hypothesis, which the run learning checks on its own.               *)
(***************************************************************************)
CommentsCounted ==
    \A source \in Sources :
        LET found == cpp_comment_count(Text(source))
        IN  found \in Nat /\ (found > 0 <=> \E i \in DOMAIN source : source[i].comment)

\* A row that was finished here, with the program accepted for it or None.
Earned(kind, r, program) ==
    LET spent == r.submitted - r.opened
        mark == evaluate(kind, spent, IF program = None THEN None ELSE Text(program))
    IN  /\ r.opened \in Times /\ r.submitted \in Times /\ r.elapsed = Max({0, spent})
        /\ r.verdict = mark.verdict /\ r.comments = mark.comments
        /\ program # None <=> kind = "code"

Credit(kind, r, program) ==
    IF r # None /\ r.done
    THEN IF r.imported THEN r.verdict = "unknown" /\ r.opened = None ELSE Earned(kind, r, program)
    ELSE program = None /\ (r # None => ~r.imported)

\* A mark is that of the two times and of the program kept with the row.
Earning == \A m \in All : Credit(Kind(doc, m), row[m], accepted[m])

LEMMA EarningStarts == LearningInit => Earning
<1> SUFFICES ASSUME LearningInit, NEW m \in All PROVE Credit(Kind(doc, m), row[m], accepted[m])
    BY DEF Earning
<1>1. row[m] = (IF Imported(m) THEN ImportedRow(m) ELSE None) /\ accepted[m] = None
    BY DEF LearningInit
<1>2. /\ ImportedRow(m).done /\ ImportedRow(m).imported
      /\ ImportedRow(m).verdict = "unknown" /\ ImportedRow(m).opened = None
    BY DEF ImportedRow, BlankRow
<1> HIDE DEF Imported
<1> QED BY <1>1, <1>2 DEF Credit

\* Finishing keeps the times it computes the mark from.
LEMMA FinishEarns ==
    ASSUME Types, Begun, Earning, doc' = doc, NEW m \in All, row[m] # None, ~row[m].done,
           NEW at \in Times, NEW program \in Sources \cup {None}, program # None <=> Kind(doc, m) = "code",
           NEW passed \in BOOLEAN,
           Finish(m, row[m], at, IF program = None THEN None ELSE Text(program), passed),
           accepted'[m] = IF passed THEN program ELSE accepted[m]
    PROVE  /\ Credit(Kind(doc, m), row'[m], accepted'[m])
           /\ \A k \in All \ {m} : row'[k] = row[k]
<1> DEFINE source == IF program = None THEN None ELSE Text(program)
           r == row[m]
           tried == [r EXCEPT !.attempts = @ + 1]
           spent == at - tried.opened
           mark == evaluate(Kind(doc, m), spent, source)
           finished == [tried EXCEPT !.submitted = at, !.done = TRUE, !.elapsed = Max({0, spent}),
                                     !.verdict = mark.verdict, !.comments = mark.comments]
<1>1. Read(m, source)
    BY DEF Read
<1> HIDE DEF source
<1>2. /\ tried \in Rows /\ ~tried.done /\ tried.opened = r.opened /\ tried.opened # None
      /\ tried.imported = r.imported
      /\ LET f == Finished(m, tried, at, source) IN f \in Rows /\ f.done
    BY <1>1, FinishedRow
<1>3. finished = Finished(m, tried, at, source)
    BY DEF Finished
<1>4. row' = [row EXCEPT ![m] = IF passed THEN finished ELSE tried]
    BY <1>3 DEF Finish, Recalculate, source
<1>5. row'[m] = (IF passed THEN finished ELSE tried) /\ \A k \in All \ {m} : row'[k] = row[k]
    BY <1>4 DEF Types
<1>6. accepted[m] = None /\ ~r.imported
    BY DEF Earning, Credit
<1>7. CASE passed
    <2> HIDE DEF spent, mark
    <2>1. /\ finished.submitted = at /\ finished.done /\ finished.elapsed = Max({0, spent})
          /\ finished.verdict = mark.verdict /\ finished.comments = mark.comments
          /\ finished.opened = tried.opened /\ finished.imported = tried.imported
        BY <1>2 DEF Rows
    <2>2. finished # None
        BY <1>2, <1>3, LearningConstants
    <2>3. tried.opened \in Times
        BY <1>2 DEF Rows
    <2> HIDE DEF finished
    <2>4. spent = finished.submitted - finished.opened
        BY <2>1 DEF spent
    <2>5. mark = evaluate(Kind(doc, m), finished.submitted - finished.opened, source)
        BY <2>4 DEF mark
    <2>6. Earned(Kind(doc, m), finished, program)
        BY <2>1, <2>3, <2>4, <2>5 DEF Earned, source
    <2>7. row'[m] = finished /\ accepted'[m] = program /\ ~finished.imported
        BY <1>2, <1>5, <1>6, <1>7, <2>1
    <2> QED BY <1>5, <2>1, <2>2, <2>6, <2>7 DEF Credit
<1>8. CASE ~passed
    <2>1. row'[m] = tried /\ accepted'[m] = None
        BY <1>5, <1>6, <1>8
    <2> HIDE DEF tried
    <2> QED BY <1>2, <1>5, <1>6, <2>1 DEF Credit
<1> QED BY <1>7, <1>8

LEMMA EarningKept ==
    ASSUME LearningInv, Earning, [LearningNext]_learningVars
    PROVE  Earning'
<1>1. Types /\ Begun /\ doc \in Documents
    BY DEF LearningInv, Types
<1>2. doc' = doc
    BY LearningKeeps DEF Kept, RowsKept
<1>3. All' = All /\ \A m \in All : Kind(doc', m) = Kind(doc, m)
    BY <1>2 DEF All
<1>4. Earning' <=> \A m \in All : Credit(Kind(doc, m), row'[m], accepted'[m])
    BY <1>2, <1>3 DEF Earning
<1>5. ASSUME row' = row, accepted' = accepted
      PROVE  Earning'
    BY <1>4, <1>5 DEF Earning
<1>6. ASSUME NEW m \in All, Start(m)
      PROVE  Earning'
    <2>1. row' = [row EXCEPT ![m] = Opened(m)] /\ accepted' = accepted
        BY <1>6 DEF Start
    <2>2. row'[m] = Opened(m) /\ \A k \in All \ {m} : row'[k] = row[k]
        BY <1>1, <2>1 DEF Types
    <2>3. CASE row[m] # None
        <3>1. Opened(m) = row[m]
            BY <1>1, <2>3, OpenedRow
        <3> QED BY <1>4, <2>1, <2>2, <3>1 DEF Earning
    <2>4. CASE row[m] = None
        <3>1. ~Opened(m).done /\ ~Opened(m).imported
            BY <2>4 DEF Opened, BlankRow
        <3>2. accepted[m] = None
            BY <2>4 DEF Earning, Credit
        <3>3. Credit(Kind(doc, m), row'[m], accepted'[m])
            BY <2>1, <2>2, <3>1, <3>2 DEF Credit
        <3> QED BY <1>4, <2>1, <2>2, <3>3 DEF Earning
    <2> QED BY <2>3, <2>4
<1>7. ASSUME NEW t \in Tabs, Handle(t)
      PROVE  Earning'
    <2> DEFINE q == request[t]
               m == q.block
    <2>1. q # None /\ accepted' = accepted
        BY <1>7 DEF Handle
    <2>2. m \in All /\ q.at \in Times /\ q.passed \in BOOLEAN /\ Kind(doc, m) # "code"
        BY <1>1, <2>1 DEF Types, Begun, Answered
    <2>3. CASE row[m] = None \/ row[m].done
        <3>1. UNCHANGED progressVars
            BY <1>7, <2>3 DEF Handle, Finish
        <3> QED BY <1>5, <2>1, <3>1 DEF progressVars
    <2>4. CASE row[m] # None /\ ~row[m].done
        <3>1. Finish(m, row[m], q.at, None, q.passed)
            BY <1>7, <2>4 DEF Handle
        <3>2. accepted[m] = None
            BY <2>2, <2>4 DEF Earning, Credit
        <3> HIDE DEF m, q
        <3>3. /\ Credit(Kind(doc, m), row'[m], accepted'[m])
              /\ \A k \in All \ {m} : row'[k] = row[k]
            <4> DEFINE program == None
                       at == q.at
                       passed == q.passed
            <4>1. /\ program \in Sources \cup {None} /\ (program # None <=> Kind(doc, m) = "code")
                  /\ Finish(m, row[m], at, IF program = None THEN None ELSE Text(program), passed)
                  /\ accepted'[m] = IF passed THEN program ELSE accepted[m]
                  /\ at \in Times /\ passed \in BOOLEAN
                BY <2>1, <2>2, <3>1, <3>2
            <4> HIDE DEF program, at, passed
            <4> QED BY <1>1, <1>2, <2>2, <2>4, <4>1, FinishEarns
        <3> QED BY <1>4, <2>1, <3>3 DEF Earning
    <2> QED BY <2>3, <2>4
<1>8. ASSUME NEW outcome \in {"accepted", "wrong_answer", "cancelled"}, Judged(outcome)
      PROVE  Earning'
    <2> DEFINE m == job.block
    <2>1. /\ job # None
          /\ accepted' = IF outcome = "accepted" /\ ~Done(m)
                         THEN [accepted EXCEPT ![m] = job.source] ELSE accepted
        BY <1>8 DEF Judged
    <2>2. m \in All /\ job.at \in Times /\ job.source \in Sources
        BY <1>1, <2>1 DEF Types, Filed
    <2>3. row[m] # None /\ Kind(doc, m) = "code" /\ (Done(m) <=> row[m].done)
        BY <1>1, <2>1 DEF Begun, HasTask, Done, DoneIn
    <2>4. CASE outcome = "cancelled" \/ row[m].done
        <3>1. UNCHANGED progressVars /\ accepted' = accepted
            BY <1>8, <2>1, <2>3, <2>4 DEF Judged, Finish
        <3> QED BY <1>5, <3>1 DEF progressVars
    <2>5. CASE outcome # "cancelled" /\ ~row[m].done
        <3>1. Finish(m, row[m], job.at, Text(job.source), outcome = "accepted")
            BY <1>8, <2>5 DEF Judged
        <3> DEFINE program == job.source
                   at == job.at
                   passed == outcome = "accepted"
        <3>2. program # None
            BY <2>2, LearningConstants
        <3>3. accepted' = IF passed THEN [accepted EXCEPT ![m] = program] ELSE accepted
            BY <2>1, <2>3, <2>5
        <3>4. /\ Finish(m, row[m], at, IF program = None THEN None ELSE Text(program), passed)
              /\ at \in Times /\ program \in Sources \cup {None} /\ passed \in BOOLEAN
              /\ program # None <=> Kind(doc, m) = "code"
            BY <2>2, <2>3, <3>1, <3>2
        <3> HIDE DEF m, program, at, passed
        <3>5. /\ accepted'[m] = IF passed THEN program ELSE accepted[m]
              /\ \A k \in All \ {m} : accepted'[k] = accepted[k]
            BY <1>1, <2>2, <3>3 DEF Types
        <3>6. /\ Credit(Kind(doc, m), row'[m], accepted'[m])
              /\ \A k \in All \ {m} : row'[k] = row[k]
            BY <1>1, <1>2, <2>2, <2>3, <2>5, <3>4, <3>5, FinishEarns
        <3> QED BY <1>4, <3>5, <3>6 DEF Earning
    <2> QED BY <2>4, <2>5
<1>9. CASE Enrol
    BY <1>5, <1>9 DEF Enrol
<1>10. CASE Tick
    BY <1>5, <1>10 DEF Tick, progressVars
<1>11. ASSUME NEW m \in All, Submit(m)
       PROVE  Earning'
    BY <1>5, <1>11 DEF Submit, progressVars
<1>12. ASSUME NEW t \in Tabs, Receive(t)
       PROVE  Earning'
    BY <1>5, <1>12 DEF Receive, progressVars
<1>13. ASSUME NEW m \in All, NEW value, Review(m, value)
       PROVE  Earning'
    BY <1>5, <1>13 DEF Review, progressVars
<1>14. CASE UNCHANGED learningVars
    BY <1>5, <1>14 DEF learningVars, progressVars
<1> QED BY <1>6, <1>7, <1>8, <1>9, <1>10, <1>11, <1>12, <1>13, <1>14 DEF LearningNext

\* The mark of a row says what it claims.
LEMMA MarksHold == CommentsCounted /\ LearningInv /\ Earning => MarksAreEarned
<1> SUFFICES ASSUME CommentsCounted, LearningInv, Earning, NEW m \in All, Done(m)
             PROVE  LET r == row[m]
                        spent == r.submitted - r.opened
                    IN  IF r.imported THEN r.verdict = "unknown" /\ r.opened = None
                        ELSE /\ r.verdict = "unknown" <=> spent < 0
                             /\ r.verdict = "negative" <=>
                                    /\ spent >= 0
                                    /\ \/ spent <= Threshold(Kind(doc, m))
                                       \/ accepted[m] # None /\ \E i \in DOMAIN accepted[m] : accepted[m][i].comment
                             /\ spent >= 0 => Simulated(m) = r.verdict
    BY DEF MarksAreEarned
<1> DEFINE r == row[m]
           spent == r.submitted - r.opened
           kind == Kind(doc, m)
           program == accepted[m]
           source == IF program = None THEN None ELSE Text(program)
           mark == evaluate(kind, spent, source)
           commented == program # None /\ \E i \in DOMAIN program : program[i].comment
<1>1. Credit(kind, r, program) /\ r # None /\ r.done
    BY DEF Earning, Done, DoneIn
<1>2. CASE r.imported
    BY <1>1, <1>2 DEF Credit
<1>3. CASE ~r.imported
    <2>1. Earned(kind, r, program)
        BY <1>1, <1>3 DEF Credit
    <2>2. /\ r.opened \in Times /\ r.submitted \in Times /\ r.elapsed = Max({0, spent})
          /\ r.verdict = mark.verdict /\ r.comments = mark.comments
          /\ program # None <=> kind = "code"
        BY <2>1 DEF Earned
    <2>3. spent \in Int /\ spent # None
        BY <2>2, LearningConstants DEF Times
    <2>4. program # None => /\ cpp_comment_count(source) \in Nat /\ source # None
                            /\ cpp_comment_count(source) > 0 <=> commented
        BY LearningConstants DEF CommentsCounted, LearningInv, Types
    <2>5. \A x \in Int : Max({0, x}) = IF 0 >= x THEN 0 ELSE x
        BY MaxOfTwo
    <2>6. r.elapsed = IF 0 >= spent THEN 0 ELSE spent
        BY <2>2, <2>3, <2>5
    <2>7. Simulated(m) =
             IF r.elapsed = None \/ (kind = "code" /\ r.comments = None) THEN "unknown"
             ELSE IF Fast(kind, r.elapsed) \/ (kind = "code" /\ r.comments > 0)
             THEN "negative" ELSE "positive"
        BY DEF Simulated
    <2>8. commented => kind = "code"
        BY <2>2
    <2> HIDE DEF spent, kind, source, commented
    <2>9. CASE spent < 0
        <3>1. mark.verdict = "unknown"
            BY <2>9 DEF evaluate
        <3>2. r.verdict = "unknown" /\ ~(spent >= 0)
            BY <2>2, <2>3, <2>9, <3>1
        <3> QED BY <1>3, <2>9, <3>2 DEF spent, kind, commented
    <2>10. CASE ~(spent < 0)
        <3>1. spent >= 0 /\ r.elapsed = spent
            BY <2>3, <2>6, <2>10
        <3>2. kind = "code" => source # None
            BY <2>2, <2>4
        <3> DEFINE comments == IF kind = "code" THEN cpp_comment_count(source) ELSE None
        <3>3. mark = [verdict  |-> IF Fast(kind, spent) \/ (kind = "code" /\ comments > 0)
                                   THEN "negative" ELSE "positive",
                      comments |-> comments]
            BY <2>3, <2>10, <3>2 DEF evaluate
        <3>4. (kind = "code" /\ comments > 0) <=> commented
            BY <2>2, <2>4, <2>8
        <3>5. kind = "code" => comments # None
            BY <2>2, <2>4, LearningConstants
        <3> HIDE DEF comments, mark
        <3>6. /\ r.comments = comments
              /\ r.verdict = IF Fast(kind, spent) \/ commented THEN "negative" ELSE "positive"
            BY <2>2, <3>3, <3>4
        <3>7. Simulated(m) = r.verdict
            BY <2>3, <2>7, <3>1, <3>4, <3>5, <3>6
        <3>8. Fast(kind, spent) <=> spent <= Threshold(kind)
            BY DEF Fast
        <3> QED BY <1>3, <2>10, <3>1, <3>6, <3>7, <3>8 DEF spent, kind, commented
    <2> QED BY <2>9, <2>10
<1> QED BY <1>2, <1>3

\* The automatic mark of a block is what its two times and its program say,
\* and the teacher's trial calculation finds the same, wherever the counter
\* of comments is right on the programs (evaluate, finish,
\* teaching.views.rules).
THEOREM Learning_MarksAreEarned == CommentsCounted /\ LearningSpec => []MarksAreEarned
<1>1. LearningInit => LearningInv /\ Earning
    BY LearningStarts, EarningStarts
<1>2. (LearningInv /\ Earning) /\ [LearningNext]_learningVars => (LearningInv /\ Earning)'
    BY LearningKeeps, EarningKept DEF Kept
<1>3. CommentsCounted /\ LearningInv /\ Earning => MarksAreEarned
    BY MarksHold
<1>4. CommentsCounted => CommentsCounted'
    BY DEF CommentsCounted
<1> QED BY <1>1, <1>2, <1>3, <1>4, PTL DEF LearningSpec

(***************************************************************************)
(* Reports.                                                                *)
(***************************************************************************)
Copies == [progress : 0 .. 100, blocks : Nat, total : Nat, negative : Nat, unknown : Nat,
           zone : {"unknown", "green", "orange", "red"}, reviewed : Nat,
           state : {"done", "new", "active"}]

\* The percent the next copy has, as far as it is read.
Latest == IF reading # None THEN reading ELSE enrollment.percent

\* A copy may be older than what is there, and never tells of more.
Fair(r, points, latest) ==
    /\ r.progress = 100 => r.blocks >= r.total
    /\ r.blocks <= points /\ r.progress <= latest
    /\ r.negative + r.unknown <= r.blocks /\ r.reviewed <= r.blocks
    /\ r.state = "done" <=> r.progress = 100

\* What is read is no more than what is there, and the copies follow each
\* other.
ReportsInv ==
    /\ reading \in 0 .. 100 \cup {None} /\ snapshots \in Seq(Copies)
    /\ reading # None \/ snapshots # << >> => enrollment # None
    /\ reading # None => reading <= enrollment.percent
    /\ \A i \in 1 .. Len(snapshots) : Fair(snapshots[i], Points, Latest)
    /\ \A i, j \in 1 .. Len(snapshots) : i < j =>
          /\ snapshots[i].blocks <= snapshots[j].blocks
          /\ snapshots[i].progress <= snapshots[j].progress

LEMMA Removed ==
    ASSUME NEW S, NEW s \in Seq(S), NEW i \in 1 .. Len(s)
    PROVE  /\ RemoveAt(s, i) \in Seq(S) /\ Len(RemoveAt(s, i)) = Len(s) - 1
           /\ \A j \in 1 .. Len(s) - 1 : RemoveAt(s, i)[j] = s[IF j < i THEN j ELSE j + 1]
<1> DEFINE n == Len(s)
           head == SubSeq(s, 1, i - 1)
           tail == SubSeq(s, i + 1, n)
<1>1. n \in Nat /\ i \in 1 .. n /\ \A k \in 1 .. n : s[k] \in S
    BY LenProperties, ElementOfSeq
<1>2. /\ i \in Int /\ n \in Int /\ i - 1 \in Int /\ i + 1 \in Int
      /\ \A k \in 1 .. i - 1 : s[k] \in S
      /\ \A k \in i + 1 .. n : s[k] \in S
    BY <1>1
<1>3. /\ head \in Seq(S)
      /\ Len(head) = IF 1 <= i - 1 THEN i - 1 - 1 + 1 ELSE 0
      /\ \A k \in 1 .. i - 1 - 1 + 1 : head[k] = s[1 + k - 1]
    BY <1>2, SubSeqProperties
<1>4. /\ tail \in Seq(S)
      /\ Len(tail) = IF i + 1 <= n THEN n - (i + 1) + 1 ELSE 0
      /\ \A k \in 1 .. n - (i + 1) + 1 : tail[k] = s[i + 1 + k - 1]
    BY <1>2, SubSeqProperties
<1>5. RemoveAt(s, i) = head \o tail
    BY DEF RemoveAt
<1> HIDE DEF head, tail, n
<1>6. Len(head) = i - 1 /\ \A k \in 1 .. i - 1 : head[k] = s[k]
    BY <1>1, <1>3
<1>7. Len(tail) = n - i /\ \A k \in 1 .. n - i : tail[k] = s[i + k]
    BY <1>1, <1>4
<1>8. /\ head \o tail \in Seq(S) /\ Len(head \o tail) = Len(head) + Len(tail)
      /\ \A k \in 1 .. Len(head) + Len(tail) :
            (head \o tail)[k] = IF k <= Len(head) THEN head[k] ELSE tail[k - Len(head)]
    BY <1>3, <1>4, ConcatProperties
<1>9. Len(head \o tail) = n - 1
    BY <1>1, <1>6, <1>7, <1>8
<1>10. \A j \in 1 .. n - 1 : (head \o tail)[j] = s[IF j < i THEN j ELSE j + 1]
    <2> TAKE j \in 1 .. n - 1
    <2>1. CASE j < i
        <3>1. j \in 1 .. i - 1 /\ j \in 1 .. Len(head) + Len(tail)
            BY <1>1, <1>6, <1>7, <2>1
        <3> QED BY <1>6, <1>8, <2>1, <3>1
    <2>2. CASE ~(j < i)
        <3>1. /\ j - (i - 1) \in 1 .. n - i /\ j \in 1 .. Len(head) + Len(tail)
              /\ i + (j - (i - 1)) = j + 1 /\ ~(j <= i - 1)
            BY <1>1, <1>6, <1>7, <2>2
        <3>2. (head \o tail)[j] = tail[j - (i - 1)]
            BY <1>6, <1>8, <3>1
        <3>3. tail[j - (i - 1)] = s[j + 1]
            BY <1>7, <3>1
        <3> QED BY <2>2, <3>2, <3>3
    <2> QED BY <2>1, <2>2
<1> QED BY <1>5, <1>8, <1>9, <1>10 DEF n

\* The numbers of a copy drawn up now.
LEMMA RowNow ==
    ASSUME LearningInv, enrollment # None, NEW p \in 0 .. 100, p <= enrollment.percent
    PROVE  /\ Row(p) \in Copies /\ Row(p).blocks = Points /\ Row(p).progress = p
           /\ p = 100 => Points >= Cardinality(Blocks)
           /\ Row(p).total = Cardinality(Blocks)
           /\ Row(p).negative + Row(p).unknown <= Points /\ Row(p).reviewed <= Points
           /\ Row(p).state = "done" <=> p = 100
<1> DEFINE R == Records
           N == Marked("negative")
           U == Marked("unknown")
           V == {m \in Records : review[m] # None}
           P == Marked("positive")
           z == zone(Cardinality(N), Cardinality(N) + Cardinality(P))
<1>1. /\ doc \in Documents /\ enrollment = Enrolled(row)
      /\ IsFiniteSet(All) /\ IsFiniteSet(Blocks) /\ Blocks \subseteq All
    BY CourseFinite DEF LearningInv, Types, Agreed
<1>2. R \subseteq All /\ N \subseteq R /\ U \subseteq R /\ V \subseteq R /\ P \subseteq R
    BY DEF Records, Marked
<1>3. IsFiniteSet(R)
    BY <1>1, <1>2, FS_Subset
<1>4. /\ IsFiniteSet(N) /\ IsFiniteSet(U) /\ IsFiniteSet(V) /\ IsFiniteSet(P)
      /\ Cardinality(V) <= Cardinality(R)
    BY <1>2, <1>3, FS_Subset
<1>5. /\ Cardinality(R) \in Nat /\ Cardinality(N) \in Nat /\ Cardinality(U) \in Nat
      /\ Cardinality(V) \in Nat /\ Cardinality(Blocks) \in Nat
    BY <1>1, <1>3, <1>4, FS_CardinalityType
<1>6. Cardinality(N) + Cardinality(U) <= Cardinality(R)
    <2>1. N \cap U = {} /\ N \cup U \subseteq R
        BY <1>2 DEF Marked
    <2>2. Cardinality(N \cup U) = Cardinality(N) + Cardinality(U) - Cardinality(N \cap U)
        BY <1>4, FS_Union
    <2>3. Cardinality(N \cap U) = 0
        BY <2>1, FS_EmptySet
    <2>4. Cardinality(N \cup U) <= Cardinality(R)
        BY <1>3, <2>1, FS_Subset
    <2> HIDE DEF N, U, R
    <2> QED BY <1>5, <2>2, <2>3, <2>4
<1>7. p = 100 => Cardinality(R) >= Cardinality(Blocks)
    <2> SUFFICES ASSUME p = 100 PROVE Cardinality(R) >= Cardinality(Blocks)
        OBVIOUS
    <2>1. enrollment \in Percents
        BY <1>1, EnrolledType
    <2>2. enrollment.percent = 100
        BY <2>1 DEF Percents
    <2>3. \A m \in Blocks : DoneIn(row, m)
        BY <1>1, <2>2, EnrolledType
    <2>4. Blocks \subseteq R
        BY <1>1, <2>3 DEF Records, Done
    <2>5. Cardinality(Blocks) <= Cardinality(R)
        BY <1>3, <2>4, FS_Subset
    <2> HIDE DEF R
    <2> QED BY <1>5, <2>5
<1>8. z \in {"unknown", "green", "orange", "red"}
    BY DEF zone
<1>9. Row(p) = [progress |-> p, blocks |-> Cardinality(R), total |-> Cardinality(Blocks),
                negative |-> Cardinality(N), unknown |-> Cardinality(U), zone |-> z,
                reviewed |-> Cardinality(V),
                state |-> IF p = 100 THEN "done" ELSE IF Cardinality(R) = 0 THEN "new" ELSE "active"]
    BY DEF Row, summary, Counted
<1>10. Points = Cardinality(R)
    BY DEF Points
<1> HIDE DEF R, N, U, V, P, z
<1>11. Row(p) \in Copies
    BY <1>5, <1>8, <1>9 DEF Copies
<1> QED BY <1>4, <1>6, <1>7, <1>9, <1>10, <1>11

LEMMA ReportsStart == ReportsInit => ReportsInv
<1> SUFFICES ASSUME ReportsInit PROVE ReportsInv
    OBVIOUS
<1>1. reading = None /\ snapshots = << >> /\ Len(snapshots) = 0
    BY DEF ReportsInit
<1> QED BY <1>1, EmptySeq DEF ReportsInv

\* A student once enrolled stays so, and his percent does not fall.
LEMMA EnrolmentStays ==
    ASSUME LearningInv, [LearningNext]_learningVars, enrollment # None
    PROVE  enrollment' # None /\ enrollment.percent <= enrollment'.percent
<1>1. Types /\ doc \in Documents /\ Agreed
    BY DEF LearningInv, Types
<1>2. Kept
    BY LearningKeeps
<1>3. doc' = doc /\ \A m \in All : DoneIn(row, m) => DoneIn(row', m)
    BY <1>2 DEF Kept, RowsKept, DoneIn
<1>4. Enrolled(row)' = Enrolled(row')
    BY <1>3, SameCourse
<1>5. Enrolled(row') \in Percents /\ Percents = [percent : 0 .. 100, completed : BOOLEAN]
    BY <1>1, EnrolledType DEF Percents
<1>6. enrollment' # None
    <2>1. \A rows : Recalculate(rows) => row' = rows /\ enrollment' = Enrolled(rows)
        BY DEF Recalculate
    <2>2. \A rows : Recalculate(rows) => enrollment' \in Percents
        BY <1>5, <2>1
    <2>3. None \notin Percents
        BY LearningConstants DEF Percents
    <2>4. \A m, r, at, source, passed : Finish(m, r, at, source, passed) => enrollment' # None
        BY <2>2, <2>3 DEF Finish, progressVars
    <2>5. CASE Enrol
        BY <2>5 DEF Enrol
    <2>6. CASE Tick
        BY <2>6 DEF Tick, progressVars
    <2>7. CASE \E m \in All \cap Touched : Start(m) \/ Submit(m)
        BY <2>7 DEF Start, Submit, progressVars
    <2>8. CASE \E t \in Tabs : Receive(t) \/ Handle(t)
        BY <2>4, <2>8 DEF Receive, Handle, progressVars
    <2>9. CASE \E outcome \in {"accepted", "wrong_answer", "cancelled"} : Judged(outcome)
        BY <2>4, <2>9 DEF Judged, progressVars
    <2>10. CASE \E m \in All \cap Reviewed, value \in Verdicts \cup {"reset"} : Review(m, value)
        BY <2>10 DEF Review, progressVars
    <2>11. CASE UNCHANGED learningVars
        BY <2>11 DEF learningVars, progressVars
    <2> QED BY <2>5, <2>6, <2>7, <2>8, <2>9, <2>10, <2>11 DEF LearningNext
<1>7. enrollment' = Enrolled(row)'
    BY <1>2, <1>6 DEF Kept, LearningInv, Agreed
<1>8. enrollment = Enrolled(row)
    BY <1>1 DEF Agreed
<1>9. Enrolled(row).percent <= Enrolled(row').percent
    BY <1>1, <1>3, EnrolledGrows
<1> QED BY <1>4, <1>6, <1>7, <1>8, <1>9

\* No block is undone.
LEMMA PointsStay ==
    ASSUME LearningInv, [LearningNext]_learningVars
    PROVE  Points \in Nat /\ Points' \in Nat /\ Points <= Points'
<1>1. doc \in Documents /\ Kept
    BY LearningKeeps DEF LearningInv, Types
<1>2. doc' = doc /\ \A m \in All : DoneIn(row, m) => DoneIn(row', m)
    BY <1>1 DEF Kept, RowsKept, DoneIn
<1>3. DoneSet(row)' = DoneSet(row')
    BY <1>2, SameCourse
<1>4. Points = Cardinality(DoneSet(row))
    BY DEF Points, Records, DoneSet, Done
<1>5. Points' = Cardinality(DoneSet(row)')
    BY DEF Points, Records, DoneSet, Done
<1> QED BY <1>1, <1>2, <1>3, <1>4, <1>5, EnrolledGrows

\* Copies that were fair stay so while the student goes on.
LEMMA KeepsLearning ==
    ASSUME LearningInv, ReportsInv, [LearningNext]_learningVars, UNCHANGED reportVars
    PROVE  ReportsInv'
<1>1. reading' = reading /\ snapshots' = snapshots
    BY DEF reportVars
<1>2. enrollment # None => enrollment' # None /\ enrollment.percent <= enrollment'.percent
    BY EnrolmentStays
<1>3. Points \in Nat /\ Points' \in Nat /\ Points <= Points'
    BY PointsStay
<1>4. enrollment # None => enrollment.percent \in 0 .. 100
    BY DEF LearningInv, Types, Percents
<1>5. enrollment' # None => enrollment'.percent \in 0 .. 100
    BY LearningKeeps DEF Kept, LearningInv, Types, Percents
<1>6. reading' # None => reading' <= enrollment'.percent
    <2> SUFFICES ASSUME reading # None PROVE reading <= enrollment'.percent
        BY <1>1
    <2>1. reading \in 0 .. 100 /\ enrollment # None /\ reading <= enrollment.percent
        BY DEF ReportsInv
    <2>2. enrollment.percent \in Int /\ enrollment'.percent \in Int /\ reading \in Int
        BY <1>2, <1>4, <1>5, <2>1
    <2>3. \A a, b, d \in Int : a <= b /\ b <= d => a <= d
        OBVIOUS
    <2> QED BY <1>2, <2>1, <2>2, <2>3
<1>7. \A i \in 1 .. Len(snapshots) : Fair(snapshots'[i], Points', Latest')
    <2> TAKE i \in 1 .. Len(snapshots)
    <2> DEFINE r == snapshots[i]
    <2>1. r \in Copies /\ Fair(r, Points, Latest) /\ enrollment # None
        <3>1. snapshots # << >>
            BY EmptySeq DEF ReportsInv
        <3> QED BY <3>1, ElementOfSeq DEF ReportsInv
    <2>2. snapshots'[i] = r
        BY <1>1
    <2> HIDE DEF r
    <2>3. r.blocks <= Points'
        BY <1>3, <2>1 DEF Copies, Fair
    <2>4. Latest \in 0 .. 100 /\ Latest' \in 0 .. 100 /\ Latest <= Latest'
        BY <1>1, <1>2, <1>4, <1>5, <2>1 DEF Latest, ReportsInv
    <2>5. r.progress <= Latest'
        <3>1. r.progress \in 0 .. 100 /\ r.progress <= Latest
            BY <2>1 DEF Copies, Fair
        <3>2. \A a, b, d \in 0 .. 100 : a <= b /\ b <= d => a <= d
            OBVIOUS
        <3> QED BY <2>4, <3>1, <3>2
    <2> QED BY <2>1, <2>2, <2>3, <2>5 DEF Fair
<1> QED BY <1>1, <1>2, <1>6, <1>7 DEF ReportsInv

LEMMA KeepsReadPairs ==
    ASSUME LearningInv, ReportsInv, ReadPairs
    PROVE  ReportsInv'
<1>1. /\ reading = None /\ enrollment # None /\ reading' = enrollment.percent
      /\ snapshots' = snapshots /\ UNCHANGED learningVars
    BY DEF ReadPairs
<1>2. enrollment' = enrollment /\ doc' = doc /\ row' = row
    BY <1>1 DEF learningVars, progressVars
<1>3. enrollment.percent \in 0 .. 100
    BY <1>1 DEF LearningInv, Types, Percents
<1>4. enrollment.percent # None
    BY <1>3, LearningConstants
<1>5. Points' = Points
    BY <1>2 DEF Points, Records, Done, DoneIn, All
<1>6. Latest' = Latest
    BY <1>1, <1>2, <1>4 DEF Latest
<1>7. \A i \in 1 .. Len(snapshots) : Fair(snapshots'[i], Points', Latest')
    BY <1>1, <1>5, <1>6 DEF Fair, ReportsInv
<1>8. enrollment' # None /\ reading' \in 0 .. 100 /\ reading' <= enrollment'.percent
    BY <1>1, <1>2, <1>3
<1> QED BY <1>1, <1>7, <1>8 DEF ReportsInv

LEMMA KeepsKeep ==
    ASSUME LearningInv, ReportsInv, Keep
    PROVE  ReportsInv'
<1> DEFINE r == Row(reading)
           n == Len(snapshots)
<1>1. /\ reading # None /\ reading' = None /\ UNCHANGED learningVars
      /\ snapshots' = snapshots \/ snapshots' = Append(snapshots, r)
    BY DEF Keep
<1>2. enrollment' = enrollment /\ doc' = doc /\ row' = row
    BY <1>1 DEF learningVars, progressVars
<1>3. /\ reading \in 0 .. 100 /\ enrollment # None /\ reading <= enrollment.percent
      /\ enrollment.percent \in 0 .. 100 /\ snapshots \in Seq(Copies)
    BY <1>1 DEF ReportsInv, LearningInv, Types, Percents
<1>4. Points' = Points
    BY <1>2 DEF Points, Records, Done, DoneIn, All
<1>5. Latest = reading /\ Latest' = enrollment.percent
    BY <1>1, <1>2 DEF Latest
<1>6. n \in Nat /\ \A i \in 1 .. n : snapshots[i] \in Copies
    BY <1>3, LenProperties, ElementOfSeq
<1>7. \A i \in 1 .. n : Fair(snapshots'[i], Points', Latest')
    <2> TAKE i \in 1 .. n
    <2>1. Fair(snapshots[i], Points, Latest) /\ snapshots[i] \in Copies
        BY <1>6 DEF ReportsInv
    <2>2. snapshots[i].progress <= enrollment.percent
        <3>1. snapshots[i].progress \in 0 .. 100 /\ snapshots[i].progress <= reading
            BY <1>5, <2>1 DEF Fair, Copies
        <3>2. \A a, b, d \in 0 .. 100 : a <= b /\ b <= d => a <= d
            OBVIOUS
        <3> QED BY <1>3, <3>1, <3>2
    <2> HIDE DEF n, r
    <2>3. snapshots'[i] = snapshots[i]
        <3>1. r \in Copies
            BY <1>1, <1>3, RowNow DEF r
        <3>2. \A k \in 1 .. n : Append(snapshots, r)[k] = snapshots[k]
            BY <1>3, <3>1, AppendProperties DEF n
        <3> QED BY <1>1, <3>2
    <2> QED BY <1>4, <1>5, <2>1, <2>2, <2>3 DEF Fair
<1>8. CASE snapshots' = snapshots
    BY <1>1, <1>2, <1>3, <1>7, <1>8 DEF ReportsInv
<1>9. CASE snapshots' = Append(snapshots, r)
    <2>1. /\ r \in Copies /\ r.blocks = Points /\ r.progress = reading
          /\ reading = 100 => Points >= Cardinality(Blocks)
          /\ r.total = Cardinality(Blocks)
          /\ r.negative + r.unknown <= Points /\ r.reviewed <= Points
          /\ r.state = "done" <=> reading = 100
        BY <1>1, <1>3, RowNow
    <2> HIDE DEF r
    <2>2. /\ snapshots' \in Seq(Copies) /\ Len(snapshots') = n + 1 /\ snapshots'[n + 1] = r
          /\ \A i \in 1 .. n : snapshots'[i] = snapshots[i]
        BY <1>3, <1>9, <2>1, AppendProperties
    <2> HIDE DEF n
    <2>3. Points \in Nat
        BY <2>1 DEF Copies
    <2>4. Fair(r, Points', Latest')
        <3>1. r.progress = 100 => r.blocks >= r.total
            BY <2>1
        <3>2. r.blocks <= Points' /\ r.progress <= Latest'
            BY <1>3, <1>4, <1>5, <2>1, <2>3
        <3>3. r.negative + r.unknown <= r.blocks /\ r.reviewed <= r.blocks
            BY <2>1
        <3>4. r.state = "done" <=> r.progress = 100
            BY <2>1
        <3> QED BY <3>1, <3>2, <3>3, <3>4 DEF Fair
    <2>5. \A i \in 1 .. n + 1 : Fair(snapshots'[i], Points', Latest')
        BY <1>6, <1>7, <2>2, <2>4 DEF n
    <2>6. \A i \in 1 .. n : snapshots[i].blocks <= r.blocks /\ snapshots[i].progress <= r.progress
        BY <1>5, <2>1 DEF ReportsInv, Fair, n
    <2>7. \A i, j \in 1 .. n + 1 : i < j =>
              /\ snapshots'[i].blocks <= snapshots'[j].blocks
              /\ snapshots'[i].progress <= snapshots'[j].progress
        <3> TAKE i, j \in 1 .. n + 1
        <3> HAVE i < j
        <3>1. i \in 1 .. n /\ (j \in 1 .. n \/ j = n + 1)
            BY <1>6 DEF n
        <3> QED BY <2>2, <2>6, <3>1 DEF ReportsInv, n
    <2> QED BY <1>1, <1>2, <1>3, <2>2, <2>5, <2>7 DEF ReportsInv
<1> QED BY <1>1, <1>8, <1>9

LEMMA KeepsDelete ==
    ASSUME LearningInv, ReportsInv, NEW i \in DOMAIN snapshots, Delete(i)
    PROVE  ReportsInv'
<1> DEFINE n == Len(snapshots)
           Nth(j) == IF j < i THEN j ELSE j + 1
<1>1. /\ reading = None /\ reading' = None /\ snapshots' = RemoveAt(snapshots, i)
      /\ UNCHANGED learningVars
    BY DEF Delete
<1>2. enrollment' = enrollment /\ doc' = doc /\ row' = row
    BY <1>1 DEF learningVars, progressVars
<1>3. snapshots \in Seq(Copies) /\ n \in Nat /\ i \in 1 .. n
    BY LenProperties DEF ReportsInv
<1>4. /\ snapshots' \in Seq(Copies) /\ Len(snapshots') = n - 1
      /\ \A j \in 1 .. n - 1 : snapshots'[j] = snapshots[Nth(j)]
    BY <1>1, <1>3, Removed
<1>5. Points' = Points /\ Latest' = Latest
    BY <1>1, <1>2 DEF Points, Records, Done, DoneIn, All, Latest
<1> HIDE DEF n
<1>6. \A j \in 1 .. n - 1 : Nth(j) \in 1 .. n
    BY <1>3
<1>7. \A j, k \in 1 .. n - 1 : j < k => Nth(j) < Nth(k)
    BY <1>3
<1>8. snapshots # << >>
    BY <1>3 DEF n
<1> HIDE DEF At
<1>9. \A j \in 1 .. n - 1 : Fair(snapshots'[j], Points', Latest')
    BY <1>4, <1>5, <1>6 DEF ReportsInv, Fair, n
<1>10. \A j, k \in 1 .. n - 1 : j < k =>
          /\ snapshots'[j].blocks <= snapshots'[k].blocks
          /\ snapshots'[j].progress <= snapshots'[k].progress
    BY <1>4, <1>6, <1>7 DEF ReportsInv, n
<1> QED BY <1>1, <1>2, <1>4, <1>8, <1>9, <1>10 DEF ReportsInv

\* What is kept by every step, of the student or of a report.
LEMMA ReportsKeep ==
    ASSUME LearningInv, ReportsInv, [ReportsNext]_vars
    PROVE  LearningInv' /\ ReportsInv' /\ [LearningNext]_learningVars
<1>1. [LearningNext]_learningVars
    BY DEF ReportsNext, ReadPairs, Keep, Delete, vars
<1>2. LearningInv'
    BY <1>1, LearningKeeps DEF Kept
<1>3. CASE LearningNext /\ UNCHANGED reportVars
    BY <1>1, <1>2, <1>3, KeepsLearning
<1>4. CASE ReadPairs
    BY <1>1, <1>2, <1>4, KeepsReadPairs
<1>5. CASE Keep
    BY <1>1, <1>2, <1>5, KeepsKeep
<1>6. CASE \E i \in DOMAIN snapshots : Delete(i)
    BY <1>1, <1>2, <1>6, KeepsDelete
<1>7. CASE UNCHANGED vars
    BY <1>1, <1>2, <1>7, KeepsLearning DEF vars
<1> QED BY <1>1, <1>2, <1>3, <1>4, <1>5, <1>6, <1>7 DEF ReportsNext

LEMMA CopiesAgree == LearningInv /\ ReportsInv => ReportsKeepUp
<1> SUFFICES ASSUME LearningInv, ReportsInv PROVE ReportsKeepUp
    OBVIOUS
<1>1. ASSUME reading # None
      PROVE  LET c == Card(reading) IN c.progress = 100 => c.completed >= c.total
    <2>1. enrollment # None /\ reading \in 0 .. 100 /\ reading <= enrollment.percent
        BY <1>1 DEF ReportsInv
    <2>2. reading = 100 => Points >= Cardinality(Blocks)
        BY <2>1, RowNow
    <2> QED BY <2>2 DEF Card, Points
<1>2. /\ DOMAIN snapshots = 1 .. Len(snapshots)
      /\ \A i \in 1 .. Len(snapshots) : snapshots[i] \in Copies
    BY LenProperties, ElementOfSeq DEF ReportsInv
<1>3. \A i \in DOMAIN snapshots :
         LET r == snapshots[i] IN
         /\ r.progress = 100 => r.blocks >= r.total
         /\ r.blocks <= Points /\ r.negative + r.unknown <= r.blocks /\ r.reviewed <= r.blocks
    BY <1>2 DEF ReportsInv, Fair
<1>4. ASSUME NEW i \in DOMAIN snapshots, NEW j \in DOMAIN snapshots, i < j
      PROVE  LET c == Comparison(snapshots[i], snapshots[j]) IN
             /\ c.points_delta >= 0 /\ c.progress_before <= c.progress_after
             /\ snapshots[i].state = "done" => snapshots[j].state = "done"
    <2> DEFINE r == snapshots[i]
               s == snapshots[j]
    <2>1. /\ r \in Copies /\ s \in Copies /\ r.blocks <= s.blocks /\ r.progress <= s.progress
          /\ Fair(r, Points, Latest) /\ Fair(s, Points, Latest)
        BY <1>2, <1>4 DEF ReportsInv
    <2> HIDE DEF r, s
    <2>2. s.blocks - r.blocks >= 0
        BY <2>1 DEF Copies
    <2>3. r.state = "done" => s.state = "done"
        BY <2>1 DEF Copies, Fair
    <2> QED BY <2>1, <2>2, <2>3 DEF Comparison, r, s
<1> QED BY <1>1, <1>3, <1>4 DEF ReportsKeepUp

\* With reports drawn up beside it, the student's course is still that of
\* module Learning: a report changes nothing of it.
THEOREM Reports_IsLearning == Spec => LearningSpec
<1>1. ReportsInit => LearningInit
    BY DEF ReportsInit
<1>2. [ReportsNext]_vars => [LearningNext]_learningVars
    BY DEF ReportsNext, ReadPairs, Keep, Delete, vars
<1> QED BY <1>1, <1>2, PTL DEF Spec, LearningSpec

\* A copy of a report is never ahead of what is there, and never falls back
\* behind an older one, though it is put together from queries of different
\* moments and the teacher may delete any of them (report_rows, snapshot,
\* rating_data).
THEOREM Reports_KeepUp == Spec => []ReportsKeepUp
<1>1. ReportsInit => LearningInv /\ ReportsInv
    BY LearningStarts, ReportsStart DEF ReportsInit
<1>2. (LearningInv /\ ReportsInv) /\ [ReportsNext]_vars => (LearningInv /\ ReportsInv)'
    BY ReportsKeep
<1>3. LearningInv /\ ReportsInv => ReportsKeepUp
    BY CopiesAgree
<1> QED BY <1>1, <1>2, <1>3, PTL DEF Spec
=============================================================================
