------------------------------ MODULE Reports ------------------------------
(* What others are shown of the student of module Learning: the reports of *)
(* teaching/services.py, the copies a teacher keeps of them and compares   *)
(* (teaching/views.py), the rating and the student's card                  *)
(* (learning/views.py).                                                    *)
(*                                                                         *)
(* A report takes no lock: the percent of a course is read in one query,   *)
(* the blocks are counted in a later one, and what the student does in     *)
(* between is in one and not in the other.  The filters decide whose rows  *)
(* are in a report; here it is the row of this student and this course.    *)
EXTENDS Learning

CONSTANTS SnapshotLimit     \* 100 in the code

ASSUME ReportsConstants == SnapshotLimit \in Nat

VARIABLES
    reading,        \* None, or the percent a report under way has read
    snapshots       \* ReportSnapshot rows of a teacher, oldest first

reportVars == <<reading, snapshots>>
vars == <<learningVars, reportVars>>

\* scoped_records: the completed blocks, with the mark in force.
Records == {m \in All : Done(m)}
Marked(v) == {m \in Records : Effective(m) = v}

\* summary: the numbers of the student's card and of the rating.
summary ==
    LET negative == Cardinality(Marked("negative"))
        assessed == negative + Cardinality(Marked("positive"))
    IN  [total |-> Cardinality(Records), negative |-> negative, assessed |-> assessed,
         unknown |-> Cardinality(Marked("unknown")), zone |-> zone(negative, assessed)]

\* The points of the rating: one for each block.
Points == Cardinality(Records)

\* report_rows, the row of a course whose percent has been read before.
Counted_Assessed == summary.assessed \* mutant
Counted == summary.total
Row(progress) ==
    [progress |-> progress, blocks |-> Counted, total |-> Cardinality(Blocks),
     negative |-> summary.negative, unknown |-> summary.unknown, zone |-> summary.zone,
     reviewed |-> Cardinality({m \in Records : review[m] # None}),
     state |-> IF progress = 100 THEN "done" ELSE IF Counted = 0 THEN "new" ELSE "active"]

\* student_data: the line of a course on the student's card, which is put
\* together in the same order.
Card(progress) ==
    [progress |-> progress, completed |-> Cardinality(Records), total |-> Cardinality(Blocks)]

ReportsInit == LearningInit /\ reading = None /\ snapshots = << >>

\* views.snapshots: a report is drawn up to be kept; with no room it is not.
ReadPairs ==
    /\ reading = None /\ enrollment # None
    /\ reading' = enrollment.percent
    /\ UNCHANGED <<learningVars, snapshots>>

Keep ==
    /\ reading # None /\ reading' = None
    /\ snapshots' = IF Len(snapshots) < SnapshotLimit THEN Append(snapshots, Row(reading)) ELSE snapshots
    /\ UNCHANGED learningVars

\* views.snapshot, POST.
Delete(i) ==
    /\ reading = None /\ snapshots' = RemoveAt(snapshots, i)
    /\ UNCHANGED <<learningVars, reading>>

\* views.snapshot, what it says of two copies.
Comparison(before, after) ==
    [progress_before |-> before.progress, progress_after |-> after.progress,
     points_delta |-> after.blocks - before.blocks]

ReportsNext ==
    \/ LearningNext /\ UNCHANGED reportVars
    \/ ReadPairs \/ Keep
    \/ \E i \in DOMAIN snapshots : Delete(i)

Spec == ReportsInit /\ [][ReportsNext]_vars

\* What a report says was so: it never calls a course finished whose blocks
\* it does not count, its points are never ahead of the rating of the day, and
\* of two copies the later one has no less progress, no fewer points and no
\* finished course begun again - although each is put together from queries
\* of different moments (report_rows, snapshot, rating_data).
ReportsKeepUp ==
    /\ reading # None =>
          LET c == Card(reading) IN c.progress = 100 => c.completed >= c.total
    /\ \A i \in DOMAIN snapshots :
          LET r == snapshots[i] IN
          /\ r.progress = 100 => r.blocks >= r.total
          /\ r.blocks <= Points /\ r.negative + r.unknown <= r.blocks /\ r.reviewed <= r.blocks
    /\ \A i, j \in DOMAIN snapshots : i < j =>
          LET c == Comparison(snapshots[i], snapshots[j]) IN
          /\ c.points_delta >= 0 /\ c.progress_before <= c.progress_after
          /\ snapshots[i].state = "done" => snapshots[j].state = "done"
=============================================================================
