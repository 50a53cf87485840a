--------------------------- MODULE AutoquizProofs ---------------------------
(* Theorems about Autoquiz, for any steps, files, pages, editors, worker     *)
(* processes and failures.                                                   *)
EXTENDS Autoquiz, FiniteSetTheorems, FunctionTheorems, TLAPS

(***************************************************************************)
(* The inductive invariant.                                                *)
(***************************************************************************)
Running == {"transcribing", "generating"}
Row == [state : States, revision : Nat, reviewed : Nat, token : Nat, questions : Nat, born : Nat]
PageRow == [job : Jobs, state : States, revision : Nat, questions : Nat, draft : 1 .. MaxRevision]
EditorRow == [revision : 1 .. MaxRevision, asset : [Videos -> Assets \cup {None}],
              quizzes : SUBSET (Jobs \X Nat)]
WorkerRow == [pc : {"down", "idle", "take", "refresh", "transcribe", "saveText", "generate", "saveQuiz"},
              token : Nat, lost : BOOLEAN, job : Jobs \cup {None}, questions : Nat, ok : BOOLEAN]

Types ==
    /\ revision \in 1 .. MaxRevision /\ asset \in [Videos -> Assets \cup {None}]
    /\ quizzes \subseteq Jobs \X Nat /\ archived \in BOOLEAN /\ published \in 0 .. revision
    /\ editor \in [Editors -> EditorRow \cup {None}]
    /\ page \in [Pages -> PageRow \cup {None}]
    /\ cancelling \in [job : Jobs, row : Row] \cup {None}
    /\ job \in [Jobs -> Row] /\ confirmed \in [Jobs -> Nat]
    /\ lease \in [token : Nat, expired : BOOLEAN]
    /\ worker \in [Workers -> WorkerRow]
    /\ overtaken \subseteq Jobs

\* A row that anybody has made has a revision, and no review is of a later one.
\* A ready row that is marked as reviewed holds the text that was confirmed.
Reviews ==
    \A j \in Jobs : /\ job[j].reviewed <= job[j].revision
                    /\ job[j].state # "none" => job[j].revision >= 1
                    /\ job[j].state = "ready" /\ job[j].reviewed = job[j].revision
                          => confirmed[j] = job[j].questions

\* Tokens are drawn once: a process is told from those before it, and only a
\* row that is worked on carries one.
Tokens ==
    /\ \A w \in Workers : worker[w].pc # "down" => worker[w].token \in 1 .. lease.token
    /\ \A v, w \in Workers : worker[v].pc # "down" /\ worker[w].pc # "down"
                             /\ worker[v].token = worker[w].token => v = w
    /\ \A j \in Jobs : IF job[j].state \in Running THEN job[j].token \in 1 .. lease.token
                       ELSE job[j].token = 0

\* A worker whose token is in the row has read the questions the row holds.
Memory ==
    \A w \in Workers :
        /\ worker[w].pc \notin {"down", "idle"} => worker[w].job \in Jobs
        /\ worker[w].pc \in {"transcribe", "saveText", "generate", "saveQuiz"}
           /\ job[worker[w].job].token = worker[w].token
              => worker[w].questions = job[worker[w].job].questions

\* While a cancel is between its SELECT and its save, the worker alone goes on
\* with the row: it takes it and ends it, and no more.
Between ==
    cancelling # None =>
        LET now == job[cancelling.job]
            row == cancelling.row
        IN  /\ row.state \in Active /\ row.reviewed <= row.revision
            /\ \/ now.state = "queued" /\ now.revision = row.revision
               \/ now.state \in Running /\ now.revision <= row.revision + 1
               \/ now.state \in {"ready", "failed", "stale"} /\ now.revision <= row.revision + 2

\* A page shows a row as it was: a revision that is ahead of the row's is one
\* that a cancel has taken back.
Ahead(j) == IF job[j].state = "cancelled" THEN 1 ELSE 0
PagesBehind ==
    \A p \in Pages : page[p] # None =>
        LET j == page[p].job
        IN  job[j].state # "none" /\ page[p].revision <= job[j].revision + Ahead(j)

\* An editor of the current revision shows the current draft.
EditorsBehind ==
    \A e \in Editors : editor[e] # None =>
        /\ editor[e].revision <= revision
        /\ editor[e].revision = revision => editor[e].asset = asset /\ editor[e].quizzes = quizzes

AutoquizInv ==
    /\ Types /\ Reviews /\ Tokens /\ Memory /\ Between /\ PagesBehind /\ EditorsBehind
    /\ EditsAreSeen /\ QuizMatchesVideo

(***************************************************************************)
(* What a step may do to a row o that becomes n.                           *)
(***************************************************************************)
Later(o, n) == n.revision = o.revision + 1 /\ n.questions = o.questions

Starts(o, n)  == o.state = "none" /\ n.state = "queued" /\ n.revision = 1 /\ n.reviewed = 0 /\ n.token = 0
Outdates(o, n) == /\ o.state \in Active \cup {"ready", "failed"} /\ n.state = "stale" /\ Later(o, n)
                  /\ n.reviewed = o.reviewed /\ n.token = 0
Requeues(o, n) == /\ o.state \in {"failed", "cancelled", "ready"} /\ n.state = "queued" /\ Later(o, n)
                  /\ n.reviewed = 0 /\ n.token = 0
Applies(o, n) == /\ o.state = "ready" /\ n.state = "applied" /\ Later(o, n)
                 /\ n.reviewed = o.reviewed /\ n.token = o.token
ByPeople(o, n) == Starts(o, n) \/ Outdates(o, n) \/ Requeues(o, n) \/ Applies(o, n)

Takes(w, o, n) == /\ o.state = "queued" /\ n.state = "transcribing" /\ Later(o, n)
                  /\ n.reviewed = o.reviewed /\ worker[w].pc = "take" /\ n.token = worker[w].token
Goes(o, n) == /\ o.state \in Running /\ n.state = "generating" /\ n.revision = o.revision
              /\ n.questions = o.questions /\ n.reviewed = o.reviewed /\ n.token = o.token
Breaks(o, n) == /\ o.state \in Running /\ n.state \in {"failed", "stale"} /\ Later(o, n)
                /\ n.reviewed = o.reviewed /\ n.token = 0
Finishes(o, n) == /\ o.state \in Running /\ n.state = "ready" /\ n.revision = o.revision + 1
                  /\ n.questions = o.questions + 1 /\ n.reviewed = 0 /\ n.token = 0
ByWorker(o, n) == \/ \E w \in Workers : Takes(w, o, n)
                  \/ Goes(o, n) \/ Breaks(o, n) \/ Finishes(o, n)

Edits(o, n) == /\ o.state = "ready" /\ n.state = "ready" /\ n.revision = o.revision + 1
               /\ n.reviewed \in {0, n.revision} /\ n.token = o.token
Cancels(row, n) == /\ n.state = "cancelled" /\ n.revision = row.revision + 1
                   /\ n.reviewed = row.reviewed /\ n.token = 0

\* What a step does to a row and to what was confirmed of it.
Stays(j)     == job'[j] = job[j] /\ confirmed'[j] = confirmed[j]
Asked(j)     == /\ ByPeople(job[j], job'[j]) /\ confirmed'[j] = confirmed[j] /\ cancelling = None
                /\ job'[j].state = "queued" => asset'[j[1]] = j[2]
Worked(j)    == ByWorker(job[j], job'[j]) /\ confirmed'[j] = confirmed[j]
Rewritten(j) == /\ Edits(job[j], job'[j]) /\ cancelling = None
                /\ IF job'[j].reviewed = 0 THEN confirmed'[j] = confirmed[j]
                                           ELSE confirmed'[j] = job'[j].questions
Cancelled(j) == /\ cancelling # None /\ cancelling' = None /\ j = cancelling.job
                /\ Cancels(cancelling.row, job'[j]) /\ confirmed'[j] = confirmed[j]
Change(j) == Stays(j) \/ Asked(j) \/ Worked(j) \/ Rewritten(j) \/ Cancelled(j)
Changes == /\ job' \in [Jobs -> Row] /\ confirmed' \in [Jobs -> Nat]
           /\ \A j \in Jobs : Change(j)

\* The fields that the model's row updates set, for any value of theirs.
Ended(r, s, n)     == [r EXCEPT !.state = s, !.token = 0, !.revision = n]
Begun(r, s, k, n)  == [r EXCEPT !.state = s, !.token = k, !.revision = n]
Again(r, s, n)     == [r EXCEPT !.state = s, !.token = 0, !.reviewed = 0, !.revision = n]
Filled(r, s, q, n) == [r EXCEPT !.state = s, !.questions = q, !.reviewed = 0, !.token = 0, !.revision = n]
Edited(r, q, n, k) == [r EXCEPT !.questions = q, !.revision = n, !.reviewed = k]
Born(r, s, n, k)   == [r EXCEPT !.state = s, !.revision = n, !.born = k]
Moved(r, s, n)     == [r EXCEPT !.state = s, !.revision = n]
InStage(r, s)      == [r EXCEPT !.state = s]

Has(x, s, n, k, q, v) ==
    x \in Row /\ x.state = s /\ x.revision = n /\ x.token = k /\ x.questions = q /\ x.reviewed = v

LEMMA RowFields ==
    ASSUME NEW r \in Row, NEW s \in States, NEW n \in Nat, NEW k \in Nat, NEW q \in Nat
    PROVE  /\ Has(Ended(r, s, n), s, n, 0, r.questions, r.reviewed)
           /\ Has(Begun(r, s, k, n), s, n, k, r.questions, r.reviewed)
           /\ Has(Again(r, s, n), s, n, 0, r.questions, 0)
           /\ Has(Filled(r, s, q, n), s, n, 0, q, 0)
           /\ Has(Edited(r, q, n, k), r.state, n, r.token, q, k)
           /\ Has(Born(r, s, n, k), s, n, r.token, r.questions, r.reviewed)
           /\ Has(Moved(r, s, n), s, n, r.token, r.questions, r.reviewed)
           /\ Has(InStage(r, s), s, r.revision, r.token, r.questions, r.reviewed)
BY DEF Row, Has, Ended, Begun, Again, Filled, Edited, Born, Moved, InStage

LEMMA RowSteps ==
    ASSUME NEW r \in Row
    PROVE  /\ Outdated(r) \in Row /\ Requeued(r) \in Row /\ Failed(r) \in Row
           /\ r.state \in Active \cup {"ready", "failed"} => Outdates(r, Outdated(r))
           /\ r.state \in Running => Breaks(r, Outdated(r)) /\ Breaks(r, Failed(r))
           /\ r.state \in {"failed", "cancelled", "ready"} => Requeues(r, Requeued(r))
           /\ Outdated(r).state = "stale" /\ Requeued(r).revision = r.revision + 1
<1> DEFINE n == r.revision + 1
<1>1. n \in Nat /\ "stale" \in States /\ "queued" \in States /\ "failed" \in States
  BY DEF Row, States, Active
<1>2. Outdated(r) = Ended(r, "stale", n) /\ Requeued(r) = Again(r, "queued", n) /\ Failed(r) = Ended(r, "failed", n)
  BY DEF Outdated, Requeued, Failed, Ended, Again
<1>3. Has(Outdated(r), "stale", n, 0, r.questions, r.reviewed)
  BY <1>1, <1>2, RowFields
<1>4. Has(Requeued(r), "queued", n, 0, r.questions, 0)
  BY <1>1, <1>2, RowFields
<1>5. Has(Failed(r), "failed", n, 0, r.questions, r.reviewed)
  BY <1>1, <1>2, RowFields
<1> QED BY <1>3, <1>4, <1>5 DEF Has, Outdates, Breaks, Requeues, Later, Running

LEMMA RowEnds ==
    ASSUME NEW r \in Row, NEW q \in Nat
    PROVE  /\ Finished(r, q) \in Row
           /\ r.state \in Running /\ q = r.questions + 1 => Finishes(r, Finished(r, q))
           /\ Fresh(q) \in Row /\ (r.state = "none" => Starts(r, Fresh(q)))
           /\ Fresh(q).state = "queued"
<1> DEFINE n == r.revision + 1
<1>1. n \in Nat /\ "ready" \in States /\ "queued" \in States /\ "none" \in States
  BY DEF Row, States, Active
<1>2. Finished(r, q) = Filled(r, "ready", q, n) /\ Fresh(q) = Born(NoJob, "queued", 1, q)
  BY DEF Finished, Fresh, Filled, Born
<1>3. Has(Finished(r, q), "ready", n, 0, q, 0)
  BY <1>1, <1>2, RowFields
<1>4. NoJob \in Row /\ NoJob.token = 0 /\ NoJob.reviewed = 0
  BY <1>1 DEF NoJob, Row
<1>5. Has(Fresh(q), "queued", 1, 0, NoJob.questions, 0)
  BY <1>1, <1>2, <1>4, RowFields
<1> QED BY <1>3, <1>5 DEF Has, Finishes, Starts

LEMMA OneRow ==
    ASSUME Types, NEW j \in Jobs, NEW x \in Row, job' = [job EXCEPT ![j] = x]
    PROVE  job' \in [Jobs -> Row] /\ job'[j] = x /\ \A i \in Jobs \ {j} : job'[i] = job[i]
BY DEF Types

LEMMA JobsCounted == Cardinality(Created) \in Nat
<1>1. IsFiniteSet(Videos \X Assets)
  BY AutoquizConstants, FS_Product
<1>2. IsFiniteSet((Videos \X Assets) \X Sources)
  BY <1>1, AutoquizConstants, FS_Product
<1> DEFINE Nested == (Videos \X Assets) \X Sources
           flat == [x \in Nested |-> <<x[1][1], x[1][2], x[2]>>]
<1>3. flat \in Surjection(Nested, Jobs)
  <2>1. flat \in [Nested -> Jobs]
    BY DEF Jobs
  <2>2. ASSUME NEW j \in Jobs PROVE \E x \in Nested : flat[x] = j
    <3>1. <<<<j[1], j[2]>>, j[3]>> \in Nested /\ flat[<<<<j[1], j[2]>>, j[3]>>] = j
      BY DEF Jobs
    <3> QED BY <3>1
  <2> QED BY <2>1, <2>2 DEF Surjection
<1>4. IsFiniteSet(Jobs)
  BY <1>2, <1>3, FS_Surjection
<1> QED BY <1>4, FS_Subset, FS_CardinalityType DEF Created

(***************************************************************************)
(* Every step changes the rows in one of these ways.                       *)
(***************************************************************************)
\* One row is rewritten, nobody confirms anything.
LEMMA OneChange ==
    ASSUME Types, NEW j \in Jobs, NEW x \in Row, job' = [job EXCEPT ![j] = x], confirmed' = confirmed,
           x = job'[j] => Change(j)
    PROVE  Changes
BY OneRow DEF Types, Changes, Change, Stays

LEMMA NoChange ==
    ASSUME Types, job' = job, confirmed' = confirmed
    PROVE  Changes
BY DEF Types, Changes, Change, Stays

LEMMA EnqueuedRows ==
    ASSUME Types, cancelling = None, confirmed' = confirmed,
           NEW J \in [Jobs -> Row],
           \A j \in Jobs : \/ J[j] = job[j]
                          \/ (job[j].state \in Active \cup {"ready"} /\ J[j] = Outdated(job[j])),
           NEW New \in SUBSET Jobs,
           \A j \in New : job[j].state = "none" /\ asset'[j[1]] = j[2],
           job' = Enqueued(J, New)
    PROVE  /\ Changes
           /\ \A j \in Jobs : \/ j \in New
                              \/ job'[j] = J[j] /\ J[j] = job[j]
                              \/ job'[j].state = "stale"
<1> DEFINE n == Cardinality(Created) + 1
<1>1. n \in Nat
  BY JobsCounted
<1>2. \A j \in Jobs : Outdated(job[j]) \in Row /\ Outdated(job[j]).state = "stale" /\ job[j] \in Row
  BY RowSteps DEF Types
<1>3. ASSUME NEW j \in New
      PROVE  job'[j] \in Row /\ Asked(j)
  <2>1. job'[j] = Fresh(n)
    BY DEF Enqueued
  <2>2. job'[j] \in Row /\ Starts(job[j], job'[j])
    <3> DEFINE r == job[j]
    <3>1. r \in Row /\ r.state = "none" /\ n \in Nat
      BY <1>1, <1>2
    <3> HIDE DEF r, n
    <3>2. Fresh(n) \in Row /\ Starts(r, Fresh(n))
      BY <3>1, RowEnds
    <3> QED BY <2>1, <3>2 DEF r
  <2> QED BY <2>2 DEF Asked, ByPeople
<1>4. ASSUME NEW j \in Jobs \ New
      PROVE  \/ job'[j] = J[j]
             \/ job[j].state \in Active \cup {"ready", "failed"} /\ job'[j] = Outdated(job[j])
  <2>1. \/ job'[j] = J[j]
        \/ J[j].state \in Active \cup {"ready", "failed"} /\ job'[j] = Outdated(J[j])
    BY DEF Enqueued
  <2>2. CASE J[j] = job[j]
    BY <2>1, <2>2
  <2>3. CASE J[j] = Outdated(job[j])
    BY <1>2, <2>1, <2>3 DEF Active
  <2> QED BY <2>2, <2>3
<1>5. ASSUME NEW j \in Jobs \ New
      PROVE  /\ job'[j] \in Row
             /\ Stays(j) \/ Asked(j)
             /\ \/ job'[j] = J[j] /\ J[j] = job[j]
                \/ job'[j].state = "stale"
  <2>1. CASE job'[j] = job[j]
    BY <1>4, <2>1, <1>2 DEF Stays
  <2>2. CASE job[j].state \in Active \cup {"ready", "failed"} /\ job'[j] = Outdated(job[j])
    <3>1. job'[j] \in Row /\ job'[j].state = "stale" /\ Outdates(job[j], job'[j])
      BY <1>2, <2>2, RowSteps
    <3> QED BY <3>1 DEF Asked, ByPeople
  <2> QED BY <1>4, <2>1, <2>2
<1>6. DOMAIN job' = Jobs /\ job' = [j \in Jobs |-> job'[j]]
  BY DEF Enqueued
<1>7. job' \in [Jobs -> Row]
  BY <1>3, <1>5, <1>6
<1> QED BY <1>3, <1>5, <1>7 DEF Changes, Change, Types

\* A job of a step that was saved is of the file the step has now.
LEMMA SaveChanges ==
    ASSUME AutoquizInv, NEW e \in Editors, NEW a \in [Videos -> Assets \cup {None}], NEW q, Save(e, a, q)
    PROVE  Changes /\ QuizMatchesVideo'
<1> DEFINE J == Synced(a)
           New == Automatic(a)
<1>1. /\ cancelling = None /\ confirmed' = confirmed /\ asset' = a /\ job' = Enqueued(J, New)
  BY DEF Save, DraftFree, ghosts
<1>2. Types
  BY DEF AutoquizInv
<1>3. \A j \in Jobs : Outdated(job[j]) \in Row /\ job[j] \in Row
  BY <1>2, RowSteps DEF Types
<1>4. /\ J \in [Jobs -> Row]
      /\ \A j \in Jobs : \/ J[j] = job[j]
                         \/ (job[j].state \in Active \cup {"ready"} /\ J[j] = Outdated(job[j]))
  BY <1>3 DEF Synced
<1>5. New \in SUBSET Jobs /\ \A j \in New : job[j].state = "none" /\ asset'[j[1]] = j[2]
  BY <1>1 DEF Automatic, Created, InState
<1>6. \A j \in Jobs : J[j] = job[j] /\ job[j].state \in Active \cup {"ready"} => a[j[1]] = j[2]
  <2> SUFFICES ASSUME NEW j \in Jobs, J[j] = job[j], job[j].state \in Active \cup {"ready"}, a[j[1]] # j[2]
               PROVE  FALSE
    OBVIOUS
  <2>1. job[j] = Outdated(job[j])
    BY DEF Synced
  <2>2. Outdated(job[j]).state = "stale"
    BY <1>3, RowSteps
  <2> QED BY <2>1, <2>2 DEF Active
<1> HIDE DEF J, New
<1>7. /\ Changes
      /\ \A j \in Jobs : \/ j \in New
                         \/ job'[j] = J[j] /\ J[j] = job[j]
                         \/ job'[j].state = "stale"
  BY <1>1, <1>2, <1>4, <1>5, EnqueuedRows
<1>8. ASSUME NEW j \in Jobs, job'[j].state \in Active \cup {"ready"} PROVE asset'[j[1]] = j[2]
  <2>1. job'[j].state # "stale"
    BY <1>8 DEF Active
  <2>2. j \in New \/ (job'[j] = J[j] /\ J[j] = job[j])
    BY <1>7, <2>1
  <2> QED BY <1>1, <1>5, <1>6, <1>8, <2>2
<1> QED BY <1>7, <1>8 DEF QuizMatchesVideo, InState

LEMMA QueueChanges ==
    ASSUME AutoquizInv, NEW j \in Jobs, QueueVideo(j)
    PROVE  Changes
<1>1. /\ cancelling = None /\ confirmed' = confirmed /\ asset' = asset /\ job' = Enqueued(job, {j})
      /\ job[j].state = "none" /\ asset[j[1]] = j[2]
  BY DEF QueueVideo, DraftFree, VideoIn, draftVars, ghosts
<1> DEFINE New == {j}
<1>2. New \in SUBSET Jobs /\ \A i \in New : job[i].state = "none" /\ asset'[i[1]] = i[2]
  BY <1>1
<1>3. Types /\ job \in [Jobs -> Row]
  BY DEF AutoquizInv, Types
<1>4. job' = Enqueued(job, New)
  BY <1>1
<1> HIDE DEF New
<1> QED BY <1>1, <1>2, <1>3, <1>4, EnqueuedRows

LEMMA EditChanges ==
    ASSUME AutoquizInv, NEW p \in Pages, NEW reviewed \in BOOLEAN, EditResult(p, reviewed)
    PROVE  Changes
<1> DEFINE j == page[p].job
           r == job[j].revision + 1
           q == page[p].questions + 1
           k == ReviewMark(reviewed, r)
           x == Edited(job[j], q, r, k)
<1>1. Types
  BY DEF AutoquizInv
<1>2. page[p] # None /\ cancelling = None /\ job[j].state = "ready"
  BY DEF EditResult, MayAct, Current, DraftFree
<1>3. j \in Jobs /\ job[j] \in Row /\ r \in Nat /\ q \in Nat
  BY <1>1, <1>2 DEF Types, PageRow, Row
<1>4. k \in {0, r} /\ k \in Nat /\ (k # 0 => reviewed) /\ (k = 0 => ~reviewed)
  BY <1>1, <1>3 DEF ReviewMark, Types, Row
<1>5. /\ job' = [job EXCEPT ![j] = x]
      /\ confirmed' = IF reviewed THEN [confirmed EXCEPT ![j] = q] ELSE confirmed
  BY DEF EditResult, Edited
<1>s. r = job[j].revision + 1
  OBVIOUS
<1> HIDE DEF k, q, r
<1>6. Has(x, job[j].state, r, job[j].token, q, k)
  BY <1>2, <1>3, <1>4, RowFields DEF States
<1> HIDE DEF j, x
<1>7. x \in Row
  BY <1>6 DEF Has
<1>8. job' \in [Jobs -> Row] /\ job'[j] = x /\ \A i \in Jobs \ {j} : job'[i] = job[i]
  BY <1>1, <1>3, <1>5, <1>7, OneRow
<1>9. /\ confirmed' \in [Jobs -> Nat]
      /\ IF k = 0 THEN confirmed'[j] = confirmed[j] ELSE confirmed'[j] = q
      /\ \A i \in Jobs \ {j} : confirmed'[i] = confirmed[i]
  BY <1>1, <1>3, <1>4, <1>5 DEF Types
<1>10. Rewritten(j)
  BY <1>2, <1>4, <1>6, <1>8, <1>9, <1>s DEF Has, Rewritten, Edits
<1> QED BY <1>8, <1>9, <1>10 DEF Changes, Change, Stays

LEMMA CancelChanges ==
    ASSUME AutoquizInv, CancelSave
    PROVE  Changes
<1> DEFINE j == cancelling.job
           row == cancelling.row
           r == row.revision + 1
           x == Ended(row, "cancelled", r)
<1>1. Types /\ cancelling # None /\ cancelling' = None /\ confirmed' = confirmed
  BY DEF AutoquizInv, CancelSave, ghosts
<1>2. j \in Jobs /\ row \in Row
  BY <1>1 DEF Types
<1>3. r \in Nat /\ "cancelled" \in States
  BY <1>2 DEF Row, States
<1>4. job' = [job EXCEPT ![j] = x]
  BY DEF CancelSave, Ended
<1>5. Has(x, "cancelled", r, 0, row.questions, row.reviewed)
  BY <1>2, <1>3, RowFields
<1>6. x \in Row
  BY <1>5 DEF Has
<1>7. job' \in [Jobs -> Row] /\ job'[j] = x /\ \A i \in Jobs \ {j} : job'[i] = job[i]
  <2> HIDE DEF j, x
  <2> QED BY <1>1, <1>2, <1>4, <1>6, OneRow
<1>8. Cancels(row, job'[j])
  <2> HIDE DEF j, x
  <2> QED BY <1>5, <1>7 DEF Has, Cancels
<1> QED BY <1>1, <1>7, <1>8 DEF Changes, Change, Stays, Cancelled, Types

LEMMA RequeueChanges ==
    ASSUME AutoquizInv, NEW p \in Pages, Requeue(p)
    PROVE  Changes
<1> DEFINE j == page[p].job
           x == Requeued(job[j])
<1>1. Types /\ page[p] # None /\ cancelling = None /\ confirmed' = confirmed /\ asset' = asset
  BY DEF AutoquizInv, Requeue, MayAct, Current, DraftFree, draftVars, ghosts
<1>2. j \in Jobs /\ job[j] \in Row
  BY <1>1 DEF Types, PageRow
<1>3. job' = [job EXCEPT ![j] = x] /\ asset[j[1]] = j[2] /\ job[j].state \in {"failed", "cancelled", "ready"}
  BY DEF Requeue, VideoIn, Restartable
<1>4. x \in Row /\ Requeues(job[j], x)
  BY <1>2, <1>3, RowSteps
<1> HIDE DEF j, x
<1>5. job'[j] = x
  BY <1>1, <1>2, <1>3, <1>4, OneRow
<1>6. Change(j)
  BY <1>1, <1>3, <1>4, <1>5 DEF Change, Asked, ByPeople
<1> QED BY <1>1, <1>2, <1>3, <1>4, <1>6, OneChange

LEMMA ApplyChanges ==
    ASSUME AutoquizInv, NEW p \in Pages, ApplyResult(p)
    PROVE  Changes
<1> DEFINE j == page[p].job
           r == job[j].revision + 1
           x == Moved(job[j], "applied", r)
<1>1. /\ Types /\ page[p] # None /\ cancelling = None /\ confirmed' = confirmed
      /\ job[j].state = "ready"
  BY DEF AutoquizInv, ApplyResult, Applicable, Current, DraftFree, ghosts
<1>2. j \in Jobs /\ job[j] \in Row
  BY <1>1 DEF Types, PageRow
<1>3. job' = [job EXCEPT ![j] = x]
  BY <1>1, <1>2 DEF ApplyResult, Moved, Types
<1>4. r \in Nat /\ "applied" \in States
  BY <1>2 DEF Row, States
<1>5. Has(x, "applied", r, job[j].token, job[j].questions, job[j].reviewed)
  BY <1>2, <1>4, RowFields
<1>6. x \in Row /\ Applies(job[j], x) /\ x.state = "applied"
  BY <1>1, <1>5 DEF Has, Applies, Later
<1> HIDE DEF j, x
<1>7. job'[j] = x
  BY <1>1, <1>2, <1>3, <1>6, OneRow
<1>8. Change(j)
  BY <1>1, <1>6, <1>7 DEF Change, Asked, ByPeople
<1> QED BY <1>1, <1>2, <1>3, <1>6, <1>8, OneChange

\* Only a worker whose token is in the row goes on with it.
LEMMA HeldRuns ==
    ASSUME AutoquizInv, NEW w \in Workers, worker[w].pc # "down", worker[w].job # None,
           job[worker[w].job].token = worker[w].token
    PROVE  worker[w].job \in Jobs /\ job[worker[w].job].state \in Running
BY DEF AutoquizInv, Types, WorkerRow, Tokens

LEMMA AcquireChanges ==
    ASSUME AutoquizInv, NEW w \in Workers, Acquire(w)
    PROVE  Changes
<1>1. Types /\ confirmed' = confirmed /\ job' = [j \in Jobs |-> Interrupted(job[j])]
  BY DEF AutoquizInv, Acquire, ghosts
<1>2. ASSUME NEW j \in Jobs
      PROVE  Interrupted(job[j]) \in Row /\ Change(j)
  <2>1. job[j] \in Row /\ job'[j] = Interrupted(job[j])
    BY <1>1 DEF Types
  <2>2. CASE job[j].state \in Running
    <3>1. job'[j] = Failed(job[j])
      BY <2>1, <2>2 DEF Interrupted, Failed, Running
    <3>2. job'[j] \in Row /\ Breaks(job[j], job'[j])
      BY <2>1, <2>2, <3>1, RowSteps
    <3> QED BY <1>1, <2>1, <3>2 DEF Change, Worked, ByWorker
  <2>3. CASE job[j].state \notin Running
    <3>1. job'[j] = job[j]
      BY <2>1, <2>3 DEF Interrupted, Running
    <3> QED BY <1>1, <2>1, <3>1 DEF Change, Stays
  <2> QED BY <2>2, <2>3
<1> QED BY <1>1, <1>2 DEF Changes, Types

LEMMA TakeChanges ==
    ASSUME AutoquizInv, NEW w \in Workers, Take(w)
    PROVE  Changes
<1> DEFINE j == worker[w].job
           r == job[j].revision + 1
           x == Begun(job[j], "transcribing", worker[w].token, r)
<1>1. Types /\ confirmed' = confirmed /\ j \in Jobs /\ worker[w].pc = "take"
  BY DEF AutoquizInv, Take, Memory
<1>2. job[j] \in Row /\ worker[w].token \in Nat
  BY <1>1 DEF Types, WorkerRow
<1>3. r \in Nat /\ "transcribing" \in States
  BY <1>2 DEF Row, States, Active
<1>4. CASE job[j].state # "queued"
  BY <1>1, <1>4, NoChange DEF Take
<1>5. CASE job[j].state = "queued"
  <2>1. job' = [job EXCEPT ![j] = x]
    BY <1>5 DEF Take, Taken, Begun
  <2>2. Has(x, "transcribing", r, worker[w].token, job[j].questions, job[j].reviewed)
    BY <1>2, <1>3, RowFields
  <2>3. x \in Row /\ Takes(w, job[j], x)
    BY <1>1, <1>5, <2>2 DEF Has, Takes, Later
  <2> HIDE DEF j, x
  <2>4. job'[j] = x
    BY <1>1, <2>1, <2>3, OneRow
  <2>5. Change(j)
    BY <1>1, <2>3, <2>4 DEF Change, Worked, ByWorker
  <2> QED BY <1>1, <2>1, <2>3, <2>5, OneChange
<1> QED BY <1>4, <1>5

LEMMA StaleChanges ==
    ASSUME AutoquizInv, NEW w \in Workers, ReportStale(w)
    PROVE  Changes
<1> DEFINE j == worker[w].job
           x == Outdated(job[j])
<1>1. Types /\ confirmed' = confirmed /\ worker[w].pc \in {"saveText", "saveQuiz"}
  BY DEF AutoquizInv, ReportStale, ghosts
<1>2. j \in Jobs /\ j # None
  BY <1>1, AutoquizConstants DEF AutoquizInv, Memory
<1>3. CASE job[j].token # worker[w].token
  BY <1>1, <1>3, NoChange DEF ReportStale
<1>4. CASE job[j].token = worker[w].token
  <2>1. job' = [job EXCEPT ![j] = x]
    BY <1>4 DEF ReportStale
  <2>2. job[j] \in Row /\ job[j].state \in Running
    BY <1>1, <1>2, <1>4, HeldRuns DEF Types
  <2>3. x \in Row /\ Breaks(job[j], x)
    BY <2>2, RowSteps
  <2> HIDE DEF j, x
  <2>4. job'[j] = x
    BY <1>1, <1>2, <2>1, <2>3, OneRow
  <2>5. Change(j)
    BY <1>1, <2>3, <2>4 DEF Change, Worked, ByWorker
  <2> QED BY <1>1, <1>2, <2>1, <2>3, <2>5, OneChange
<1> QED BY <1>3, <1>4

LEMMA SaveTextChanges ==
    ASSUME AutoquizInv, NEW w \in Workers, SaveText(w)
    PROVE  Changes
<1> DEFINE j == worker[w].job
           x == InStage(job[j], "generating")
<1>1. Types /\ confirmed' = confirmed /\ worker[w].pc = "saveText"
  BY DEF AutoquizInv, SaveText, ghosts
<1>2. j \in Jobs /\ j # None
  BY <1>1, AutoquizConstants DEF AutoquizInv, Memory
<1>3. CASE ~Holds(w)
  BY <1>1, <1>3, NoChange DEF SaveText
<1>4. CASE Holds(w)
  <2>1. job[j] \in Row /\ job[j].state \in Running
    BY <1>1, <1>2, <1>4, HeldRuns DEF Types, Holds
  <2>2. job' = [job EXCEPT ![j] = x]
    BY <1>1, <1>2, <1>4 DEF SaveText, InStage, Types
  <2>3. Has(x, "generating", job[j].revision, job[j].token, job[j].questions, job[j].reviewed)
    BY <2>1, RowFields DEF States, Active
  <2>4. x \in Row /\ Goes(job[j], x)
    BY <2>1, <2>3 DEF Has, Goes
  <2> HIDE DEF j, x
  <2>5. job'[j] = x
    BY <1>1, <1>2, <2>2, <2>4, OneRow
  <2>6. Change(j)
    BY <1>1, <2>4, <2>5 DEF Change, Worked, ByWorker
  <2> QED BY <1>1, <1>2, <2>2, <2>4, <2>6, OneChange
<1> QED BY <1>3, <1>4

\* The worker has read the questions the row still holds: the new ones follow.
LEMMA SaveQuizChanges ==
    ASSUME AutoquizInv, NEW w \in Workers, SaveQuiz(w)
    PROVE  Changes
<1> DEFINE j == worker[w].job
           q == worker[w].questions + 1
           x == Finished(job[j], q)
<1>1. Types /\ confirmed' = confirmed /\ worker[w].pc = "saveQuiz"
  BY DEF AutoquizInv, SaveQuiz, ghosts
<1>2. j \in Jobs /\ j # None
  BY <1>1, AutoquizConstants DEF AutoquizInv, Memory
<1>3. CASE ~Holds(w)
  BY <1>1, <1>3, NoChange DEF SaveQuiz
<1>4. CASE Holds(w)
  <2>1. job[j] \in Row /\ job[j].state \in Running
    BY <1>1, <1>2, <1>4, HeldRuns DEF Types, Holds
  <2>2. job' = [job EXCEPT ![j] = x]
    BY <1>4 DEF SaveQuiz
  <2>3. q \in Nat /\ q = job[j].questions + 1
    BY <1>1, <1>4 DEF AutoquizInv, Memory, Holds, Types, WorkerRow
  <2>4. x \in Row /\ Finishes(job[j], x)
    BY <2>1, <2>3, RowEnds
  <2> HIDE DEF j, x, q
  <2>5. job'[j] = x
    BY <1>1, <1>2, <2>2, <2>4, OneRow
  <2>6. Change(j)
    BY <1>1, <2>4, <2>5 DEF Change, Worked, ByWorker
  <2> QED BY <1>1, <1>2, <2>2, <2>4, <2>6, OneChange
<1> QED BY <1>3, <1>4

LEMMA FailChanges ==
    ASSUME AutoquizInv, NEW w \in Workers, Fail(w)
    PROVE  Changes
<1> DEFINE j == worker[w].job
           x == Failed(job[j])
<1>1. Types /\ confirmed' = confirmed /\ worker[w].pc \in {"transcribe", "generate"}
  BY DEF AutoquizInv, Fail, ghosts
<1>2. j \in Jobs /\ j # None
  BY <1>1, AutoquizConstants DEF AutoquizInv, Memory
<1>3. CASE ~Holds(w)
  BY <1>1, <1>3, NoChange DEF Fail
<1>4. CASE Holds(w)
  <2>1. job[j] \in Row /\ job[j].state \in Running
    BY <1>1, <1>2, <1>4, HeldRuns DEF Types, Holds
  <2>2. job' = [job EXCEPT ![j] = x]
    BY <1>4 DEF Fail
  <2>3. x \in Row /\ Breaks(job[j], x)
    BY <2>1, RowSteps
  <2> HIDE DEF j, x
  <2>4. job'[j] = x
    BY <1>1, <1>2, <2>2, <2>3, OneRow
  <2>5. Change(j)
    BY <1>1, <2>3, <2>4 DEF Change, Worked, ByWorker
  <2> QED BY <1>1, <1>2, <2>2, <2>3, <2>5, OneChange
<1> QED BY <1>3, <1>4

\* The steps that leave the rows as they are.
Keeps == job' = job /\ confirmed' = confirmed

LEMMA StepChanges ==
    ASSUME AutoquizInv, [Next]_vars
    PROVE  Changes
<1>1. Types
  BY DEF AutoquizInv
<1>2. Keeps => Changes
  BY <1>1, NoChange DEF Keeps
<1>3. CASE UNCHANGED vars
  BY <1>2, <1>3 DEF vars, ghosts, Keeps
<1>4. ASSUME NEW e \in Editors, EditorStep(e) PROVE Changes
  <2>1. CASE OpenEditor(e) \/ Archive(e) \/ Publish(e)
    BY <1>2, <2>1 DEF OpenEditor, Archive, Publish, Keeps, ghosts
  <2> QED BY <1>4, <2>1, SaveChanges DEF EditorStep
<1>5. ASSUME NEW j \in Jobs, QueueVideo(j) PROVE Changes
  BY <1>5, QueueChanges
<1>6. ASSUME NEW p \in Pages, PageStep(p) PROVE Changes
  <2>1. ASSUME NEW j \in Jobs, OpenPage(p, j) PROVE Changes
    BY <1>2, <2>1 DEF OpenPage, Keeps, ghosts
  <2>2. CASE Poll(p) \/ CancelRead(p)
    BY <1>2, <2>2 DEF Poll, CancelRead, Keeps, ghosts
  <2> QED BY <1>6, <2>1, <2>2, EditChanges, RequeueChanges, ApplyChanges DEF PageStep
<1>7. ASSUME NEW w \in Workers, WorkerStep(w) PROVE Changes
  <2>1. CASE Select(w) \/ Refresh(w) \/ ReportRead(w) \/ Leave(w)
    BY <1>2, <2>1 DEF Select, Refresh, ReportRead, Leave, Keeps, ghosts
  <2> QED BY <1>7, <2>1, AcquireChanges, TakeChanges, StaleChanges, SaveTextChanges, SaveQuizChanges,
             FailChanges DEF WorkerStep
<1>8. ASSUME NEW w \in Workers, Beat(w) \/ BeatFails(w) \/ Stop(w) \/ Crash(w) PROVE Changes
  BY <1>2, <1>8 DEF Beat, BeatFails, Stop, Crash, Keeps, ghosts
<1>9. CASE LeaseLapses \/ Suspended
  BY <1>2, <1>9 DEF LeaseLapses, Suspended, Keeps, ghosts
<1> QED BY <1>3, <1>4, <1>5, <1>6, <1>7, <1>8, <1>9, CancelChanges DEF Next

(***************************************************************************)
(* What follows from the changes of the rows.                              *)
(***************************************************************************)
LEMMA ReviewsFollow ==
    ASSUME AutoquizInv, Changes
    PROVE  Reviews'
<1> SUFFICES ASSUME NEW j \in Jobs
             PROVE  /\ job'[j].reviewed <= job'[j].revision
                    /\ job'[j].state # "none" => job'[j].revision >= 1
                    /\ job'[j].state = "ready" /\ job'[j].reviewed = job'[j].revision
                          => confirmed'[j] = job'[j].questions
  BY DEF Reviews
<1>1. /\ job[j] \in Row /\ job'[j] \in Row /\ Change(j)
      /\ job[j].reviewed <= job[j].revision
      /\ job[j].state # "none" => job[j].revision >= 1
      /\ job[j].state = "ready" /\ job[j].reviewed = job[j].revision => confirmed[j] = job[j].questions
  BY DEF AutoquizInv, Types, Reviews, Changes
<1>2. /\ job[j].reviewed \in Nat /\ job[j].revision \in Nat
      /\ job'[j].reviewed \in Nat /\ job'[j].revision \in Nat
  BY <1>1 DEF Row
<1>3. CASE Stays(j)
  BY <1>1, <1>3 DEF Stays
<1>4. CASE Asked(j)
  BY <1>1, <1>2, <1>4 DEF Asked, ByPeople, Starts, Outdates, Requeues, Applies, Later, Active
<1>5. CASE Worked(j)
  BY <1>1, <1>2, <1>5 DEF Worked, ByWorker, Takes, Goes, Breaks, Finishes, Later, Running
<1>6. CASE Rewritten(j)
  BY <1>1, <1>2, <1>6 DEF Rewritten, Edits
<1>7. CASE Cancelled(j)
  <2>1. cancelling.row.reviewed <= cancelling.row.revision /\ cancelling.row \in Row
    BY <1>7 DEF Cancelled, AutoquizInv, Types, Between
  <2> QED BY <1>2, <1>7, <2>1 DEF Cancelled, Cancels, Row
<1> QED BY <1>1, <1>3, <1>4, <1>5, <1>6, <1>7 DEF Change

\* The tokens of the rows, whatever the processes do.
LEMMA RowTokensFollow ==
    ASSUME AutoquizInv, Changes, lease'.token \in Nat, lease.token <= lease'.token
    PROVE  \A j \in Jobs : IF job'[j].state \in Running THEN job'[j].token \in 1 .. lease'.token
                           ELSE job'[j].token = 0
<1> SUFFICES ASSUME NEW j \in Jobs
             PROVE  IF job'[j].state \in Running THEN job'[j].token \in 1 .. lease'.token
                    ELSE job'[j].token = 0
  OBVIOUS
<1>1. /\ job[j] \in Row /\ job'[j] \in Row /\ Change(j)
      /\ IF job[j].state \in Running THEN job[j].token \in 1 .. lease.token ELSE job[j].token = 0
  BY DEF AutoquizInv, Types, Tokens, Changes
<1>2. lease.token \in Nat
  BY DEF AutoquizInv, Types
<1>3. 1 .. lease.token \subseteq 1 .. lease'.token
  BY <1>2
<1>4. CASE Stays(j)
  BY <1>1, <1>3, <1>4 DEF Stays
<1>5. CASE Asked(j)
  BY <1>1, <1>5 DEF Asked, ByPeople, Starts, Outdates, Requeues, Applies, Running
<1>6. CASE Worked(j)
  <2>1. ASSUME NEW w \in Workers, Takes(w, job[j], job'[j]) PROVE job'[j].token \in 1 .. lease'.token
    BY <1>3, <2>1 DEF Takes, AutoquizInv, Tokens
  <2>2. CASE \E w \in Workers : Takes(w, job[j], job'[j])
    BY <2>1, <2>2 DEF Takes, Running
  <2>3. CASE Goes(job[j], job'[j])
    BY <1>1, <1>3, <2>3 DEF Goes, Running
  <2>4. CASE Breaks(job[j], job'[j]) \/ Finishes(job[j], job'[j])
    BY <2>4 DEF Breaks, Finishes, Running
  <2> QED BY <1>6, <2>2, <2>3, <2>4 DEF Worked, ByWorker
<1>7. CASE Rewritten(j)
  BY <1>1, <1>7 DEF Rewritten, Edits, Running
<1>8. CASE Cancelled(j)
  BY <1>8 DEF Cancelled, Cancels, Running
<1> QED BY <1>1, <1>4, <1>5, <1>6, <1>7, <1>8 DEF Change

\* A process that is up keeps its token.
Continues(v) == worker'[v].pc # "down" => worker[v].pc # "down" /\ worker'[v].token = worker[v].token

LEMMA TokensFollow ==
    ASSUME AutoquizInv, Changes, lease'.token = lease.token, \A v \in Workers : Continues(v)
    PROVE  Tokens'
<1>1. lease'.token \in Nat /\ lease.token <= lease'.token
  BY DEF AutoquizInv, Types
<1>2. \A j \in Jobs : IF job'[j].state \in Running THEN job'[j].token \in 1 .. lease'.token
                      ELSE job'[j].token = 0
  BY <1>1, RowTokensFollow
<1>3. \A w \in Workers : worker'[w].pc # "down" => worker'[w].token \in 1 .. lease'.token
  BY DEF Continues, AutoquizInv, Tokens
<1>4. \A v, w \in Workers : worker'[v].pc # "down" /\ worker'[w].pc # "down"
                            /\ worker'[v].token = worker'[w].token => v = w
  BY DEF Continues, AutoquizInv, Tokens
<1> QED BY <1>2, <1>3, <1>4 DEF Tokens

\* How a process may go on: it stops or starts over, selects and takes a job,
\* reads its questions, or goes through the stages with what it has.
InStages == {"transcribe", "saveText", "generate", "saveQuiz"}
GoesOn(v) ==
    \/ worker'[v].pc \in {"down", "idle"}
    \/ worker'[v].pc \in {"take", "refresh"} /\ worker'[v].job \in Jobs
    \/ /\ worker'[v].pc \in InStages /\ worker[v].pc \in InStages
       /\ worker'[v].token = worker[v].token /\ worker'[v].job = worker[v].job
       /\ worker'[v].questions = worker[v].questions
    \/ /\ worker'[v].pc \in InStages /\ worker'[v].job \in Jobs
       /\ worker'[v].questions = job'[worker'[v].job].questions

LEMMA MemoryFollows ==
    ASSUME AutoquizInv, Changes, \A v \in Workers : GoesOn(v)
    PROVE  Memory'
<1> SUFFICES ASSUME NEW v \in Workers
             PROVE  /\ worker'[v].pc \notin {"down", "idle"} => worker'[v].job \in Jobs
                    /\ worker'[v].pc \in InStages /\ job'[worker'[v].job].token = worker'[v].token
                          => worker'[v].questions = job'[worker'[v].job].questions
  BY DEF Memory, InStages
<1>1. GoesOn(v)
  OBVIOUS
<1>2. CASE \/ worker'[v].pc \in {"down", "idle"}
           \/ (worker'[v].pc \in {"take", "refresh"} /\ worker'[v].job \in Jobs)
  BY <1>2 DEF InStages
<1>3. CASE /\ worker'[v].pc \in InStages /\ worker'[v].job \in Jobs
           /\ worker'[v].questions = job'[worker'[v].job].questions
  BY <1>3 DEF InStages
<1>4. CASE /\ worker'[v].pc \in InStages /\ worker[v].pc \in InStages
           /\ worker'[v].token = worker[v].token /\ worker'[v].job = worker[v].job
           /\ worker'[v].questions = worker[v].questions
  <2> DEFINE k == worker[v].token
  <2>1. PICK j \in Jobs : j = worker[v].job
    BY <1>4 DEF AutoquizInv, Memory, InStages
  <2>2. k \in Nat /\ k >= 1 /\ worker[v].pc \notin {"down", "idle", "take", "refresh"}
    BY <1>4 DEF AutoquizInv, Tokens, Types, InStages
  <2>3. job[j].token = k => worker[v].questions = job[j].questions
    BY <1>4, <2>1 DEF AutoquizInv, Memory, InStages
  <2>4. ASSUME job'[j].token = k PROVE job[j].token = k /\ job'[j].questions = job[j].questions
    <3>1. Change(j) /\ (job[j].state \notin Running => job[j].token = 0)
      BY DEF Changes, AutoquizInv, Tokens
    <3>2. CASE Stays(j)
      BY <2>4, <3>2 DEF Stays
    <3>3. ~Asked(j)
      BY <2>2, <2>4, <3>1 DEF Asked, ByPeople, Starts, Outdates, Requeues, Applies, Running
    <3>4. ASSUME NEW w \in Workers, Takes(w, job[j], job'[j]) PROVE FALSE
      BY <2>2, <2>4, <3>4 DEF Takes, AutoquizInv, Tokens
    <3>5. CASE Worked(j)
      BY <2>2, <2>4, <3>4, <3>5 DEF Worked, ByWorker, Goes, Breaks, Finishes
    <3>6. ~Rewritten(j) /\ ~Cancelled(j)
      BY <2>2, <2>4, <3>1 DEF Rewritten, Edits, Cancelled, Cancels, Running
    <3> QED BY <3>1, <3>2, <3>3, <3>5, <3>6 DEF Change
  <2> QED BY <1>4, <2>1, <2>3, <2>4
<1> QED BY <1>1, <1>2, <1>3, <1>4 DEF GoesOn

LEMMA BetweenFollows ==
    ASSUME AutoquizInv, Changes, cancelling' = cancelling
    PROVE  Between'
<1> SUFFICES ASSUME cancelling # None
             PROVE  LET now == job'[cancelling.job]
                        row == cancelling.row
                    IN  /\ row.state \in Active /\ row.reviewed <= row.revision
                        /\ \/ now.state = "queued" /\ now.revision = row.revision
                           \/ now.state \in Running /\ now.revision <= row.revision + 1
                           \/ now.state \in {"ready", "failed", "stale"} /\ now.revision <= row.revision + 2
  BY DEF Between
<1>1. PICK j \in Jobs : j = cancelling.job
  BY DEF AutoquizInv, Types
<1>2. PICK row \in Row : row = cancelling.row
  BY DEF AutoquizInv, Types
<1>3. /\ row.state \in Active /\ row.reviewed <= row.revision /\ row.revision \in Nat
      /\ \/ job[j].state = "queued" /\ job[j].revision = row.revision
         \/ job[j].state \in Running /\ job[j].revision <= row.revision + 1
         \/ job[j].state \in {"ready", "failed", "stale"} /\ job[j].revision <= row.revision + 2
  BY <1>1, <1>2 DEF AutoquizInv, Between, Row
<1>4. /\ Change(j) /\ ~Asked(j) /\ ~Rewritten(j) /\ ~Cancelled(j)
      /\ job[j].revision \in Nat /\ job'[j].revision \in Nat
  BY DEF Changes, Asked, Rewritten, Cancelled, AutoquizInv, Types, Row
<1>5. CASE Stays(j)
  BY <1>1, <1>2, <1>3, <1>5 DEF Stays
<1>6. CASE Worked(j)
  <2>1. CASE \E w \in Workers : Takes(w, job[j], job'[j])
    BY <1>1, <1>2, <1>3, <1>4, <2>1 DEF Takes, Later, Running
  <2>2. CASE Goes(job[j], job'[j])
    BY <1>1, <1>2, <1>3, <1>4, <2>2 DEF Goes, Running
  <2>3. CASE Breaks(job[j], job'[j]) \/ Finishes(job[j], job'[j])
    BY <1>1, <1>2, <1>3, <1>4, <2>3 DEF Breaks, Finishes, Later, Running
  <2> QED BY <1>6, <2>1, <2>2, <2>3 DEF Worked, ByWorker
<1> QED BY <1>4, <1>5, <1>6 DEF Change

\* A page stays as it was, is closed, or shows what the row now holds: its
\* state and revision, and its questions if they await review.
Reads(p) == LET j == page'[p].job
            IN  /\ j \in Jobs /\ job'[j].state # "none" /\ page'[p].revision <= job'[j].revision
                /\ job'[j].state = "ready" /\ page'[p].revision = job'[j].revision
                      => page'[p].questions = job'[j].questions
ReadsOn(p) == page'[p] = page[p] \/ page'[p] = None \/ Reads(p)

AheadThen(j) == IF job'[j].state = "cancelled" THEN 1 ELSE 0

LEMMA PagesFollow ==
    ASSUME AutoquizInv, Changes, page' \in [Pages -> PageRow \cup {None}], \A p \in Pages : ReadsOn(p)
    PROVE  PagesBehind' /\ EditsAreSeen'
<1> SUFFICES ASSUME NEW p \in Pages, page'[p] # None
             PROVE  LET j == page'[p].job
                    IN  /\ job'[j].state # "none" /\ page'[p].revision <= job'[j].revision + AheadThen(j)
                        /\ job'[j].state = "ready" /\ page'[p].revision = job'[j].revision
                              => page'[p].questions = job'[j].questions
  BY DEF PagesBehind, EditsAreSeen, Ahead, AheadThen
<1>1. CASE Reads(p)
  <2>1. page'[p].revision \in Nat /\ page'[p].job \in Jobs
    BY DEF PageRow
  <2>2. job'[page'[p].job].revision \in Nat
    BY <2>1 DEF Changes, Row
  <2> QED BY <1>1, <2>1, <2>2 DEF Reads, AheadThen
<1>2. CASE page'[p] = page[p]
  <2>1. PICK j \in Jobs : j = page[p].job
    BY <1>2 DEF AutoquizInv, Types, PageRow
  <2> DEFINE s == page[p].revision
             o == job[j].revision
             n == job'[j].revision
  <2>2. /\ s \in Nat /\ o \in Nat /\ n \in Nat
        /\ job[j].state # "none" /\ s <= o + Ahead(j)
        /\ job[j].state = "ready" /\ s = o => page[p].questions = job[j].questions
        /\ Change(j)
    BY <1>2, <2>1 DEF AutoquizInv, Types, PageRow, Row, Changes, PagesBehind, EditsAreSeen
  <2>3. CASE Stays(j)
    BY <1>2, <2>1, <2>2, <2>3 DEF Stays, Ahead, AheadThen
  <2>4. CASE Asked(j)
    <3>1. /\ job'[j].state \in {"stale", "queued", "applied"} /\ n = o + 1
      BY <2>2, <2>4 DEF Asked, ByPeople, Starts, Outdates, Requeues, Applies, Later
    <3> QED BY <1>2, <2>1, <2>2, <3>1 DEF Ahead, AheadThen
  <2>5. CASE Worked(j)
    <3>1. /\ job[j].state \in Running \cup {"queued"} /\ o <= n
          /\ job'[j].state \notin {"none", "cancelled"}
          /\ job'[j].state = "ready" => n = o + 1
      BY <2>2, <2>5 DEF Worked, ByWorker, Takes, Goes, Breaks, Finishes, Later, Running
    <3> QED BY <1>2, <2>1, <2>2, <3>1 DEF Ahead, AheadThen, Running
  <2>6. CASE Rewritten(j)
    BY <1>2, <2>1, <2>2, <2>6 DEF Rewritten, Edits, Ahead, AheadThen
  <2>7. CASE Cancelled(j)
    <3>1. /\ o <= cancelling.row.revision + 2 /\ job[j].state # "cancelled"
          /\ job'[j].state = "cancelled" /\ n = cancelling.row.revision + 1
      BY <2>2, <2>7 DEF Cancelled, Cancels, AutoquizInv, Between, Types, Row, Running
    <3>2. cancelling.row.revision \in Nat
      BY <2>7 DEF Cancelled, AutoquizInv, Types, Row
    <3> QED BY <1>2, <2>1, <2>2, <3>1, <3>2 DEF Ahead, AheadThen
  <2> QED BY <2>2, <2>3, <2>4, <2>5, <2>6, <2>7 DEF Change
<1> QED BY <1>1, <1>2 DEF ReadsOn

LEMMA EditorsFollow ==
    ASSUME AutoquizInv, revision' \in Nat, revision <= revision',
           revision' = revision => asset' = asset /\ quizzes' = quizzes,
           \A e \in Editors : \/ editor'[e] = editor[e]
                             \/ editor'[e] = None
                             \/ /\ editor'[e].revision = revision'
                                /\ editor'[e].asset = asset' /\ editor'[e].quizzes = quizzes'
    PROVE  EditorsBehind'
<1> SUFFICES ASSUME NEW e \in Editors, editor'[e] # None
             PROVE  /\ editor'[e].revision <= revision'
                    /\ editor'[e].revision = revision'
                          => editor'[e].asset = asset' /\ editor'[e].quizzes = quizzes'
  BY DEF EditorsBehind
<1>1. CASE editor'[e] = editor[e]
  <2>1. /\ editor[e].revision \in Nat /\ revision \in Nat /\ editor[e].revision <= revision
        /\ editor[e].revision = revision => editor[e].asset = asset /\ editor[e].quizzes = quizzes
    BY <1>1, AutoquizConstants DEF AutoquizInv, Types, EditorRow, EditorsBehind
  <2> QED BY <1>1, <2>1
<1> QED BY <1>1

LEMMA VideosFollow ==
    ASSUME AutoquizInv, Changes, asset' = asset
    PROVE  QuizMatchesVideo'
<1> SUFFICES ASSUME NEW j \in Jobs, job'[j].state \in Active \cup {"ready"}
             PROVE  asset[j[1]] = j[2]
  BY DEF QuizMatchesVideo, InState
<1>1. job[j].state \in Active \cup {"ready"} => asset[j[1]] = j[2]
  BY DEF AutoquizInv, QuizMatchesVideo, InState
<1>2. Change(j)
  BY DEF Changes
<1>3. CASE Stays(j)
  BY <1>1, <1>3 DEF Stays
<1>4. CASE Asked(j)
  BY <1>4 DEF Asked, ByPeople, Starts, Outdates, Requeues, Applies, Active
<1>5. CASE Worked(j)
  BY <1>1, <1>5 DEF Worked, ByWorker, Takes, Goes, Breaks, Finishes, Active, Running
<1>6. CASE Rewritten(j)
  BY <1>1, <1>6 DEF Rewritten, Edits
<1>7. CASE Cancelled(j)
  BY <1>7 DEF Cancelled, Cancels, Active
<1> QED BY <1>2, <1>3, <1>4, <1>5, <1>6, <1>7 DEF Change

(***************************************************************************)
(* The processes and the lease.                                            *)
(***************************************************************************)
Stages == {"down", "idle", "take", "refresh", "transcribe", "saveText", "generate", "saveQuiz"}
IdleRow(r)       == [Down EXCEPT !.pc = "idle", !.token = r.token, !.lost = r.lost]
NewRow(k)        == [Down EXCEPT !.pc = "idle", !.token = k]
AtStage(r, s)    == [r EXCEPT !.pc = s]
Selecting(r, j)  == [r EXCEPT !.pc = "take", !.job = j]
Reading(r, q)    == [r EXCEPT !.pc = "transcribe", !.questions = q]
Seeing(r, s, ok) == [r EXCEPT !.pc = s, !.ok = ok]
Losing(r)        == [r EXCEPT !.lost = TRUE]

Holding(x, s, k, j, q) == x \in WorkerRow /\ x.pc = s /\ x.token = k /\ x.job = j /\ x.questions = q

LEMMA WorkerFields ==
    ASSUME NEW r \in WorkerRow
    PROVE  /\ Holding(Down, "down", 0, None, 0)
           /\ Holding(IdleRow(r), "idle", r.token, None, 0)
           /\ \A k \in Nat : Holding(NewRow(k), "idle", k, None, 0)
           /\ \A s \in Stages : Holding(AtStage(r, s), s, r.token, r.job, r.questions)
           /\ \A j \in Jobs : Holding(Selecting(r, j), "take", r.token, j, r.questions)
           /\ \A q \in Nat : Holding(Reading(r, q), "transcribe", r.token, r.job, q)
           /\ \A s \in Stages, ok \in BOOLEAN : Holding(Seeing(r, s, ok), s, r.token, r.job, r.questions)
           /\ Holding(Losing(r), r.pc, r.token, r.job, r.questions)
<1>1. Holding(Down, "down", 0, None, 0)
  BY DEF Down, Holding, WorkerRow
<1> DEFINE d == Down
<1>2. d \in WorkerRow /\ d.job = None /\ d.questions = 0
  BY <1>1 DEF Holding
<1> HIDE DEF d
<1>3. Holding([d EXCEPT !.pc = "idle", !.token = r.token, !.lost = r.lost], "idle", r.token, None, 0)
  BY <1>2 DEF WorkerRow, Holding
<1>4. \A k \in Nat : Holding([d EXCEPT !.pc = "idle", !.token = k], "idle", k, None, 0)
  BY <1>2 DEF WorkerRow, Holding
<1>5. /\ \A s \in Stages : Holding(AtStage(r, s), s, r.token, r.job, r.questions)
      /\ \A j \in Jobs : Holding(Selecting(r, j), "take", r.token, j, r.questions)
      /\ \A q \in Nat : Holding(Reading(r, q), "transcribe", r.token, r.job, q)
      /\ \A s \in Stages, ok \in BOOLEAN : Holding(Seeing(r, s, ok), s, r.token, r.job, r.questions)
      /\ Holding(Losing(r), r.pc, r.token, r.job, r.questions)
  <2>1. \A s \in Stages : Holding(AtStage(r, s), s, r.token, r.job, r.questions)
    BY DEF WorkerRow, Holding, Stages, AtStage
  <2>2. \A j \in Jobs : Holding(Selecting(r, j), "take", r.token, j, r.questions)
    BY DEF WorkerRow, Holding, Selecting
  <2>3. \A q \in Nat : Holding(Reading(r, q), "transcribe", r.token, r.job, q)
    BY DEF WorkerRow, Holding, Reading
  <2>4. \A s \in Stages, ok \in BOOLEAN : Holding(Seeing(r, s, ok), s, r.token, r.job, r.questions)
    BY DEF WorkerRow, Holding, Stages, Seeing
  <2>5. Holding(Losing(r), r.pc, r.token, r.job, r.questions)
    BY DEF WorkerRow, Holding, Losing
  <2> QED BY <2>1, <2>2, <2>3, <2>4, <2>5
<1> QED BY <1>1, <1>3, <1>4, <1>5 DEF d, IdleRow, NewRow

\* What the lemmas below show of a step of a process that keeps its token.
ProcessesGoOn ==
    /\ worker' \in [Workers -> WorkerRow]
    /\ \A v \in Workers : GoesOn(v)
TokensKept ==
    /\ lease' \in [token : Nat, expired : BOOLEAN] /\ lease'.token = lease.token
    /\ \A v \in Workers : Continues(v)

LEMMA ProcessStays ==
    ASSUME AutoquizInv, NEW v \in Workers, worker'[v] = worker[v]
    PROVE  GoesOn(v) /\ Continues(v)
<1>1. worker[v].pc \in Stages /\ (worker[v].pc \notin {"down", "idle"} => worker[v].job \in Jobs)
  BY DEF AutoquizInv, Types, WorkerRow, Stages, Memory
<1> QED BY <1>1 DEF GoesOn, Continues, InStages, Stages

LEMMA OneProcess ==
    ASSUME AutoquizInv, NEW w \in Workers, NEW x \in WorkerRow, worker' = [worker EXCEPT ![w] = x],
           worker'[w] = x => GoesOn(w) /\ Continues(w)
    PROVE  ProcessesGoOn /\ \A v \in Workers : Continues(v)
<1>1. worker' \in [Workers -> WorkerRow] /\ worker'[w] = x /\ \A v \in Workers \ {w} : worker'[v] = worker[v]
  BY DEF AutoquizInv, Types
<1> QED BY <1>1, ProcessStays DEF ProcessesGoOn

LEMMA NoProcess ==
    ASSUME AutoquizInv, worker' = worker
    PROVE  ProcessesGoOn /\ \A v \in Workers : Continues(v)
BY ProcessStays DEF ProcessesGoOn, AutoquizInv, Types

LEMMA IdleGoesOn ==
    ASSUME AutoquizInv, NEW w \in Workers, worker[w].pc # "down", Idle(w)
    PROVE  ProcessesGoOn /\ \A v \in Workers : Continues(v)
<1> DEFINE x == IdleRow(worker[w])
<1>1. worker' = [worker EXCEPT ![w] = x]
  BY DEF Idle, IdleRow
<1>2. worker[w] \in WorkerRow
  BY DEF AutoquizInv, Types
<1>3. Holding(x, "idle", worker[w].token, None, 0)
  BY <1>2, WorkerFields
<1> HIDE DEF x
<1> QED BY <1>1, <1>3, OneProcess DEF Holding, GoesOn, Continues

LEMMA DownGoesOn ==
    ASSUME AutoquizInv, NEW w \in Workers, worker' = [worker EXCEPT ![w] = Down]
    PROVE  ProcessesGoOn /\ \A v \in Workers : Continues(v)
<1>1. Holding(Down, "down", 0, None, 0)
  BY DEF Down, Holding, WorkerRow
<1> QED BY <1>1, OneProcess DEF Holding, GoesOn, Continues

LEMMA LeaseRows ==
    ASSUME AutoquizInv
    PROVE  /\ [lease EXCEPT !.expired = TRUE] \in [token : Nat, expired : BOOLEAN]
           /\ [lease EXCEPT !.expired = TRUE].token = lease.token
           /\ [lease EXCEPT !.expired = FALSE] \in [token : Nat, expired : BOOLEAN]
           /\ [lease EXCEPT !.expired = FALSE].token = lease.token
           /\ lease \in [token : Nat, expired : BOOLEAN]
BY DEF AutoquizInv, Types

LEMMA SelectGoesOn ==
    ASSUME AutoquizInv, NEW w \in Workers, Select(w)
    PROVE  ProcessesGoOn /\ TokensKept
<1>1. PICK j \in Jobs : worker' = [worker EXCEPT ![w] = Selecting(worker[w], j)]
  <2>1. PICK j \in InState({"queued"}) : worker' = [worker EXCEPT ![w].pc = "take", ![w].job = j]
    BY DEF Select
  <2>2. j \in Jobs
    BY DEF InState
  <2> QED BY <2>1, <2>2 DEF Selecting, AutoquizInv, Types
<1>2. worker[w] \in WorkerRow /\ worker[w].pc = "idle" /\ lease' = lease
  BY DEF AutoquizInv, Types, Select
<1> DEFINE x == Selecting(worker[w], j)
<1>3. Holding(x, "take", worker[w].token, j, worker[w].questions)
  BY <1>2, WorkerFields
<1>4. worker' = [worker EXCEPT ![w] = x]
  BY <1>1
<1> HIDE DEF x
<1> QED BY <1>2, <1>3, <1>4, OneProcess, LeaseRows DEF TokensKept, Holding, GoesOn, Continues

LEMMA TakeGoesOn ==
    ASSUME AutoquizInv, NEW w \in Workers, Take(w)
    PROVE  ProcessesGoOn /\ TokensKept
<1>1. worker[w] \in WorkerRow /\ worker[w].pc = "take" /\ worker[w].job \in Jobs /\ lease' = lease
  BY DEF AutoquizInv, Types, Take, Memory
<1>2. CASE Idle(w)
  BY <1>1, <1>2, IdleGoesOn, LeaseRows DEF TokensKept
<1>3. CASE Goto(w, "refresh")
  <2> DEFINE x == AtStage(worker[w], "refresh")
  <2>1. worker' = [worker EXCEPT ![w] = x]
    BY <1>1, <1>3 DEF Goto, AtStage, AutoquizInv, Types
  <2>2. Holding(x, "refresh", worker[w].token, worker[w].job, worker[w].questions)
    BY <1>1, WorkerFields DEF Stages
  <2> HIDE DEF x
  <2> QED BY <1>1, <2>1, <2>2, OneProcess, LeaseRows DEF TokensKept, Holding, GoesOn, Continues
<1> QED BY <1>2, <1>3 DEF Take

LEMMA RefreshGoesOn ==
    ASSUME AutoquizInv, NEW w \in Workers, Refresh(w)
    PROVE  ProcessesGoOn /\ TokensKept
<1> DEFINE q == job[worker[w].job].questions
           x == Reading(worker[w], q)
<1>1. /\ worker[w] \in WorkerRow /\ worker[w].pc = "refresh" /\ worker[w].job \in Jobs
      /\ lease' = lease /\ job' = job
  BY DEF AutoquizInv, Types, Refresh, Memory
<1>2. q \in Nat /\ q = job'[worker[w].job].questions
  BY <1>1 DEF AutoquizInv, Types, Row
<1>3. worker' = [worker EXCEPT ![w] = x]
  BY <1>1 DEF Refresh, Reading, AutoquizInv, Types
<1> HIDE DEF q
<1>4. Holding(x, "transcribe", worker[w].token, worker[w].job, q)
  BY <1>1, <1>2, WorkerFields
<1> HIDE DEF x
<1>5. x \in WorkerRow
  BY <1>4 DEF Holding
<1>6. worker'[w] = x => GoesOn(w) /\ Continues(w)
  <2> SUFFICES ASSUME worker'[w] = x PROVE GoesOn(w) /\ Continues(w)
    OBVIOUS
  <2>1. /\ worker'[w].pc = "transcribe" /\ worker'[w].token = worker[w].token
        /\ worker'[w].job = worker[w].job /\ worker'[w].questions = q
    BY <1>4 DEF Holding
  <2>2. worker'[w].questions = job'[worker'[w].job].questions
    BY <1>2, <2>1
  <2> QED BY <1>1, <2>1, <2>2 DEF GoesOn, Continues, InStages
<1> QED BY <1>1, <1>3, <1>5, <1>6, OneProcess, LeaseRows DEF TokensKept

LEMMA ReportReadGoesOn ==
    ASSUME AutoquizInv, NEW w \in Workers, ReportRead(w)
    PROVE  ProcessesGoOn /\ TokensKept
<1>1. /\ worker[w] \in WorkerRow /\ worker[w].pc \in {"transcribe", "generate"} /\ lease' = lease
      /\ worker[w].job \in Jobs
  BY DEF AutoquizInv, Types, ReportRead, Memory
<1>2. CASE worker[w].lost
  BY <1>1, <1>2, IdleGoesOn, LeaseRows DEF TokensKept, ReportRead
<1>3. CASE ~worker[w].lost
  <2> DEFINE s == IF worker[w].pc = "transcribe" THEN "saveText" ELSE "saveQuiz"
             ok == VideoIn(worker[w].job)
             x == Seeing(worker[w], s, ok)
  <2>1. worker' = [worker EXCEPT ![w] = x]
    BY <1>1, <1>3 DEF ReportRead, Seeing, AutoquizInv, Types
  <2>2. s \in Stages /\ s \in InStages /\ ok \in BOOLEAN
    BY DEF Stages, InStages, VideoIn
  <2> HIDE DEF s, ok
  <2>3. Holding(x, s, worker[w].token, worker[w].job, worker[w].questions)
    BY <1>1, <2>2, WorkerFields
  <2>4. worker[w].pc \in InStages /\ worker[w].pc # "down"
    BY <1>1 DEF InStages
  <2> HIDE DEF x
  <2> QED BY <1>1, <2>1, <2>2, <2>3, <2>4, OneProcess, LeaseRows DEF TokensKept, Holding, GoesOn, Continues
<1> QED BY <1>2, <1>3

LEMMA SaveTextGoesOn ==
    ASSUME AutoquizInv, NEW w \in Workers, SaveText(w)
    PROVE  ProcessesGoOn /\ TokensKept
<1>1. worker[w] \in WorkerRow /\ worker[w].pc = "saveText" /\ worker[w].job \in Jobs /\ lease' = lease
  BY DEF AutoquizInv, Types, SaveText, Memory
<1>2. CASE Idle(w)
  BY <1>1, <1>2, IdleGoesOn, LeaseRows DEF TokensKept
<1>3. CASE Goto(w, "generate")
  <2> DEFINE x == AtStage(worker[w], "generate")
  <2>1. worker' = [worker EXCEPT ![w] = x]
    BY <1>1, <1>3 DEF Goto, AtStage, AutoquizInv, Types
  <2>2. Holding(x, "generate", worker[w].token, worker[w].job, worker[w].questions)
    BY <1>1, WorkerFields DEF Stages
  <2> HIDE DEF x
  <2> QED BY <1>1, <2>1, <2>2, OneProcess, LeaseRows DEF TokensKept, Holding, GoesOn, Continues, InStages
<1> QED BY <1>2, <1>3 DEF SaveText

\* The heartbeat thread sees or meets trouble.
LEMMA LosingGoesOn ==
    ASSUME AutoquizInv, NEW w \in Workers, worker[w].pc # "down",
           worker' = [worker EXCEPT ![w].lost = TRUE], lease' = lease
    PROVE  ProcessesGoOn /\ TokensKept
<1> DEFINE x == Losing(worker[w])
<1>1. worker[w] \in WorkerRow /\ (worker[w].pc \notin {"down", "idle"} => worker[w].job \in Jobs)
  BY DEF AutoquizInv, Types, Memory
<1>2. worker' = [worker EXCEPT ![w] = x]
  BY <1>1 DEF Losing, AutoquizInv, Types
<1>3. Holding(x, worker[w].pc, worker[w].token, worker[w].job, worker[w].questions)
  BY <1>1, WorkerFields
<1>4. worker[w].pc \in {"idle", "take", "refresh"} \cup InStages
  BY <1>1 DEF WorkerRow, InStages
<1> HIDE DEF x
<1>5. ASSUME worker'[w] = x PROVE GoesOn(w) /\ Continues(w)
  <2>1. /\ worker'[w].pc = worker[w].pc /\ worker'[w].token = worker[w].token
        /\ worker'[w].job = worker[w].job /\ worker'[w].questions = worker[w].questions
    BY <1>3, <1>5 DEF Holding
  <2>2. CASE worker[w].pc = "idle"
    BY <2>1, <2>2 DEF GoesOn, Continues
  <2>3. CASE worker[w].pc \in {"take", "refresh"}
    BY <1>1, <2>1, <2>3 DEF GoesOn, Continues
  <2>4. CASE worker[w].pc \in InStages
    BY <2>1, <2>4 DEF GoesOn, Continues
  <2> QED BY <1>4, <2>2, <2>3, <2>4
<1>6. x \in WorkerRow
  BY <1>3 DEF Holding
<1> QED BY <1>2, <1>5, <1>6, OneProcess, LeaseRows DEF TokensKept

LEMMA WorkerGoesOn ==
    ASSUME AutoquizInv, NEW w \in Workers, WorkerStep(w) \/ Beat(w) \/ BeatFails(w) \/ Stop(w) \/ Crash(w), ~Acquire(w)
    PROVE  ProcessesGoOn /\ TokensKept
<1>1. CASE ReportStale(w) \/ SaveQuiz(w) \/ Fail(w)
  <2>1. Idle(w) /\ worker[w].pc # "down" /\ lease' = lease
    BY <1>1 DEF ReportStale, SaveQuiz, Fail
  <2> QED BY <2>1, IdleGoesOn, LeaseRows DEF TokensKept
<1>2. CASE Leave(w) \/ Stop(w) \/ Crash(w)
  <2>1. worker' = [worker EXCEPT ![w] = Down] /\ lease' \in {lease, [lease EXCEPT !.expired = TRUE]}
    BY <1>2 DEF Leave, Stop, Crash, Released
  <2> QED BY <2>1, DownGoesOn, LeaseRows DEF TokensKept
<1>3. CASE Beat(w)
  <2>1. CASE lease' = [lease EXCEPT !.expired = FALSE] /\ worker' = worker
    BY <2>1, NoProcess, LeaseRows DEF TokensKept
  <2>2. CASE worker' = [worker EXCEPT ![w].lost = TRUE] /\ lease' = lease
    BY <1>3, <2>2, LosingGoesOn DEF Beat
  <2> QED BY <1>3, <2>1, <2>2 DEF Beat
<1>4. CASE BeatFails(w)
  BY <1>4, LosingGoesOn DEF BeatFails
<1> QED BY <1>1, <1>2, <1>3, <1>4, SelectGoesOn, TakeGoesOn, RefreshGoesOn, ReportReadGoesOn, SaveTextGoesOn
     DEF WorkerStep

LEMMA AcquireGoesOn ==
    ASSUME AutoquizInv, NEW w \in Workers, Acquire(w)
    PROVE  /\ ProcessesGoOn /\ Tokens'
           /\ lease' \in [token : Nat, expired : BOOLEAN]
<1> DEFINE k == lease.token + 1
           x == NewRow(k)
<1>1. lease.token \in Nat /\ k \in Nat /\ lease.token < k /\ worker[w] \in WorkerRow
  BY DEF AutoquizInv, Types
<1>2. lease' = [token |-> k, expired |-> FALSE] /\ worker' = [worker EXCEPT ![w] = x]
  BY DEF Acquire, NewRow
<1> HIDE DEF k
<1>3. lease'.token = k /\ lease' \in [token : Nat, expired : BOOLEAN]
  BY <1>1, <1>2
<1>4. Holding(x, "idle", k, None, 0)
  BY <1>1, WorkerFields
<1> HIDE DEF x
<1>5. /\ worker' \in [Workers -> WorkerRow] /\ worker'[w] = x
      /\ \A v \in Workers \ {w} : worker'[v] = worker[v]
  BY <1>2, <1>4 DEF AutoquizInv, Types, Holding
<1>6. \A v \in Workers : GoesOn(v)
  BY <1>4, <1>5, ProcessStays DEF GoesOn, Holding
<1>7. Changes
  BY AcquireChanges
<1>8. \A j \in Jobs : IF job'[j].state \in Running THEN job'[j].token \in 1 .. lease'.token
                      ELSE job'[j].token = 0
  BY <1>1, <1>3, <1>7, RowTokensFollow
<1>9. \A v \in Workers : worker'[v].pc # "down" => worker'[v].token \in 1 .. lease'.token
  <2> SUFFICES ASSUME NEW v \in Workers, worker'[v].pc # "down" PROVE worker'[v].token \in 1 .. lease'.token
    OBVIOUS
  <2>1. CASE v = w
    BY <1>1, <1>3, <1>4, <1>5, <2>1 DEF Holding
  <2>2. CASE v # w
    BY <1>1, <1>3, <1>5, <2>2 DEF AutoquizInv, Tokens
  <2> QED BY <2>1, <2>2
<1>10. \A u, v \in Workers : worker'[u].pc # "down" /\ worker'[v].pc # "down"
                             /\ worker'[u].token = worker'[v].token => u = v
  <2>1. \A v \in Workers \ {w} : worker'[v].pc # "down" => worker'[v].token \in 1 .. lease.token
    BY <1>5 DEF AutoquizInv, Tokens
  <2>2. worker'[w].token = k
    BY <1>4, <1>5 DEF Holding
  <2>3. \A v \in Workers \ {w} : worker'[v].pc # "down" => worker'[v].token # worker'[w].token
    BY <1>1, <2>1, <2>2
  <2>4. \A u, v \in Workers \ {w} : worker'[u].pc # "down" /\ worker'[v].pc # "down"
                             /\ worker'[u].token = worker'[v].token => u = v
    BY <1>5 DEF AutoquizInv, Tokens
  <2> QED BY <2>3, <2>4
<1> QED BY <1>3, <1>5, <1>6, <1>8, <1>9, <1>10 DEF Tokens, ProcessesGoOn

(***************************************************************************)
(* The draft, its editors and the review pages.                            *)
(***************************************************************************)
DraftOn == /\ revision' \in 1 .. MaxRevision /\ asset' \in [Videos -> Assets \cup {None}]
           /\ quizzes' \subseteq Jobs \X Nat /\ archived' \in BOOLEAN /\ published' \in 0 .. revision'
           /\ editor' \in [Editors -> EditorRow \cup {None}]
           /\ EditorsBehind' /\ QuizMatchesVideo'
PagesOn == /\ page' \in [Pages -> PageRow \cup {None}]
           /\ cancelling' \in [job : Jobs, row : Row] \cup {None}
           /\ PagesBehind' /\ EditsAreSeen' /\ Between'

LEMMA DraftStays ==
    ASSUME AutoquizInv, Changes, UNCHANGED <<draftVars, editor>>
    PROVE  DraftOn
<1>1. /\ revision' = revision /\ asset' = asset /\ quizzes' = quizzes /\ archived' = archived
      /\ published' = published /\ editor' = editor
  BY DEF draftVars
<1>2. QuizMatchesVideo'
  BY <1>1, VideosFollow
<1>3. revision' \in Nat /\ revision <= revision'
  BY <1>1, AutoquizConstants DEF AutoquizInv, Types
<1>4. EditorsBehind'
  BY <1>1, <1>3, EditorsFollow
<1> QED BY <1>1, <1>2, <1>4 DEF DraftOn, AutoquizInv, Types

LEMMA PagesStay ==
    ASSUME AutoquizInv, Changes, page' = page, cancelling' = cancelling
    PROVE  PagesOn
<1>1. page' \in [Pages -> PageRow \cup {None}] /\ cancelling' \in [job : Jobs, row : Row] \cup {None}
  BY DEF AutoquizInv, Types
<1>2. PagesBehind' /\ EditsAreSeen'
  BY <1>1, PagesFollow DEF ReadsOn
<1> QED BY <1>1, <1>2, BetweenFollows DEF PagesOn

\* One review page changes.
LEMMA OnePage ==
    ASSUME AutoquizInv, Changes, NEW p \in Pages, NEW x \in PageRow \cup {None},
           page' = [page EXCEPT ![p] = x] \/ page' = page,
           page'[p] = x => ReadsOn(p), cancelling' = cancelling
    PROVE  PagesOn
<1>1. CASE page' = page
  BY <1>1, PagesStay
<1>2. CASE page' = [page EXCEPT ![p] = x]
  <2>1. /\ page' \in [Pages -> PageRow \cup {None}] /\ page'[p] = x
        /\ \A b \in Pages \ {p} : page'[b] = page[b]
    BY <1>2 DEF AutoquizInv, Types
  <2>2. \A b \in Pages : ReadsOn(b)
    BY <2>1 DEF ReadsOn
  <2>3. PagesBehind' /\ EditsAreSeen'
    BY <2>1, <2>2, PagesFollow
  <2> QED BY <2>1, <2>3, BetweenFollows DEF PagesOn, AutoquizInv, Types
<1> QED BY <1>1, <1>2

\* The fields of a page.
Polled(r, s, n)   == [r EXCEPT !.state = s, !.revision = n]
Answering(r, n, q) == [r EXCEPT !.revision = n, !.questions = q]
Showing(x, j, n, q) == x \in PageRow /\ x.job = j /\ x.revision = n /\ x.questions = q

LEMMA PageFields ==
    ASSUME NEW r \in PageRow
    PROVE  /\ \A s \in States, n \in Nat : Showing(Polled(r, s, n), r.job, n, r.questions)
           /\ \A n, q \in Nat : Showing(Answering(r, n, q), r.job, n, q)
BY DEF PageRow, Polled, Answering, Showing

LEMMA OpenPageFollows ==
    ASSUME AutoquizInv, Changes, NEW p \in Pages, NEW j \in Jobs, OpenPage(p, j)
    PROVE  PagesOn
<1> DEFINE x == Shown(j)
<1>1. /\ job' = job /\ cancelling' = cancelling /\ job[j].state # "none" /\ job[j] \in Row
      /\ page' = [page EXCEPT ![p] = x] /\ revision \in 1 .. MaxRevision
  BY DEF OpenPage, Created, InState, AutoquizInv, Types
<1>2. job[j].state \in States /\ job[j].revision \in Nat /\ job[j].questions \in Nat
  BY <1>1 DEF Row
<1>3. x \in PageRow /\ x.job = j /\ x.revision = job[j].revision /\ x.questions = job[j].questions
  BY <1>1, <1>2 DEF Shown, PageRow
<1> HIDE DEF x
<1>4. page'[p] = x => ReadsOn(p)
  BY <1>1, <1>2, <1>3 DEF ReadsOn, Reads
<1> QED BY <1>1, <1>3, <1>4, OnePage

LEMMA PollFollows ==
    ASSUME AutoquizInv, Changes, NEW p \in Pages, Poll(p)
    PROVE  PagesOn
<1> DEFINE j == page[p].job
           n == job[j].revision
           s == job[j].state
           x == Polled(page[p], s, n)
<1>1. /\ page[p] # None /\ job' = job /\ cancelling' = cancelling /\ s \in Active
  BY DEF Poll
<1>2. page[p] \in PageRow /\ j \in Jobs /\ job[j] \in Row
  BY <1>1 DEF AutoquizInv, Types, PageRow
<1>3. s \in States /\ n \in Nat
  BY <1>2 DEF Row
<1>4. page' = [page EXCEPT ![p] = x]
  BY <1>2 DEF Poll, Polled, AutoquizInv, Types
<1>5. Showing(x, j, n, page[p].questions)
  BY <1>2, <1>3, PageFields
<1> HIDE DEF x
<1>6. page'[p] = x => ReadsOn(p)
  BY <1>1, <1>2, <1>3, <1>5 DEF ReadsOn, Reads, Showing, Active
<1> QED BY <1>1, <1>4, <1>5, <1>6, OnePage DEF Showing

LEMMA EditFollows ==
    ASSUME AutoquizInv, Changes, NEW p \in Pages, NEW reviewed \in BOOLEAN, EditResult(p, reviewed)
    PROVE  PagesOn
<1> DEFINE j == page[p].job
           n == job[j].revision + 1
           q == page[p].questions + 1
           k == ReviewMark(reviewed, n)
           y == Edited(job[j], q, n, k)
           x == Answering(page[p], n, q)
<1>1. page[p] # None /\ cancelling' = cancelling /\ Types
  BY DEF EditResult, MayAct, Current, AutoquizInv
<1>2. page[p] \in PageRow /\ j \in Jobs /\ job[j] \in Row
  BY <1>1 DEF Types, PageRow
<1>3. n \in Nat /\ q \in Nat /\ k \in Nat /\ job[j].state \in States
  BY <1>2 DEF Row, PageRow, ReviewMark
<1>4. /\ page' = [page EXCEPT ![p] = x] \/ page' = page
      /\ job' = [job EXCEPT ![j] = y]
  BY DEF EditResult, Answered, Answering, Edited
<1>s. job[j].state = "ready"
  BY DEF EditResult
<1> HIDE DEF k, n, q
<1>5. Showing(x, j, n, q) /\ Has(y, job[j].state, n, job[j].token, q, k)
  BY <1>2, <1>3, PageFields, RowFields
<1> HIDE DEF x, y, j
<1>6. job'[j] = y
  BY <1>1, <1>2, <1>4, <1>5, OneRow DEF Has
<1>7. page'[p] = x => ReadsOn(p)
  BY <1>2, <1>3, <1>5, <1>6, <1>s DEF ReadsOn, Reads, Showing, Has
<1> QED BY <1>1, <1>4, <1>5, <1>7, OnePage DEF Showing

LEMMA RequeueFollows ==
    ASSUME AutoquizInv, Changes, NEW p \in Pages, Requeue(p)
    PROVE  PagesOn
<1> DEFINE j == page[p].job
           y == Requeued(job[j])
           n == y.revision
           x == Polled(page[p], "queued", n)
<1>1. page[p] # None /\ cancelling' = cancelling /\ Types /\ job[j].state \in {"failed", "cancelled", "ready"}
  BY DEF Requeue, MayAct, Current, Restartable, AutoquizInv
<1>2. page[p] \in PageRow /\ j \in Jobs /\ job[j] \in Row
  BY <1>1 DEF Types, PageRow
<1>3. y \in Row /\ y.state = "queued" /\ y.revision \in Nat /\ "queued" \in States
  BY <1>1, <1>2, RowSteps DEF Requeues, Row, States, Active
<1>4. /\ page' = [page EXCEPT ![p] = x] \/ page' = page
      /\ job' = [job EXCEPT ![j] = y]
  BY DEF Requeue, Answered, Polled
<1> HIDE DEF y
<1>5. Showing(x, j, n, page[p].questions)
  BY <1>2, <1>3, PageFields
<1> HIDE DEF x, j
<1>6. job'[j] = y
  BY <1>1, <1>2, <1>3, <1>4, OneRow
<1>7. page'[p] = x => ReadsOn(p)
  BY <1>2, <1>3, <1>5, <1>6 DEF ReadsOn, Reads, Showing
<1> QED BY <1>1, <1>4, <1>5, <1>7, OnePage DEF Showing

LEMMA ApplyFollows ==
    ASSUME AutoquizInv, Changes, NEW p \in Pages, ApplyResult(p)
    PROVE  PagesOn
<1>1. /\ cancelling' = cancelling
      /\ page' = [page EXCEPT ![p] = None] \/ page' = page
  BY DEF ApplyResult, Answered
<1>2. page'[p] = None => ReadsOn(p)
  BY DEF ReadsOn
<1> QED BY <1>1, <1>2, OnePage

LEMMA CancelReadFollows ==
    ASSUME AutoquizInv, Changes, NEW p \in Pages, CancelRead(p)
    PROVE  PagesOn
<1> DEFINE j == page[p].job
<1>1. /\ page[p] # None /\ page' = page /\ job' = job /\ job[j].state \in Active
      /\ cancelling' = [job |-> j, row |-> job[j]]
  BY DEF CancelRead, MayAct, Current
<1>2. j \in Jobs /\ job[j] \in Row
  BY <1>1 DEF AutoquizInv, Types, PageRow
<1>3. page' \in [Pages -> PageRow \cup {None}] /\ PagesBehind' /\ EditsAreSeen'
  BY <1>1, PagesFollow DEF ReadsOn, AutoquizInv, Types
<1>4. cancelling' \in [job : Jobs, row : Row] /\ cancelling'.job = j /\ cancelling'.row = job[j]
  BY <1>1, <1>2
<1>5. job[j].revision \in Nat /\ job[j].reviewed <= job[j].revision
  BY <1>2 DEF Row, AutoquizInv, Reviews
<1> HIDE DEF j
<1>6. Between'
  BY <1>1, <1>4, <1>5 DEF Between, Active, Running
<1> QED BY <1>3, <1>4, <1>6 DEF PagesOn

LEMMA CancelSaveFollows ==
    ASSUME AutoquizInv, Changes, CancelSave
    PROVE  PagesOn
<1>1. page' = page /\ cancelling' = None
  BY DEF CancelSave
<1>2. page' \in [Pages -> PageRow \cup {None}] /\ PagesBehind' /\ EditsAreSeen'
  BY <1>1, PagesFollow DEF ReadsOn, AutoquizInv, Types
<1>3. Between'
  BY <1>1 DEF Between
<1> QED BY <1>1, <1>2, <1>3 DEF PagesOn

\* One editor changes: it shows the draft as it is after the step, or closes.
LEMMA OneEditor ==
    ASSUME AutoquizInv, NEW e \in Editors, NEW x \in EditorRow \cup {None},
           editor' = [editor EXCEPT ![e] = x],
           x # None => x.revision = revision' /\ x.asset = asset' /\ x.quizzes = quizzes',
           revision' \in Nat, revision <= revision', revision' = revision => asset' = asset /\ quizzes' = quizzes
    PROVE  editor' \in [Editors -> EditorRow \cup {None}] /\ EditorsBehind'
<1>1. /\ editor' \in [Editors -> EditorRow \cup {None}] /\ editor'[e] = x
      /\ \A d \in Editors \ {e} : editor'[d] = editor[d]
  BY DEF AutoquizInv, Types
<1>2. \A d \in Editors : \/ editor'[d] = editor[d]
                          \/ editor'[d] = None
                          \/ /\ editor'[d].revision = revision'
                             /\ editor'[d].asset = asset' /\ editor'[d].quizzes = quizzes'
  BY <1>1
<1>3. EditorsBehind'
  BY <1>2, EditorsFollow
<1> QED BY <1>1, <1>3

LEMMA OpenEditorFollows ==
    ASSUME AutoquizInv, Changes, NEW e \in Editors, OpenEditor(e)
    PROVE  DraftOn
<1> DEFINE x == [revision |-> revision, asset |-> asset, quizzes |-> quizzes]
<1>1. /\ revision' = revision /\ asset' = asset /\ quizzes' = quizzes /\ archived' = archived
      /\ published' = published /\ editor' = [editor EXCEPT ![e] = x]
  BY DEF OpenEditor, draftVars
<1>2. /\ revision \in 1 .. MaxRevision /\ asset \in [Videos -> Assets \cup {None}]
      /\ quizzes \in SUBSET (Jobs \X Nat)
  BY DEF AutoquizInv, Types
<1>3. x \in EditorRow /\ x.revision = revision /\ x.asset = asset /\ x.quizzes = quizzes
  BY <1>2 DEF EditorRow
<1> HIDE DEF x
<1>4. revision' \in Nat /\ revision <= revision'
  BY <1>1, <1>2, AutoquizConstants
<1>5. editor' \in [Editors -> EditorRow \cup {None}] /\ EditorsBehind'
  BY <1>1, <1>3, <1>4, OneEditor
<1>6. QuizMatchesVideo'
  BY <1>1, VideosFollow
<1> QED BY <1>1, <1>2, <1>5, <1>6 DEF DraftOn, AutoquizInv, Types

LEMMA SaveFollows ==
    ASSUME AutoquizInv, Changes, NEW e \in Editors, NEW a \in [Videos -> Assets \cup {None}], NEW q, Save(e, a, q)
    PROVE  DraftOn
<1> DEFINE n == revision + 1
           x == [revision |-> n, asset |-> a, quizzes |-> q]
<1>1. /\ revision' = n /\ asset' = a /\ quizzes' = q /\ archived' = archived
      /\ published' = published /\ editor' = [editor EXCEPT ![e] = x]
      /\ revision < MaxRevision /\ editor[e] # None /\ q \subseteq editor[e].quizzes
  BY DEF Save, SaveAllowed
<1>2. /\ n \in 1 .. MaxRevision /\ n \in Nat /\ revision < n /\ revision \in Nat
      /\ q \in SUBSET (Jobs \X Nat) /\ published \in 0 .. n /\ archived \in BOOLEAN
  BY <1>1, AutoquizConstants DEF AutoquizInv, Types, EditorRow
<1> HIDE DEF n
<1>3. x \in EditorRow /\ x.revision = n /\ x.asset = a /\ x.quizzes = q
  BY <1>2 DEF EditorRow
<1> HIDE DEF x
<1>n. /\ revision' \in Nat /\ revision <= revision'
      /\ revision' = revision => asset' = asset /\ quizzes' = quizzes
  BY <1>1, <1>2
<1>4. editor' \in [Editors -> EditorRow \cup {None}] /\ EditorsBehind'
  BY <1>1, <1>n, <1>3, OneEditor
<1> QED BY <1>1, <1>2, <1>4, SaveChanges DEF DraftOn

LEMMA ArchiveFollows ==
    ASSUME AutoquizInv, Changes, NEW e \in Editors, Archive(e)
    PROVE  DraftOn
<1> DEFINE n == revision + 1
<1>1. /\ revision' = n /\ asset' = asset /\ quizzes' = quizzes /\ archived' = ~archived
      /\ published' = published /\ editor' = [editor EXCEPT ![e] = None] /\ revision < MaxRevision
  BY DEF Archive
<1>2. n \in 1 .. MaxRevision /\ n \in Nat /\ revision < n /\ revision \in Nat /\ published \in 0 .. n
  BY <1>1, AutoquizConstants DEF AutoquizInv, Types
<1> HIDE DEF n
<1>n. /\ revision' \in Nat /\ revision <= revision'
      /\ revision' = revision => asset' = asset /\ quizzes' = quizzes
  BY <1>1, <1>2
<1>3. editor' \in [Editors -> EditorRow \cup {None}] /\ EditorsBehind'
  BY <1>1, <1>n, OneEditor
<1>4. QuizMatchesVideo'
  BY <1>1, VideosFollow
<1> QED BY <1>1, <1>2, <1>3, <1>4 DEF DraftOn, AutoquizInv, Types

Republished(r, n) == [r EXCEPT !.revision = n]
LEMMA PublishFollows ==
    ASSUME AutoquizInv, Changes, NEW e \in Editors, Publish(e)
    PROVE  DraftOn
<1> DEFINE n == revision + 1
           x == Republished(editor[e], n)
<1>1. /\ revision' = n /\ asset' = asset /\ quizzes' = quizzes /\ archived' = archived
      /\ published' = n /\ revision < MaxRevision /\ editor[e] # None /\ editor[e].revision = revision
  BY DEF Publish, SaveAllowed
<1>2. n \in 1 .. MaxRevision /\ n \in Nat /\ revision < n /\ revision \in Nat
  BY <1>1, AutoquizConstants DEF AutoquizInv, Types
<1>3. editor' = [editor EXCEPT ![e] = x]
  BY DEF Publish, Republished
<1>4. editor[e] \in EditorRow /\ editor[e].asset = asset /\ editor[e].quizzes = quizzes
  BY <1>1 DEF AutoquizInv, Types, EditorsBehind
<1> HIDE DEF n
<1>5. x \in EditorRow /\ x.revision = n /\ x.asset = asset /\ x.quizzes = quizzes
  BY <1>2, <1>4 DEF Republished, EditorRow
<1> HIDE DEF x
<1>n. /\ revision' \in Nat /\ revision <= revision'
      /\ revision' = revision => asset' = asset /\ quizzes' = quizzes
  BY <1>1, <1>2
<1>6. editor' \in [Editors -> EditorRow \cup {None}] /\ EditorsBehind'
  BY <1>1, <1>n, <1>3, <1>5, OneEditor
<1>7. QuizMatchesVideo'
  BY <1>1, VideosFollow
<1>8. published' \in 0 .. revision'
  BY <1>1, <1>2
<1> QED BY <1>1, <1>2, <1>6, <1>7, <1>8 DEF DraftOn, AutoquizInv, Types

\* The quiz enters the draft; the open editors are behind from now on.
LEMMA ApplyDraftFollows ==
    ASSUME AutoquizInv, Changes, NEW p \in Pages, ApplyResult(p)
    PROVE  DraftOn
<1> DEFINE n == revision + 1
           j == page[p].job
<1>1. /\ revision' = n /\ asset' = asset /\ archived' = archived /\ published' = published
      /\ quizzes' = quizzes \cup {<<j, job[j].questions>>} /\ editor' = editor
      /\ revision < MaxRevision /\ page[p] # None
  BY DEF ApplyResult, Applicable, Current
<1>2. n \in 1 .. MaxRevision /\ n \in Nat /\ revision < n /\ revision \in Nat /\ published \in 0 .. n
  BY <1>1, AutoquizConstants DEF AutoquizInv, Types
<1>3. j \in Jobs /\ job[j].questions \in Nat
  BY <1>1 DEF AutoquizInv, Types, PageRow, Row
<1> HIDE DEF n, j
<1>4. quizzes' \subseteq Jobs \X Nat
  BY <1>1, <1>3 DEF AutoquizInv, Types
<1>5. EditorsBehind'
  BY <1>1, <1>2, EditorsFollow
<1>6. QuizMatchesVideo'
  BY <1>1, VideosFollow
<1> QED BY <1>1, <1>2, <1>4, <1>5, <1>6 DEF DraftOn, AutoquizInv, Types

(***************************************************************************)
(* The invariant.                                                          *)
(***************************************************************************)
LEMMA InvariantInit == Init => AutoquizInv
<1> SUFFICES ASSUME Init PROVE AutoquizInv
  OBVIOUS
<1> USE DEF Init
<1>1. NoJob \in Row /\ NoJob.state = "none" /\ NoJob.reviewed = 0 /\ NoJob.revision = 0 /\ NoJob.token = 0
  BY DEF NoJob, Row, States
<1>2. Down \in WorkerRow /\ Down.pc = "down"
  BY DEF Down, WorkerRow
<1>3. \A j \in Jobs : job[j] = NoJob
  OBVIOUS
<1>4. \A w \in Workers : worker[w] = Down
  OBVIOUS
<1>5. Types
  <2>1. revision \in 1 .. MaxRevision /\ published \in 0 .. revision
    BY AutoquizConstants
  <2>2. asset \in [Videos -> Assets \cup {None}] /\ quizzes \subseteq Jobs \X Nat /\ archived \in BOOLEAN
    OBVIOUS
  <2>3. /\ editor \in [Editors -> EditorRow \cup {None}] /\ page \in [Pages -> PageRow \cup {None}]
        /\ cancelling \in [job : Jobs, row : Row] \cup {None}
    OBVIOUS
  <2>4. /\ job \in [Jobs -> Row] /\ confirmed \in [Jobs -> Nat]
        /\ lease \in [token : Nat, expired : BOOLEAN] /\ worker \in [Workers -> WorkerRow]
    BY <1>1, <1>2
  <2>5. overtaken \subseteq Jobs
    OBVIOUS
  <2> QED BY <2>1, <2>2, <2>3, <2>4, <2>5 DEF Types
<1>6. Reviews /\ Tokens /\ Memory
  BY <1>1, <1>2, <1>3, <1>4 DEF Reviews, Tokens, Memory, Running
<1>7. Between /\ PagesBehind /\ EditorsBehind /\ EditsAreSeen
  BY DEF Between, PagesBehind, EditorsBehind, EditsAreSeen
<1>8. QuizMatchesVideo
  BY <1>1, <1>3 DEF QuizMatchesVideo, InState, Active
<1> QED BY <1>5, <1>6, <1>7, <1>8 DEF AutoquizInv

\* The parts that hold whoever acts.
LEMMA Together ==
    ASSUME AutoquizInv, Changes, DraftOn, PagesOn, ProcessesGoOn, Tokens',
           lease' \in [token : Nat, expired : BOOLEAN], overtaken' \subseteq Jobs
    PROVE  AutoquizInv'
<1>1. Types'
  BY DEF Types, Changes, DraftOn, PagesOn, ProcessesGoOn
<1>2. Reviews' /\ Memory'
  BY ReviewsFollow, MemoryFollows DEF ProcessesGoOn
<1> QED BY <1>1, <1>2 DEF AutoquizInv, DraftOn, PagesOn

\* Only the claim of a job, which the worker has in memory, marks one.
LEMMA OvertakenJobs ==
    ASSUME AutoquizInv, [Next]_vars
    PROVE  overtaken' \subseteq Jobs
<1>1. overtaken \subseteq Jobs
  BY DEF AutoquizInv, Types
<1>2. CASE overtaken' = overtaken
  BY <1>1, <1>2
<1>3. ASSUME NEW w \in Workers, Take(w) PROVE overtaken' \subseteq Jobs
  <2>1. worker[w].job \in Jobs
    BY <1>3 DEF Take, AutoquizInv, Memory
  <2> QED BY <1>1, <1>3, <2>1 DEF Take
<1>4. CASE UNCHANGED vars
  BY <1>2, <1>4 DEF vars, ghosts
<1>5. ASSUME NEW e \in Editors, EditorStep(e) PROVE overtaken' \subseteq Jobs
  BY <1>2, <1>5 DEF EditorStep, OpenEditor, Save, Archive, Publish, ghosts
<1>6. ASSUME NEW j \in Jobs, QueueVideo(j) PROVE overtaken' \subseteq Jobs
  BY <1>2, <1>6 DEF QueueVideo, ghosts
<1>7. ASSUME NEW p \in Pages, PageStep(p) PROVE overtaken' \subseteq Jobs
  <2>1. CASE \E j \in Jobs : OpenPage(p, j)
    BY <1>2, <2>1 DEF OpenPage, ghosts
  <2>2. CASE Poll(p) \/ CancelRead(p)
    BY <1>2, <2>2 DEF Poll, CancelRead, ghosts
  <2>3. CASE \E reviewed \in BOOLEAN : EditResult(p, reviewed)
    BY <1>2, <2>3 DEF EditResult
  <2>4. CASE Requeue(p)
    BY <1>2, <2>4 DEF Requeue, ghosts
  <2>5. CASE ApplyResult(p)
    BY <1>2, <2>5 DEF ApplyResult, ghosts
  <2> QED BY <1>7, <2>1, <2>2, <2>3, <2>4, <2>5 DEF PageStep
<1>8. CASE CancelSave
  BY <1>2, <1>8 DEF CancelSave, ghosts
<1>9. ASSUME NEW w \in Workers, WorkerStep(w) PROVE overtaken' \subseteq Jobs
  <2>1. CASE Take(w)
    BY <1>3, <2>1
  <2>2. CASE Acquire(w) \/ Select(w) \/ Refresh(w) \/ ReportRead(w) \/ ReportStale(w)
    BY <1>2, <2>2 DEF Acquire, Select, Refresh, ReportRead, ReportStale, ghosts
  <2>3. CASE SaveText(w) \/ SaveQuiz(w) \/ Fail(w) \/ Leave(w)
    BY <1>2, <2>3 DEF SaveText, SaveQuiz, Fail, Leave, ghosts
  <2> QED BY <1>9, <2>1, <2>2, <2>3 DEF WorkerStep
<1>10. CASE \E w \in Workers : Beat(w) \/ BeatFails(w) \/ Stop(w) \/ Crash(w)
  BY <1>2, <1>10 DEF Beat, BeatFails, Stop, Crash, ghosts
<1>11. CASE LeaseLapses \/ Suspended
  BY <1>2, <1>11 DEF LeaseLapses, Suspended, ghosts
<1> QED BY <1>4, <1>5, <1>6, <1>7, <1>8, <1>9, <1>10, <1>11 DEF Next

LEMMA InvariantStep == AutoquizInv /\ [Next]_vars => AutoquizInv'
<1> SUFFICES ASSUME AutoquizInv, [Next]_vars PROVE AutoquizInv'
  OBVIOUS
<1>1. Changes /\ overtaken' \subseteq Jobs
  BY StepChanges, OvertakenJobs
<1>2. ASSUME UNCHANGED <<lease, worker>>, DraftOn, PagesOn PROVE AutoquizInv'
  <2>1. ProcessesGoOn /\ TokensKept
    BY <1>2, NoProcess, LeaseRows DEF TokensKept
  <2> QED BY <1>1, <1>2, <2>1, TokensFollow, Together DEF TokensKept
<1>3. UNCHANGED <<draftVars, editor>> => DraftOn
  BY <1>1, DraftStays
<1>4. UNCHANGED <<page, cancelling>> => PagesOn
  BY <1>1, PagesStay
<1>5. CASE UNCHANGED vars
  BY <1>2, <1>3, <1>4, <1>5 DEF vars
<1>6. ASSUME NEW e \in Editors, EditorStep(e) PROVE AutoquizInv'
  <2>1. CASE OpenEditor(e)
    BY <1>1, <1>2, <1>4, <2>1, OpenEditorFollows DEF OpenEditor
  <2>2. ASSUME NEW a \in [Videos -> Assets \cup {None}], NEW q \in SUBSET editor[e].quizzes, Save(e, a, q)
        PROVE  AutoquizInv'
    BY <1>1, <1>2, <1>4, <2>2, SaveFollows DEF Save
  <2>3. CASE Archive(e)
    BY <1>1, <1>2, <1>4, <2>3, ArchiveFollows DEF Archive
  <2>4. CASE Publish(e)
    BY <1>1, <1>2, <1>4, <2>4, PublishFollows DEF Publish
  <2> QED BY <1>6, <2>1, <2>2, <2>3, <2>4 DEF EditorStep
<1>7. ASSUME NEW j \in Jobs, QueueVideo(j) PROVE AutoquizInv'
  BY <1>2, <1>3, <1>4, <1>7 DEF QueueVideo
<1>8. ASSUME NEW p \in Pages, PageStep(p) PROVE AutoquizInv'
  <2>1. ASSUME NEW j \in Jobs, OpenPage(p, j) PROVE AutoquizInv'
    BY <1>1, <1>2, <1>3, <2>1, OpenPageFollows DEF OpenPage
  <2>2. CASE Poll(p)
    BY <1>1, <1>2, <1>3, <2>2, PollFollows DEF Poll
  <2>3. ASSUME NEW reviewed \in BOOLEAN, EditResult(p, reviewed) PROVE AutoquizInv'
    BY <1>1, <1>2, <1>3, <2>3, EditFollows DEF EditResult
  <2>4. CASE CancelRead(p)
    BY <1>1, <1>2, <1>3, <2>4, CancelReadFollows DEF CancelRead
  <2>5. CASE Requeue(p)
    BY <1>1, <1>2, <1>3, <2>5, RequeueFollows DEF Requeue
  <2>6. CASE ApplyResult(p)
    BY <1>1, <1>2, <2>6, ApplyFollows, ApplyDraftFollows DEF ApplyResult
  <2> QED BY <1>8, <2>1, <2>2, <2>3, <2>4, <2>5, <2>6 DEF PageStep
<1>9. CASE CancelSave
  BY <1>1, <1>2, <1>3, <1>9, CancelSaveFollows DEF CancelSave
<1>10. ASSUME NEW w \in Workers, WorkerStep(w) \/ Beat(w) \/ BeatFails(w) \/ Stop(w) \/ Crash(w)
       PROVE  AutoquizInv'
  <2>1. UNCHANGED <<draftVars, editor, page, cancelling>>
    BY <1>10 DEF WorkerStep, Beat, BeatFails, Stop, Crash, Acquire, Select, Take, Refresh, ReportRead, ReportStale,
                 SaveText, SaveQuiz, Fail, Leave
  <2>2. CASE Acquire(w)
    BY <1>1, <1>3, <1>4, <2>1, <2>2, AcquireGoesOn, Together
  <2>3. CASE ~Acquire(w)
    <3>1. ProcessesGoOn /\ TokensKept
      BY <1>10, <2>3, WorkerGoesOn
    <3> QED BY <1>1, <1>3, <1>4, <2>1, <3>1, TokensFollow, Together DEF TokensKept
  <2> QED BY <2>2, <2>3
<1>11. CASE LeaseLapses \/ Suspended
  <2>1. /\ UNCHANGED <<draftVars, editor, page, cancelling>> /\ worker' = worker
        /\ lease' = [lease EXCEPT !.expired = TRUE]
    BY <1>11 DEF LeaseLapses, Suspended
  <2>2. ProcessesGoOn /\ TokensKept
    BY <2>1, NoProcess, LeaseRows DEF TokensKept
  <2> QED BY <1>1, <1>3, <1>4, <2>1, <2>2, TokensFollow, Together DEF TokensKept
<1> QED BY <1>5, <1>6, <1>7, <1>8, <1>9, <1>10, <1>11 DEF Next

LEMMA InvariantHolds == Spec => []AutoquizInv
BY InvariantInit, InvariantStep, PTL DEF Spec

(***************************************************************************)
(* The theorems.                                                           *)
(***************************************************************************)
LEMMA TypesOfInvariant == AutoquizInv => TypeOK
<1> SUFFICES ASSUME AutoquizInv PROVE TypeOK
  OBVIOUS
<1>1. Types /\ Reviews /\ EditorsBehind
  BY DEF AutoquizInv
<1>2. \A e \in Editors : editor[e] # None =>
          /\ editor[e].revision \in 1 .. revision
          /\ editor[e].asset \in [Videos -> Assets \cup {None}]
          /\ editor[e].quizzes \subseteq Jobs \X Nat
  BY <1>1, AutoquizConstants DEF Types, EditorRow, EditorsBehind
<1>3. \A j \in Jobs : job[j].reviewed <= job[j].revision
  BY <1>1 DEF Reviews
<1> QED BY <1>1, <1>2, <1>3 DEF Types, TypeOK, PageRow, Row, WorkerRow

\* Every row, lease, page, editor and process holds values that its schema
\* allows, however many there are of each.
THEOREM Autoquiz_Types == Spec => []TypeOK
BY InvariantHolds, TypesOfInvariant, PTL

\* No job that is queued, running or ready is of a file its step no longer
\* shows (sync_videos, the checks of video_in).
THEOREM Autoquiz_QuizMatchesVideo == Spec => []QuizMatchesVideo
<1>1. AutoquizInv => QuizMatchesVideo
  BY DEF AutoquizInv
<1> QED BY <1>1, InvariantHolds, PTL

\* A page that is allowed to edit a ready row shows the questions it replaces
\* (check_revision, edit_result).
THEOREM Autoquiz_EditsAreSeen == Spec => []EditsAreSeen
<1>1. AutoquizInv => EditsAreSeen
  BY DEF AutoquizInv
<1> QED BY <1>1, InvariantHolds, PTL

\* Every step but an editor's save keeps the files and the quizzes that are in
\* the draft, and a save replaces what its editor showed.
LEMMA DraftKept ==
    ASSUME AutoquizInv, [Next]_vars
    PROVE  \/ asset' = asset /\ quizzes' = quizzes
           \/ \E e \in Editors : /\ editor'[e] # editor[e] /\ editor[e] # None /\ quizzes' \subseteq quizzes
                                 /\ editor[e].asset = asset /\ editor[e].quizzes = quizzes
           \/ \E p \in Pages : /\ ApplyResult(p) /\ asset' = asset
                               /\ quizzes' = quizzes \cup {<<page[p].job, job[page[p].job].questions>>}
<1>1. CASE UNCHANGED vars
  BY <1>1 DEF vars, draftVars
<1>2. ASSUME NEW e \in Editors, NEW a, NEW q, Save(e, a, q)
      PROVE  /\ editor'[e] # editor[e] /\ editor[e] # None /\ quizzes' \subseteq quizzes
             /\ editor[e].asset = asset /\ editor[e].quizzes = quizzes
  <2> DEFINE x == [revision |-> revision + 1, asset |-> a, quizzes |-> q]
  <2>1. /\ editor[e] # None /\ editor[e].revision = revision /\ quizzes' = q /\ q \subseteq editor[e].quizzes
        /\ editor' = [editor EXCEPT ![e] = x] /\ x.revision = revision + 1
    BY <1>2 DEF Save, SaveAllowed
  <2>2. revision \in Nat /\ DOMAIN editor = Editors
    BY AutoquizConstants DEF AutoquizInv, Types
  <2> HIDE DEF x
  <2>3. editor'[e] # editor[e]
    BY <2>1, <2>2
  <2> QED BY <2>1, <2>3 DEF AutoquizInv, EditorsBehind
<1>3. ASSUME NEW e \in Editors, EditorStep(e), asset' # asset \/ quizzes' # quizzes
      PROVE  \E d \in Editors : /\ editor'[d] # editor[d] /\ editor[d] # None /\ quizzes' \subseteq quizzes
                               /\ editor[d].asset = asset /\ editor[d].quizzes = quizzes
  <2>1. ~OpenEditor(e) /\ ~Archive(e) /\ ~Publish(e)
    BY <1>3 DEF OpenEditor, Archive, Publish, draftVars
  <2>2. PICK a \in [Videos -> Assets \cup {None}] : \E q \in SUBSET editor[e].quizzes : Save(e, a, q)
    BY <1>3, <2>1 DEF EditorStep
  <2> QED BY <1>2, <2>2
<1>4. ASSUME NEW p \in Pages, PageStep(p), ~ApplyResult(p) PROVE asset' = asset /\ quizzes' = quizzes
  BY <1>4 DEF PageStep, OpenPage, Poll, EditResult, CancelRead, Requeue, draftVars
<1>5. ASSUME NEW p \in Pages, ApplyResult(p)
      PROVE  asset' = asset /\ quizzes' = quizzes \cup {<<page[p].job, job[page[p].job].questions>>}
  BY <1>5 DEF ApplyResult
<1>6. ASSUME NEW j \in Jobs, QueueVideo(j) PROVE asset' = asset /\ quizzes' = quizzes
  BY <1>6 DEF QueueVideo, draftVars
<1>7. CancelSave => asset' = asset /\ quizzes' = quizzes
  BY DEF CancelSave, draftVars
<1>8. ASSUME NEW w \in Workers, WorkerStep(w) \/ Beat(w) \/ BeatFails(w) \/ Stop(w) \/ Crash(w)
      PROVE  asset' = asset /\ quizzes' = quizzes
  BY <1>8 DEF WorkerStep, Beat, BeatFails, Stop, Crash, Acquire, Select, Take, Refresh, ReportRead, ReportStale,
              SaveText, SaveQuiz, Fail, Leave, draftVars
<1>9. LeaseLapses \/ Suspended => asset' = asset /\ quizzes' = quizzes
  BY DEF LeaseLapses, Suspended, draftVars
<1> QED BY <1>1, <1>3, <1>4, <1>5, <1>6, <1>7, <1>8, <1>9 DEF Next

\* Nothing is undone behind its author's back: a draft is replaced only by an
\* editor that showed it (save_draft), and a row becomes ready only with the
\* text that follows the one it held (save_quiz).
THEOREM Autoquiz_NothingUndone == Spec => NothingUndone
<1>1. ASSUME AutoquizInv, [Next]_vars
      PROVE  [/\ asset' # asset \/ ~(quizzes \subseteq quizzes') =>
                     \E e \in Editors : /\ editor'[e] # editor[e] /\ editor[e] # None
                                        /\ editor[e].asset = asset /\ editor[e].quizzes = quizzes
              /\ \A j \in Jobs : job'[j].state = "ready" /\ job[j].state # "ready"
                     => job'[j].questions = job[j].questions + 1]_vars
  <2>1. asset' # asset \/ ~(quizzes \subseteq quizzes') =>
            \E e \in Editors : /\ editor'[e] # editor[e] /\ editor[e] # None
                               /\ editor[e].asset = asset /\ editor[e].quizzes = quizzes
    BY <1>1, DraftKept
  <2>2. ASSUME NEW j \in Jobs, job'[j].state = "ready", job[j].state # "ready"
        PROVE  job'[j].questions = job[j].questions + 1
    <3>1. Change(j)
      BY <1>1, StepChanges DEF Changes
    <3>2. ~Stays(j) /\ ~Asked(j) /\ ~Rewritten(j) /\ ~Cancelled(j)
      BY <2>2 DEF Stays, Asked, ByPeople, Starts, Outdates, Requeues, Applies, Rewritten, Edits, Cancelled, Cancels
    <3>3. Worked(j)
      BY <3>1, <3>2 DEF Change
    <3> QED BY <2>2, <3>3 DEF Worked, ByWorker, Takes, Goes, Breaks, Finishes
  <2> QED BY <2>1, <2>2
<1> QED BY <1>1, InvariantHolds, PTL DEF Spec, NothingUndone

\* What enters the course is the text a person confirmed (apply_result), and an
\* applied job is never touched again.
THEOREM Autoquiz_InsertedAsReviewed == Spec => InsertedAsReviewed
<1>1. ASSUME AutoquizInv, [Next]_vars
      PROVE  [/\ \A q \in quizzes' \ quizzes : confirmed[q[1]] = q[2]
              /\ \A j \in InState({"applied"}) : job'[j] = job[j]]_vars
  <2>1. ASSUME NEW p \in Pages, ApplyResult(p)
        PROVE  confirmed[page[p].job] = job[page[p].job].questions
    <3>1. /\ page[p] # None /\ job[page[p].job].state = "ready"
          /\ job[page[p].job].reviewed = job[page[p].job].revision
      BY <2>1 DEF ApplyResult, Applicable, Current
    <3>2. page[p].job \in Jobs
      BY <1>1, <3>1 DEF AutoquizInv, Types, PageRow
    <3> QED BY <1>1, <3>1, <3>2 DEF AutoquizInv, Reviews
  <2>2. \A q \in quizzes' \ quizzes : confirmed[q[1]] = q[2]
    BY <1>1, <2>1, DraftKept
  <2>3. ASSUME NEW j \in Jobs, job[j].state = "applied" PROVE job'[j] = job[j]
    <3>1. Change(j)
      BY <1>1, StepChanges DEF Changes
    <3>2. ~Asked(j) /\ ~Worked(j) /\ ~Rewritten(j)
      BY <2>3 DEF Asked, ByPeople, Starts, Outdates, Requeues, Applies, Worked, ByWorker, Takes, Goes, Breaks,
                  Finishes, Rewritten, Edits, Active, Running
    <3>3. ~Cancelled(j)
      BY <1>1, <2>3 DEF Cancelled, AutoquizInv, Between, Running
    <3> QED BY <3>1, <3>2, <3>3 DEF Change, Stays
  <2> QED BY <2>2, <2>3 DEF InState
<1> QED BY <1>1, InvariantHolds, PTL DEF Spec, InsertedAsReviewed
=============================================================================
