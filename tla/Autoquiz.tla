------------------------------ MODULE Autoquiz ------------------------------
(***************************************************************************)
(* Quizzes generated from the videos of one course draft: the jobs of      *)
(* backend/autoquiz/services.py, the process of autoquiz/worker.py with    *)
(* its lease and heartbeat thread, the review page of autoquiz/views.py    *)
(* and the draft saves of backend/studio/views.py that start and outdate   *)
(* jobs.                                                                   *)
(*                                                                         *)
(* A job is identified by what its unique constraint names: the video      *)
(* step, the uploaded file and the source of the text (speech recognised   *)
(* by the worker, or subtitles a teacher uploads).  Questions are a number *)
(* that grows with every new text of the job, 0 for none.  Transactions    *)
(* on the web side begin with locked_draft and exclude each other; the     *)
(* worker does not take that lock.                                         *)
(***************************************************************************)
EXTENDS Naturals, FiniteSets

CONSTANTS
    Videos, Assets,      \* video steps of the draft, uploaded files
    Sources,             \* where the text may come from
    AutoVideos,          \* steps with the auto_quiz box ticked
    Pages, Editors,      \* open review pages, open course editors
    Workers,             \* autoquiz_worker processes
    ActiveLimit,         \* 20 in the code
    MaxRevision,         \* bound: revision of the draft
    MaxJobRevision,      \* bound: job revision a person may still act on
    MaxFaults,           \* bound: failures of the worker
    None                 \* "nothing"

Jobs    == Videos \X Assets \X Sources
Active  == {"queued", "transcribing", "generating"}
States  == Active \cup {"none", "ready", "failed", "cancelled", "stale", "applied"}

ASSUME AutoquizConstants ==
    /\ AutoVideos \subseteq Videos
    /\ "speech" \in Sources
    /\ ActiveLimit \in Nat \ {0}
    /\ MaxRevision \in Nat \ {0} /\ MaxJobRevision \in Nat /\ MaxFaults \in Nat
    /\ IsFiniteSet(Videos) /\ IsFiniteSet(Assets) /\ IsFiniteSet(Sources)
    /\ None \notin Assets /\ None \notin Jobs

VARIABLES
    revision,    \* Draft.revision
    asset,       \* asset[v]: the file of step v in Draft.data, or None
    quizzes,     \* <<job, questions>> of the generated quizzes in Draft.data
    archived,    \* Draft.archived
    published,   \* Draft.published_revision
    editor,      \* editor[e]: what an open course editor shows, or None
    page,        \* page[p]: what an open review page shows, or None
    cancelling,  \* a cancel between its SELECT and its save, or None
    job,         \* the Generation rows
    lease,       \* the WorkerLease row
    worker,      \* worker[w]: where the process is and what it has in memory
    confirmed,   \* ghost: confirmed[j], the questions last saved as reviewed
    overtaken,   \* ghost: jobs last claimed after the lease had changed hands
    faults       \* failures so far

draftVars == <<revision, asset, quizzes, archived, published>>
ghosts == <<confirmed, overtaken>>
vars == <<draftVars, editor, page, cancelling, job, lease, worker, ghosts, faults>>

NoJob == [state |-> "none", revision |-> 0, reviewed |-> 0, token |-> 0,
          questions |-> 0, born |-> 0]

Down == [pc |-> "down", token |-> 0, lost |-> FALSE, job |-> None,
         questions |-> 0, ok |-> FALSE]

Init ==
    /\ revision = 1
    /\ asset = [v \in Videos |-> None]
    /\ quizzes = {}
    /\ archived = FALSE
    /\ published = 0
    /\ editor = [e \in Editors |-> None]
    /\ page = [p \in Pages |-> None]
    /\ cancelling = None
    /\ job = [j \in Jobs |-> NoJob]
    /\ lease = [token |-> 0, expired |-> TRUE]
    /\ worker = [w \in Workers |-> Down]
    /\ confirmed = [j \in Jobs |-> 0]
    /\ overtaken = {}
    /\ faults = 0

-----------------------------------------------------------------------------
(* The draft and its editors *)

\* locked_draft: the write that begins every transaction on the draft waits
\* for the one in progress.
DraftFree == cancelling = None

\* video_in: the step still shows the file the job was made for.
VideoIn(j) == ~archived /\ asset[j[1]] = j[2]

InState(S) == {j \in Jobs : job[j].state \in S}
Created    == Jobs \ InState({"none"})

Outdated(r) == [r EXCEPT !.state = "stale", !.token = 0, !.revision = @ + 1]
Fresh(n)    == [NoJob EXCEPT !.state = "queued", !.revision = 1, !.born = n]

\* enqueue creates the jobs of New (of different steps); other unfinished or
\* unused jobs of those steps become stale.
Enqueued(J, New) ==
    [j \in Jobs |->
        IF j \in New THEN Fresh(Cardinality(Created) + 1)
        ELSE IF /\ \E n \in New : n[1] = j[1]
                /\ J[j].state \in Active \cup {"ready", "failed"}
             THEN Outdated(J[j]) ELSE J[j]]

\* sync_videos, first loop: jobs whose file is no longer in the step.
Synced_KeepsReady(a) ==  \* mutant: ready left out of the filter
    [j \in Jobs |-> IF job[j].state \in Active /\ (archived \/ a[j[1]] # j[2])
                    THEN Outdated(job[j]) ELSE job[j]]
Synced(a) ==
    [j \in Jobs |-> IF /\ job[j].state \in Active \cup {"ready"}
                       /\ archived \/ a[j[1]] # j[2]
                    THEN Outdated(job[j]) ELSE job[j]]

\* sync_videos, second loop: a new file in an auto_quiz step, unless some job
\* for that file exists.
Automatic(a) ==
    {j \in Jobs : /\ j[1] \in AutoVideos /\ j[3] = "speech" /\ ~archived
                  /\ a[j[1]] = j[2]
                  /\ \A i \in Created : <<i[1], i[2]>> # <<j[1], j[2]>>}

OpenEditor(e) ==
    /\ editor' = [editor EXCEPT ![e] = [revision |-> revision, asset |-> asset,
                                        quizzes |-> quizzes]]
    /\ UNCHANGED <<draftVars, page, cancelling, job, lease, worker, ghosts, faults>>

SaveAllowed_Blind(e) == editor[e] # None  \* mutant: the revision not compared
SaveAllowed(e) == editor[e] # None /\ editor[e].revision = revision

\* studio.views.save with sync_videos.  A refused save changes nothing: a
\* conflict, no change, or no room for a job (that error undoes the save).
Save(e, a, q) ==
    LET synced == Synced(a)
        busy   == Cardinality({j \in Jobs : synced[j].state \in Active})
        new    == Automatic(a)
    IN  /\ SaveAllowed(e) /\ DraftFree
        /\ revision < MaxRevision
        /\ q \subseteq editor[e].quizzes
        /\ <<a, q>> # <<asset, quizzes>>
        /\ new = {} \/ busy + Cardinality(new) <= ActiveLimit
        /\ revision' = revision + 1
        /\ asset' = a
        /\ quizzes' = q
        /\ job' = Enqueued(synced, new)
        /\ editor' = [editor EXCEPT ![e] = [revision |-> revision + 1,
                                            asset |-> a, quizzes |-> q]]
        /\ UNCHANGED <<archived, published, page, cancelling, lease, worker, ghosts, faults>>

\* studio.views.archive; the page leaves the editor.
Archive(e) ==
    /\ SaveAllowed(e) /\ DraftFree
    /\ revision < MaxRevision
    /\ archived' = ~archived
    /\ revision' = revision + 1
    /\ editor' = [editor EXCEPT ![e] = None]
    /\ UNCHANGED <<asset, quizzes, published, page, cancelling, job, lease, worker,
                   ghosts, faults>>

\* publish_course, as far as it changes the draft: nothing if this revision is
\* out already.
Publish(e) ==
    /\ SaveAllowed(e) /\ DraftFree
    /\ revision < MaxRevision
    /\ ~archived /\ published # revision
    /\ revision' = revision + 1
    /\ published' = revision + 1
    /\ editor' = [editor EXCEPT ![e].revision = revision + 1]
    /\ UNCHANGED <<asset, quizzes, archived, page, cancelling, job, lease, worker,
                   ghosts, faults>>

\* queue_video: a teacher asks for a quiz.  An existing job is returned as it
\* is, whatever its state.
QueueVideo(j) ==
    /\ DraftFree
    /\ VideoIn(j)
    /\ job[j].state = "none"
    /\ Cardinality(InState(Active)) < ActiveLimit
    /\ job' = Enqueued(job, {j})
    /\ UNCHANGED <<draftVars, editor, page, cancelling, lease, worker, ghosts, faults>>

-----------------------------------------------------------------------------
(* The review page *)

Shown(j) == [job |-> j, state |-> job[j].state, revision |-> job[j].revision,
             questions |-> job[j].questions, draft |-> revision]

\* views.review; a reload is the same step.
OpenPage(p, j) ==
    /\ j \in Created
    /\ page' = [page EXCEPT ![p] = Shown(j)]
    /\ UNCHANGED <<draftVars, editor, cancelling, job, lease, worker, ghosts, faults>>

\* The page polls the status of a job in progress; the questions it shows and
\* the revision of the draft stay those of the last load.
Poll(p) ==
    /\ page[p] # None
    /\ LET j == page[p].job IN
          /\ page[p].state \in Active /\ job[j].state \in Active
          /\ page' = [page EXCEPT ![p].state = job[j].state,
                                  ![p].revision = job[j].revision]
    /\ UNCHANGED <<draftVars, editor, cancelling, job, lease, worker, ghosts, faults>>

\* check_revision, under the lock of the draft.
Current(p) ==
    /\ page[p] # None /\ DraftFree
    /\ page[p].revision = job[page[p].job].revision

\* The answer reaches the page, or is lost and the page stays as it was.
Answered(p, shown) == page' = [page EXCEPT ![p] = shown] \/ UNCHANGED page

MayAct(p) == Current(p) /\ page[p].revision < MaxJobRevision

ReviewMark_Ahead(reviewed, r) == IF reviewed THEN r + 1 ELSE 0  \* mutant: counted twice
ReviewMark(reviewed, r) == IF reviewed THEN r ELSE 0

\* edit_result: the text of the page replaces the questions of a ready job.
EditResult(p, reviewed) ==
    /\ MayAct(p)
    /\ LET j == page[p].job
           r == job[j].revision + 1
           q == page[p].questions + 1
       IN  /\ VideoIn(j)
           /\ job[j].state = "ready"
           /\ job' = [job EXCEPT ![j] = [@ EXCEPT !.questions = q, !.revision = r,
                                                  !.reviewed = ReviewMark(reviewed, r)]]
           /\ Answered(p, [page[p] EXCEPT !.revision = r, !.questions = q])
           /\ confirmed' = IF reviewed THEN [confirmed EXCEPT ![j] = q] ELSE confirmed
    /\ UNCHANGED <<draftVars, editor, cancelling, lease, worker, overtaken, faults>>

\* action "cancel" reads the row ...
CancelRead(p) ==
    /\ MayAct(p)
    /\ job[page[p].job].state \in Active
    /\ cancelling' = [job |-> page[p].job, row |-> job[page[p].job]]
    /\ UNCHANGED <<draftVars, editor, page, job, lease, worker, ghosts, faults>>

\* ... and saves every field of the copy it read.  The page then reloads.
CancelSave ==
    /\ cancelling # None
    /\ job' = [job EXCEPT ![cancelling.job] =
                 [cancelling.row EXCEPT !.state = "cancelled", !.token = 0,
                                        !.revision = @ + 1]]
    /\ cancelling' = None
    /\ UNCHANGED <<draftVars, editor, page, lease, worker, ghosts, faults>>

Requeued(r) ==
    [r EXCEPT !.state = "queued", !.token = 0, !.reviewed = 0, !.revision = @ + 1]

Restartable(j) == job[j].state \in {"failed", "cancelled", "ready"}

\* actions "retry" and "regenerate".  The worker touches neither kind of job,
\* so the SELECT and the save are one step.
Requeue(p) ==
    /\ MayAct(p)
    /\ LET j == page[p].job
           r == Requeued(job[j])
       IN  /\ VideoIn(j)
           /\ Restartable(j)
           /\ job' = [job EXCEPT ![j] = r]
           /\ Answered(p, [page[p] EXCEPT !.state = "queued", !.revision = r.revision])
    /\ UNCHANGED <<draftVars, editor, cancelling, lease, worker, ghosts, faults>>

Applicable_Unreviewed(p) ==  \* mutant: the review mark not required
    Current(p) /\ page[p].draft = revision /\ job[page[p].job].state = "ready"
Applicable(p) ==
    /\ Current(p)
    /\ page[p].draft = revision
    /\ job[page[p].job].state = "ready"
    /\ job[page[p].job].reviewed = job[page[p].job].revision

\* apply_result: the quiz enters the draft.  A repeated call for an applied
\* job answers as the first did and changes nothing.
ApplyResult(p) ==
    /\ Applicable(p)
    /\ revision < MaxRevision
    /\ LET j == page[p].job IN
          /\ VideoIn(j)
          /\ quizzes' = quizzes \cup {<<j, job[j].questions>>}
          /\ job' = [job EXCEPT ![j].state = "applied", ![j].revision = @ + 1]
    /\ revision' = revision + 1
    /\ Answered(p, None)
    /\ UNCHANGED <<asset, archived, published, editor, cancelling, lease, worker, ghosts, faults>>

-----------------------------------------------------------------------------
(* The worker *)

\* The filter of the worker's writes.
Holds(w) ==
    /\ worker[w].job # None
    /\ job[worker[w].job].token = worker[w].token
    /\ job[worker[w].job].state \in Active

Goto(w, pc) == worker' = [worker EXCEPT ![w].pc = pc]

\* Back in the loop, with nothing in memory but its token and heartbeat.
Idle(w) ==
    worker' = [worker EXCEPT ![w] = [Down EXCEPT !.pc = "idle", !.token = worker[w].token,
                                                 !.lost = worker[w].lost]]

Interrupted_Left(r) == r  \* mutant: acquire does not look at unfinished jobs
Interrupted(r) ==
    IF r.state \in {"transcribing", "generating"}
    THEN [r EXCEPT !.state = "failed", !.token = 0, !.revision = @ + 1] ELSE r

\* acquire, one transaction: a lapsed lease changes hands, jobs left in the
\* middle fail.
Acquire(w) ==
    /\ worker[w].pc = "down"
    /\ lease.expired
    /\ lease' = [token |-> lease.token + 1, expired |-> FALSE]
    /\ worker' = [worker EXCEPT ![w] = [Down EXCEPT !.pc = "idle",
                                                   !.token = lease.token + 1]]
    /\ job' = [j \in Jobs |-> Interrupted(job[j])]
    /\ UNCHANGED <<draftVars, editor, page, cancelling, ghosts, faults>>

\* claim: the SELECT of the oldest queued job ...
Select(w) ==
    /\ worker[w].pc = "idle" /\ ~worker[w].lost
    /\ \E j \in InState({"queued"}) :
          /\ \A i \in InState({"queued"}) : job[j].born <= job[i].born
          /\ worker' = [worker EXCEPT ![w].pc = "take", ![w].job = j]
    /\ UNCHANGED <<draftVars, editor, page, cancelling, job, lease, ghosts, faults>>

Taken(r, token) ==
    [r EXCEPT !.state = "transcribing", !.token = token, !.revision = @ + 1]

\* ... the UPDATE that takes it, guarded by its state; the lease is not looked
\* at ...
Take(w) ==
    LET j == worker[w].job IN
    /\ worker[w].pc = "take"
    /\ IF job[j].state = "queued"
       THEN /\ job' = [job EXCEPT ![j] = Taken(job[j], worker[w].token)]
            /\ overtaken' = IF worker[w].token = lease.token
                            THEN overtaken \ {j} ELSE overtaken \cup {j}
            /\ Goto(w, "refresh")
       ELSE /\ Idle(w)
            /\ UNCHANGED <<job, overtaken>>
    /\ UNCHANGED <<draftVars, editor, page, cancelling, lease, confirmed, faults>>

\* ... and the read of the row, with the questions a regeneration keeps.
Refresh(w) ==
    /\ worker[w].pc = "refresh"
    /\ worker' = [worker EXCEPT ![w].pc = "transcribe",
                                ![w].questions = job[worker[w].job].questions]
    /\ UNCHANGED <<draftVars, editor, page, cancelling, job, lease, ghosts, faults>>

\* report: the worker looks at its heartbeat and reads the draft.  Reports
\* within a stage write what the next stage writes too, and are left out.
ReportRead(w) ==
    /\ worker[w].pc \in {"transcribe", "generate"}
    /\ IF worker[w].lost THEN Idle(w)
       ELSE worker' = [worker EXCEPT
               ![w].pc = IF @ = "transcribe" THEN "saveText" ELSE "saveQuiz",
               ![w].ok = VideoIn(worker[w].job)]
    /\ UNCHANGED <<draftVars, editor, page, cancelling, job, lease, ghosts, faults>>

\* report: the video was replaced or the course archived; the job is dropped.
ReportStale(w) ==
    LET j == worker[w].job IN
    /\ worker[w].pc \in {"saveText", "saveQuiz"} /\ ~worker[w].ok
    /\ job' = IF job[j].token = worker[w].token
              THEN [job EXCEPT ![j] = Outdated(job[j])] ELSE job
    /\ Idle(w)
    /\ UNCHANGED <<draftVars, editor, page, cancelling, lease, ghosts, faults>>

\* report: the transcript is stored and the questions are begun.
SaveText(w) ==
    LET j == worker[w].job IN
    /\ worker[w].pc = "saveText" /\ worker[w].ok
    /\ IF Holds(w) THEN /\ job' = [job EXCEPT ![j].state = "generating"]
                        /\ Goto(w, "generate")
                   ELSE /\ Idle(w) /\ UNCHANGED job
    /\ UNCHANGED <<draftVars, editor, page, cancelling, lease, ghosts, faults>>

Finished_SameRevision(r, q) ==  \* mutant: revision not counted up
    [r EXCEPT !.state = "ready", !.questions = q, !.reviewed = 0, !.token = 0]
Finished(r, q) ==
    [r EXCEPT !.state = "ready", !.questions = q, !.reviewed = 0, !.token = 0,
              !.revision = @ + 1]

\* report: the questions are ready, built on those the worker had read.
SaveQuiz(w) ==
    LET j == worker[w].job IN
    /\ worker[w].pc = "saveQuiz" /\ worker[w].ok
    /\ job' = IF Holds(w)
              THEN [job EXCEPT ![j] = Finished(job[j], worker[w].questions + 1)]
              ELSE job
    /\ Idle(w)
    /\ UNCHANGED <<draftVars, editor, page, cancelling, lease, ghosts, faults>>

Failed(r) == [r EXCEPT !.state = "failed", !.token = 0, !.revision = @ + 1]

\* recognition, or generate: no model, no result in time, a result that is no
\* use; process records it if the job is still the worker's.
Fail(w) ==
    LET j == worker[w].job IN
    /\ worker[w].pc \in {"transcribe", "generate"}
    /\ job' = IF Holds(w) THEN [job EXCEPT ![j] = Failed(job[j])] ELSE job
    /\ Idle(w)
    /\ UNCHANGED <<draftVars, editor, page, cancelling, lease, ghosts, faults>>

\* Heartbeat.__exit__ gives up a lease that is still its own.
Released(w) ==
    IF lease.token = worker[w].token THEN [lease EXCEPT !.expired = TRUE] ELSE lease

\* The loop of autoquiz_worker ends when the heartbeat is lost.
Leave(w) ==
    /\ worker[w].pc = "idle" /\ worker[w].lost
    /\ worker' = [worker EXCEPT ![w] = Down]
    /\ lease' = Released(w)
    /\ UNCHANGED <<draftVars, editor, page, cancelling, job, ghosts, faults>>

\* Heartbeat.run: the lease is extended, or seen to belong to another.
Beat(w) ==
    /\ worker[w].pc # "down" /\ ~worker[w].lost
    /\ IF lease.token = worker[w].token
       THEN /\ lease' = [lease EXCEPT !.expired = FALSE]
            /\ UNCHANGED worker
       ELSE /\ worker' = [worker EXCEPT ![w].lost = TRUE]
            /\ UNCHANGED lease
    /\ UNCHANGED <<draftVars, editor, page, cancelling, job, ghosts, faults>>

-----------------------------------------------------------------------------
(* Failures *)

Fault == faults < MaxFaults /\ faults' = faults + 1

\* The heartbeat thread meets a database error and ends.
BeatFails(w) ==
    /\ worker[w].pc # "down" /\ ~worker[w].lost
    /\ Fault
    /\ worker' = [worker EXCEPT ![w].lost = TRUE]
    /\ UNCHANGED <<draftVars, editor, page, cancelling, job, lease, ghosts>>

\* Ctrl+C, or a database error in claim: __exit__ runs, the job stays.
Stop(w) ==
    /\ worker[w].pc # "down"
    /\ Fault
    /\ worker' = [worker EXCEPT ![w] = Down]
    /\ lease' = Released(w)
    /\ UNCHANGED <<draftVars, editor, page, cancelling, job, ghosts>>

Crash(w) ==
    /\ worker[w].pc # "down"
    /\ Fault
    /\ worker' = [worker EXCEPT ![w] = Down]
    /\ UNCHANGED <<draftVars, editor, page, cancelling, job, lease, ghosts>>

\* A process holds the lease and its heartbeat thread runs.
Attended == \E w \in Workers : /\ worker[w].pc # "down" /\ ~worker[w].lost
                               /\ worker[w].token = lease.token

\* Sixty seconds without an extension ...
LeaseLapses ==
    /\ ~lease.expired /\ ~Attended
    /\ lease' = [lease EXCEPT !.expired = TRUE]
    /\ UNCHANGED <<draftVars, editor, page, cancelling, job, worker, ghosts, faults>>

\* ... or a process suspended for that long.
Suspended ==
    /\ ~lease.expired /\ Attended
    /\ Fault
    /\ lease' = [lease EXCEPT !.expired = TRUE]
    /\ UNCHANGED <<draftVars, editor, page, cancelling, job, worker, ghosts>>

-----------------------------------------------------------------------------

WorkerStep(w) ==
    \/ Acquire(w) \/ Select(w) \/ Take(w) \/ Refresh(w) \/ ReportRead(w)
    \/ ReportStale(w) \/ SaveText(w) \/ SaveQuiz(w) \/ Fail(w) \/ Leave(w)

EditorStep(e) ==
    \/ OpenEditor(e)
    \/ /\ editor[e] # None
       /\ \E a \in [Videos -> Assets \cup {None}], q \in SUBSET editor[e].quizzes : Save(e, a, q)
    \/ Archive(e) \/ Publish(e)

PageStep(p) ==
    \/ \E j \in Jobs : OpenPage(p, j)
    \/ Poll(p)
    \/ \E reviewed \in BOOLEAN : EditResult(p, reviewed)
    \/ CancelRead(p) \/ Requeue(p) \/ ApplyResult(p)

Next ==
    \/ \E e \in Editors : EditorStep(e)
    \/ \E j \in Jobs : QueueVideo(j)
    \/ \E p \in Pages : PageStep(p)
    \/ CancelSave
    \/ \E w \in Workers : WorkerStep(w) \/ Beat(w) \/ BeatFails(w) \/ Stop(w) \/ Crash(w)
    \/ LeaseLapses \/ Suspended

Spec == Init /\ [][Next]_vars

\* The container restarts the worker, calls to the models end, transactions
\* commit and clocks advance.  People owe nothing.
Fairness ==
    /\ \A w \in Workers : WF_vars(WorkerStep(w)) /\ WF_vars(Beat(w))
    /\ WF_vars(LeaseLapses)
    /\ WF_vars(CancelSave)

FairSpec == Spec /\ Fairness

-----------------------------------------------------------------------------
(* Properties *)

\* Every variable holds values the schema and the processes' memory allow.
TypeOK ==
    /\ revision \in 1 .. MaxRevision
    /\ asset \in [Videos -> Assets \cup {None}]
    /\ quizzes \subseteq Jobs \X Nat
    /\ archived \in BOOLEAN
    /\ published \in 0 .. revision
    /\ \A e \in Editors : editor[e] # None =>
          /\ editor[e].revision \in 1 .. revision
          /\ editor[e].asset \in [Videos -> Assets \cup {None}]
          /\ editor[e].quizzes \subseteq Jobs \X Nat
    /\ page \in [Pages -> [job : Jobs, state : States, revision : Nat,
                           questions : Nat, draft : 1 .. MaxRevision] \cup {None}]
    /\ job \in [Jobs -> [state : States, revision : Nat, reviewed : Nat,
                         token : Nat, questions : Nat, born : Nat]]
    /\ \A j \in Jobs : job[j].reviewed <= job[j].revision
    /\ lease \in [token : Nat, expired : BOOLEAN]
    /\ worker \in [Workers -> [pc : {"down", "idle", "take", "refresh", "transcribe",
                                     "saveText", "generate", "saveQuiz"},
                               token : Nat, lost : BOOLEAN, job : Jobs \cup {None},
                               questions : Nat, ok : BOOLEAN]]
    /\ overtaken \subseteq Jobs

\* A queued, running or ready job belongs to the file its step shows now:
\* however saves, retries and reports interleave, no quiz of a replaced video
\* awaits review.
QuizMatchesVideo ==
    \A j \in InState(Active \cup {"ready"}) : asset[j[1]] = j[2]

\* A page whose revision is that of a ready row shows the row's questions: what
\* an edit replaces, its author has seen.
EditsAreSeen ==
    \A p \in Pages : page[p] # None =>
        LET j == page[p].job
        IN  job[j].state = "ready" /\ page[p].revision = job[j].revision
                => page[p].questions = job[j].questions

\* Nothing is undone behind its author's back: a save replaces the draft its
\* editor showed, so it drops no quiz that was added and undoes no other save;
\* a result builds on the questions its row holds, so a regeneration never
\* brings back a text someone has edited since (save_draft, save_quiz).
NothingUndone ==
    [][/\ asset' # asset \/ ~(quizzes \subseteq quizzes') =>
             \E e \in Editors : /\ editor'[e] # editor[e] /\ editor[e] # None
                                /\ editor[e].asset = asset /\ editor[e].quizzes = quizzes
       /\ \A j \in Jobs : job'[j].state = "ready" /\ job[j].state # "ready"
              => job'[j].questions = job[j].questions + 1]_vars

\* What enters the course was confirmed by a person, in exactly this text, and
\* enters once: an applied job is never touched again, by no retry, late worker
\* or repeated call.
InsertedAsReviewed ==
    [][/\ \A q \in quizzes' \ quizzes : confirmed[q[1]] = q[2]
       /\ \A j \in InState({"applied"}) : job'[j] = job[j]]_vars

\* Claimed by a worker that had lost the lease when it woke up: the next
\* worker failed what was unfinished before that, and looks at it no more.
Stranded(j) == j \in overtaken /\ job[j].state \in {"transcribing", "generating"}

\* A queued job is worked on until it is ready, failed, cancelled or outdated,
\* as long as the processes fail finitely often and one of them runs; the one
\* exception is a job claimed by a worker whose lease had passed to another
\* between its SELECT and its UPDATE (claim does not look at the lease).
EveryJobEnds ==
    \A j \in Jobs :
        job[j].state \in Active ~> job[j].state \notin Active \/ Stranded(j)

\* services.py, action: a processing that has ended cannot be cancelled;
\* locked_draft: concurrent mutations are serialized.
EndedIsNotCancelled ==
    [][\A j \in InState({"ready"}) : job'[j].state # "cancelled"]_vars
=============================================================================
