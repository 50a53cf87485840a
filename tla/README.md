# Formal model of the learning platform

The platform (repository `ib-school`) is a Django application: students read
courses, solve quizzes and C++ tasks, talk in group chats; teachers review,
assign and publish. Everything shared lives in one PostgreSQL database at READ
COMMITTED; it is changed by eight gunicorn threads (`deploy/gunicorn.conf.py`),
by the C++ judge worker and by the optional quiz generator. This directory
holds TLA+ models of the parts that coordinate through that database, the
TLC runs that check them and TLAPS proofs.

## 1. Inventory

| Part | State | Operations | What is hard |
|---|---|---|---|
| Judge queue `practice/services.py`, `judge_worker.py`, `views.cancel` | `Submission` (status, claim token, lease, retries, retry time), `WorkerHeartbeat`, `BlockProgress.done/attempts` | enqueue, cancel, claim (four statements), heartbeat, verdict, retry, recovery | two tabs, two workers, lease expiry, a late verdict, cancel racing a verdict, an account blocked in between |
| Judge engine `practice/engine.py`, `runner/sandbox.py` | cache of at most eight compiled programs | judge, compile, run a test | outcome table, cache eviction |
| Workspace `practice/views.py`, `practice.js` | `Workspace` (code, revision, video position and its revision); in each tab the text, what of it is saved, a pending key | type, save, send, poll, cancel, show an earlier source, reload | two tabs saving over each other, answers lost or given up and handled later |
| Quiz generation `autoquiz/services.py`, `worker.py` | `Generation` (state, revision, reviewed revision, token), `WorkerLease` | enqueue, sync after a save, edit, cancel, retry, regenerate, apply; acquire, claim, report, finish, fail, heartbeat | a suspended worker, a video replaced while it is processed, an edit by two teachers, a repeated apply |
| Speech/LLM `asr_process.py`, `ollama.py`, `generator.py`, `validation.py` | none | external calls | their failure is an outcome of the generation step |
| Studio `studio/services.py`, `views.py`, `content.py` | `Draft` (data, revision, published revision, archived, latest course), `Release`, `Course.is_listed` | save, publish, archive, import; normalize, problems | optimistic revisions, a publish of a stale page, a listed course that is archived, a quiz nobody can pass |
| Enrolment `courses/views.enroll_course` | `Enrollment` | enrol, course assignment | one enrolment for all releases of a draft |
| Learning `learning/services.py`, `rules.py`, `views.py` | `BlockProgress`, `Enrollment.percent`, `LessonProgress`, `Achievement`, `QuizAttempt` | start, open, submit, complete, recalculate | an answer's time is taken before the lock is waited for; progress is recomputed from rows; rounding; comments that are not comments |
| Teaching `teaching/services.py`, `views.py` | `Group`, `Membership`, `Assignment`, `AssignmentTarget`, `BlockReview`, `ReviewEvent`, `ReportSnapshot` | archive, add, remove, assign, deadline, review, report, keep and compare reports | one current target for each member and assignment; a report is put together from several queries |
| Messenger `messenger/services.py`, `views.py`, `messenger.js` | `Room` (version, sequence), `Message` (revision), read marks | send, edit, delete, members, history poll | a poll that races a change, a repeated send, an edit of an old text |
| Access `access/*` | `AccountSecurity` (version, secret, last counter), `RecoveryCode`, `Invitation`, `ResetGrant`, sessions | sign in, second factor, set up, recovery, register, password, reset, the administrator's actions, `recover_owner` | single use, revocation of sessions, requests that read before they write |
| Accounts, core, config | users, profiles | registration, pages | the account row is the lock of most operations above |
| Deployment `tools/ib.py`, `deploy_env.py`, `backup_compose.py`, `restore_backup.py`, `deploy/` | the project's folder, `.env.deploy`, images, volumes, USB and backup folders | start, stop, export, import, back up, restore, import keys | a command that fails or is cut off in the middle and is run again |

Interaction: a request reads the signed-in account, opens a transaction and
locks the account row (`lock_user`) or the row it edits; the judge commits a
verdict by locking the student's account; saving a draft synchronises the quiz
jobs of its videos; publishing copies the draft and its quiz anchors into a new
course; a completed block recomputes the enrolment and its achievements.

Properties that make each part correct: a submission is answered once and for
good, and counted and credited once (judge); one teacher's edit is never lost
silently, a verified quiz is inserted exactly once into the version of the
video it was made from (quiz generation, studio); exactly the newest release
is on sale (studio); one enrolment for each family of releases (enrolment);
what is shown of a student agrees with what he did and never goes back
(learning, reports); a client that has seen version V shows every change up to
V (messenger); a code works once and an ended session stays out (access); no
text replaces one its author had not seen (workspace); what a command hands on
is whole, and data stays readable (deployment).

## 2. Plan

Order of work, most important behaviour first.

| Step | Modules | State |
|---|---|---|
| 1. Judge queue and what it promises | `SubmissionLedger` (abstract), `JudgeQueue`, `JudgeQueueProofs` | done |
| 2. Quiz generation with its worker, its review page and the draft saves | `Autoquiz`, `AutoquizProofs` | done |
| 3. A chat room, its history endpoint and the page that polls it | `Messenger`, `MessengerProofs` | done for groups |
| 4. Studio, then enrolment and study groups on top of it | `Studio`, `Classroom` (extends `Studio`), `ClassroomProofs` for both | done |
| 5. The rules of marks and quizzes, the documents courses are made of, a student's progress, what others are shown of it | `Rules`, `Content`, `Learning`, `Reports`, each extending the one before; `LearningProofs` | done |
| 6. Accounts, codes, sessions | `Access`, `AccessProofs` | done |
| 7. The editor of a task and its autosave | `Workspace`, `WorkspaceProofs` | done |
| 8. The operator's commands | `Operator`, `OperatorProofs` | done |

Every invariant and every action property of a passing run is now also a theorem
(section 6). What remains is out of the provers' reach (section 6, "Only
model-checked") or would be new modelling (section 8).

## 3. Modules

A step is what no other process can see the middle of: a transaction that takes
its lock first and commits once, or, where transactions read without a lock or
wait for a second one, each statement by itself. PostgreSQL runs at READ
COMMITTED, so a statement sees what is committed when it runs. Ids, tokens and
texts are small numbers; times are what their comparisons tell (a lease is
live or lapsed).

**SubmissionLedger** is the abstract promise: a submission is filed under a
fresh key by a student with nothing in progress, may be started and returned,
and ends in one verdict; a block is credited to at most one accepted check of
that block by that student.

**JudgeQueue** is `practice/services.py`, the cancel view and the loop of
`judge_worker`. `enqueue` is `ReadAccount` (authentication), `Admit` (all
checks, under the account's lock) and `Insert` (the row and the commit), so that
several requests are between check and insert at once. `claim` is four
steps, as in the code: `ExpireExhausted`, `ExpireRequeue`, `Select`, `Take`;
`Take` compares only the status. `process_one` is `JudgeEnds`, `RunnerRetry`,
`RunnerGivesUp` and `commit_result`, whose read of the student (`LoadUser`)
and whose transaction (`Commit`) are two steps. `Stop`, `Crash` and `Restart`
are the container's; `LeaseLapse` may happen to a worker that is alive but
suspended; `ToggleAccess` blocks an account at any time. `Holds` is the filter
`pk, claim_token, status` all late writes use.

**Autoquiz** is one course draft: the `Generation` rows keyed by step, file and
source, `WorkerLease`, and the draft's content as far as the jobs depend on
it. On the web side every handler starts with `locked_draft`; `cancel` alone is
two steps (`CancelRead`, `CancelSave`), because the worker writes the row
without that lock and the handler saves the copy it read. The worker's `process`
is a step per statement, its heartbeat thread is `Beat`. `claim` looks at the lease
in neither of its statements, so `Take` may come from a worker whose lease has
passed to the other; `overtaken` (ghost) keeps which jobs were claimed so. Editors
save the content they hold; review pages act on what they last loaded, and an
answer can be lost.

**Messenger** is one group. Writers lock the room, so each is one step. The
history endpoint is three queries (`ReadVersion`, `CountChanges`,
`ReadMessages`); a page applies answers with `Apply` (the functions `load`,
`loadHistory` and `render` of `messenger.js`) and sends with the request key it
keeps for an unchanged text. `Open` leaves an unsent text in the field and drops the
key it was sent under; `forgotten` (ghost) counts for each text how often that
happened to one that was sent and not answered. Requests may be lost before and
after they were handled. Its `TypeOK` includes that the group's owner belongs to it, through
every order of leaving, removing and handing over.

**Studio** is drafts, releases, catalogue and the tabs of the editors. All
handlers lock the draft and compare the revision; a lost answer leaves the tab
at the revision it had. A draft's document is an opaque content that passes
`content.problems` or not. `Imported` takes over any content of the first version,
released or not.

**Classroom** extends it with `Enrollment`, `Group` and its rows. `Give` is
`lock_user` plus `ensure_target` for the next member, in the order of
`order_by('id')`; all rows become visible at `Commit`. Self-enrolment reads
`is_listed` and writes in two steps, with a publication or an archiving possibly
between them. `leftOut` is a history variable: members who were blocked
when their group got a course, whom the code passes over.

**Rules** is `learning/rules.py` and the arithmetic of `learning/services.py`:
the count of comments of a C++ source (spliced lines, literals, raw literals,
digit separators), the automatic mark, the percent with Python's rounding, the
colour of a student, and what makes an answer to a quiz right.

**Content** is the document of a draft opened up: what `normalize` refuses
(`WellFormed`), what `problems` lists (`Complete`), the rows a publication makes
of it (`Materials`, a PDF shown beside a step being an attachment of its own
row), and the files a student may fetch.

**Learning** is one student in one course. All writers lock the account, so
each handler is one step, but the time an answer was received at is taken before
the lock is waited for; `Receive` and `Handle` are therefore two steps, and a
program is judged between. The course is chosen among drafts that can be
published, and among courses of the first version with the results the
migration turns into rows; drafts that
`normalize` or `problems` must refuse are in the set they are chosen from.
`finish` is `Finish` with everything it recomputes: row, enrolment, lessons,
achievements.

**Reports** adds what others are shown: `report_rows` reads the percent first
(`ReadPairs`) and counts the blocks in a later query (`Keep`), while the student
goes on; reports are kept, compared, deleted. A filter only decides whose rows
are in a report, so one student and one course stand for all.

**Access** is the accounts. A request runs in stages, one for each transaction:
it reads the account, consumes a code, acts. `request[b].seen` is the account as
the request read it: the password forms save that whole copy. `Gate` is the
middleware, `Pending` is `pending_user`. A one-time code is a pair of secret and
counter; `accepted` (ghost) holds what was accepted ever and what was accepted
again. `revoked` (ghost) tells of each browser what became of the session it had when
the sessions of its account were ended: it is out; or it is late, because a
request had checked it and is about to open the next one (`Entering`); or it has
outlived the revocation that way (`Continue`). `SignIn` checks the password,
`SignedIn` reads the account's row and opens the session. `Act` is the administrator's page `person`
with its four kinds of action, `RecoverOwner` the console command.

**Workspace** is the page `practice.js` in each tab and the handlers it calls.
A request is sent, handled and answered in three steps; the page gives up after
15 seconds, and what it gave up (`late`) may be handled at any later time.
`stored` (ghost) holds of each revision its text and the text its author's tab
knew before. `intents` (ghost) has an entry for each thing a student wants sent: a text, in
a mode, from a tab, until an answer comes. It is kept from what he does, not from
the `pending` key of the page, which is what has to be right; `forgotten` counts how
often the page dropped that key with the intent unanswered: by a reload, or by
sending something else.
`submit` here is what the page can tell apart of `enqueue`: an old
submission of the same key, a new one, a refusal.

**Operator** is `ib.py`, `deploy_env.py`, `backup_compose.py` and
`restore_backup.py` on two machines. A command is a sequence of steps. `Fail`
ends it at any of them with the clean-up the code has (the services a backup
stopped are started again), `PowerCut` ends it without. Contents are version
numbers. An image has a content, the files it was built from, and a label, the
manifest of that moment, which may describe other files; `Change` edits the files or
takes an edit back, `SourceManifest` describes them. `served` is the keys the site's
container was made with; `SiteUp` makes it anew. Three ghosts name what the
properties except: `described` an image built from the files of its manifest, `rekeyed`
a machine that got other keys than its data or its running site has, `copied` a
backup of one. `ImportKeys` is possible at any time no command runs, on any
installation, as in `deploy_env.py`.

## 4. Runs

Between them the passing runs fire every action of every module. The bounds are
the CONSTANTS of the configurations; constraints are named in the MC modules.

| Run | Instance | Shows |
|---|---|---|
| `judge_credit` | 1 student, 1 task, 2 keys, 2 handlers, 1 worker, 2 submissions, 1 fault | no two submissions in progress, each graded check counted and credited once, silence of a blocked account, refinement of the ledger |
| `judge_live` | 2 workers, 1 submission, 1 retry, 1 fault, fairness | verdicts are final, each submission is answered, retried once more than the budget at most |
| `autoquiz_review` | 1 step, 1 file, 2 workers, 1 page, 1 editor, 1 fault | nothing is undone behind its author's back, an edit replaces what its author saw, only confirmed text enters the course, once |
| `autoquiz_live` | 1 step, 2 files, 2 workers, 1 page, 1 editor, 1 fault, fairness; people act on a job up to its revision 2 | no live job for a file the step no longer shows; every job ends, unless a worker that had lost the lease claimed it (divergence 3) |
| `autoquiz_cancel` | 1 worker, no fault | violation, divergence 1 |
| `chat_feed` | 2 members, 1 page, 3 requests, page size 1, change limit 1, 2 messages, 4 changes, 2 texts, 2 keys | what a page shows is right up to its version; nothing twice, unless the key of an unanswered send was dropped with its room; the owner is a member |
| `chat_history` | 3 messages | violation, divergence 2 |
| `classroom` | 1 draft, 2 tabs, 3 contents, 4 revisions, 2 students, 2 groups, 2 changes at once | catalogue and publication marks, one release for each student, members have the group's courses, no deadlock |
| `learning` | 12 documents (4 to be published, 5 to be refused, 3 of the first version, one of them with 200 blocks), 7 programs, 2 tabs, 2 instants, 2 attempts, 2 reviews, 2 kept reports | percent, ticks, shelves and achievements agree with the rows and nothing done is taken back; the mark is what the times and comments say; the journal of reviews has no gap; reports are not ahead of the day nor behind each other; every published block can be done |
| `access` | the superuser and 1 account, 2 browsers, 1 invitation, 1 grant, 2 instants, 2 revocations, 2 secrets, 3 passwords | what is good for one use is used once; an ended session stays out, unless a request was just opening the next one (divergence 4) |
| `workspace` | 2 tabs, one of which sends in 2 modes, 2 texts, 3 keys, 2 submissions, 1 late request | nothing is overwritten unseen, 'saved' is true, one thing to send is one submission, and one more for each time its key was dropped |
| `operator` | 2 machines, 2 versions of the sources, 2 changes of the data, 2 sets of keys | what a command completes is whole, but for images of undescribed files (divergence 6); nothing in use is replaced; data stays readable, but where keys were replaced (divergence 5) |

Why this is enough. Every counterexample found, in the code or in a mutant,
needs two parties that disagree about one row; the instances have two of each
kind of party that can disagree, and the smallest data over which they can:
two submissions of a student, two files of a step, two releases, two groups with
common members, one page of history smaller than the room, two browsers of one
account, two tabs of one text, a clock of two instants. Limits (100
submissions, 20 jobs, 50 and 150 messages, 100 reports) are 1 or 2, so they are
reached; the 200 steps of a lesson are kept, because rounding needs them: 199
of 200 blocks would be shown as 100 %. The revisions let a tab be behind by more
than one change.

`CHECK_DEADLOCK FALSE` is used where counters end the run (`chat_*`, `learning`,
`access`, `workspace`, `operator`); people may always stop.

Constraints.

* `InTurn` stops exploring a page after an answer was applied out of turn
  (`OutOfTurn`): older than the page, a first load over a loaded page, or changes
  since a version that the page, opened anew, has not reached. The script does nothing
  against that and `FeedFollows` is not claimed then (see the hazards).
* `Apart` in `MCMessenger` allows typed texts and changes of the members only
  while the history is short and one request is under way, and a third request
  only in the first two versions. The third case of `OutOfTurn` needs three requests.
* `Apart` in `MCClassroom` keeps tabs that are out of date apart from students: a
  stale tab can change nothing but itself, and what it could do is explored
  without students; with two students or two groups there is no second release,
  which one student and one group are enough to meet.
* `Apart` in `MCLearning`: while a report is read or kept, the course is one of
  the short ones, no program and at most one answer is under way and a block
  has at most one review. The student still completes what he answers, which is
  what a report can miss.
* `Touched` and `Reviewed` name the blocks the student and the teacher act on.
  In the long course all blocks but one are done before.
* `Apart` in `MCWorkspace`: the student types in both tabs, or sends from one
  and types less. What is sent is first saved by the same code, and a send changes no
  workspace row. The third key is for a student who sends the starter in turn in both
  modes.
* `Apart` in `MCOperator`: the sources are carried to the other machine with
  models, or the data without; the old machine rests once the new one is set up.
  USB sets and backups are different folders and no command uses both. While there is a
  USB set the sources are as they were described, and the new machine has no network;
  what a set is made from is explored before.
* `MaxKeys` of `chat_feed` is 2: the answer to a send is lost, the room is left, and
  the text is sent again under another key.

The theorems of section 6 have no such constraints.

Symmetry is used for handlers, workers, keys, pages, files, groups, browsers,
tabs of a student and complete contents, in runs without liveness properties.
Students of `Classroom` are numbers, because the order of their locks matters,
and are not symmetric.

Every property of a passing run has a mutant of the code in `PROJECT.json`
(a forgotten lock, filter or comparison; a wrong sign; a reset left out) under
which its run fails; the mutated operators stand in the modules, marked
`mutant`, next to what they change.

## 5. Fairness

`judge_live` and `autoquiz_live` assume: a worker's loop goes on (it has no exit
but a signal, and `compose` restarts the container), a transaction that has
its locks commits, calls to the runner and the models end (both have time
limits), clocks advance, so leases lapse and back-offs end. Only the lease of a
process that does not extend it must lapse. All of it is weak fairness, nobody is
obliged to submit, save, cancel or review, and faults are finitely many
(`MaxFaults`). `EveryJobEnds` excepts a job that a worker claimed after its lease had
passed to another: the other one goes on, and no fairness of it brings it back to
that job (divergence 3). Fairness of the sum `WorkerStep(w)` does not choose between
outcomes, so a submission may be answered with an error.

The other modules state no liveness: what happens there happens because a person
asks for it.

## 6. Proofs

The eight `...Proofs` modules are checked by TLAPS for all values of the
constants. They assume what the named `ASSUME`s of the components say and
nothing more: bounds are numbers, `None` is not a value it stands for the absence
of, sets that are counted are finite, a new draft is not complete
(`StudioConstants`), accounts are numbers so that locks have an order
(`ClassroomConstants`), a start option is three flags (`OperatorConstants`). The bounds (`MaxSubs`, `MaxRevision`, `MaxTexts` and so on)
are arbitrary, so they bound nothing, and the constraints of section 4 play no
part. There is at least one worker, and finitely many (`WorkerProcesses`). One
theorem has a hypothesis of its own: `Learning_MarksAreEarned` has `CommentsCounted`
(below).

Each proof has the same shape: an inductive invariant, which TLC checked on the
instances of section 4 before it was proved; one lemma for each action; and the
properties read off the invariant. Leaves are kept small: every module also proves
with a tenth of the provers' default time limits (`tlapm --stretch 0.1`), so the
proofs do not depend on a fast machine.

### Judge queue

* `TypeCorrect`: `TypeOK` of the queue. It is inductive; it also says that
  filed submissions are numbered without gaps and that a busy worker names one.
  It is proved and no longer part of a run.
* `VerdictsFinal`: every step that changes a status changes one of an open
  submission (`RowStep`), because all writes filter by status.
* `OneAtATime`: `AccountLock` and `OneActivePerUser` together are inductive and
  neither is alone: the insert is safe because of what the lock has kept true
  since the checks, and the lock's claim holds because no row of that account
  opens elsewhere.
* `CreditIsEarned`: `AwardSound` with types and locks is inductive; `CommitStep`
  describes the one transaction that credits.
* `QueueImplementsLedger`: initial states map to initial states, and each step
  maps to a step of the ledger or a stutter, under the mapping
  `filed <- sub, phase <- status, credit <- done`. `Insert` is `File`, `Take`
  is `Start`, the expiries and `RunnerRetry` are `Return`, `Commit` is
  `Settle`, `Withdraw`, or a stutter when the claim is gone.
* `EachCountedOnce`: `CountedOnce`, which is inductive with the types: a commit adds
  one graded check to its block and leaves all others alone (`CountedCommit`, `GradedSame`).
* `RetriesBounded`: `RetryBudget`, the documented budget and one retry more for each worker
  beyond the first. The bound alone is not inductive: workers hold the number of
  retries their SELECT read. `ReadersSpend` counts those that may still retry by
  what they read (`Readers`); from the limit on nobody joins them, each spends at
  most one, and whoever brought the row to the limit is no longer one of them.
  The bound is sharp: with 1, 2 and 3 workers TLC finds it reached.
* `BlockedStaysQuiet`: the action property `BlockedIsQuiet`. `Insert` and `Take`
  look at the account again, under its lock.

### Studio

* `StudioTypes`, `CatalogueIsRight`, `PublishedIsCurrent`: the invariant
  `StudioInv` adds to the properties that a tab is never ahead of its draft and,
  at equal revisions, shows what the draft has (`TabsFollow`), and that a
  published revision is not in the future (`PublishedFollows`). Without the
  second, a save could move the revision onto the published one.
* `NobodyOverwritesUnseen`: the action property `ActsOnWhatItSaw`, from
  `TabsFollow` before the step.

### Workspace

`WorkspaceInv` says that a page or a request *knows* the text it takes for
stored: the text and the revision it goes with were stored together (`History`).
Comparing revisions is safe for that reason only: equal revisions then mean
equal texts. From it `Workspace_NothingOverwrittenUnseen` and, with the relation
between a page's counters (`Follows`), `Workspace_ShownAsSaved`.
`Workspace_OneSendOneJob` counts keys: those an intent was sent under, wherever a copy
still is - in a job, in a request, in a request that was given up - and the one the page
would send it under again are one, and one more for each time the page forgot it
(`KeysFew`); while it is neither answered nor forgotten the page has it pending
(`Held`); and a key has one job (`OneJobPerKey`). `Workspace_Types` includes that a
student has at most one job in progress.

### Access

`AccessInv` says what accepting leaves behind (`Spent`): the counter of the
secret has passed the code, the list has lost it, the grant is closed, the
invitation is gone. Nothing later may undo that, so the invariant also holds a
secret that an unfinished set-up has made apart from all secrets in use
(`SetUps`); without that, two set-ups could bring a counter back. This gives
`Access_OneTimeUse`. `Access_RevokedIsOut` needs a second invariant, `Shut`: a session that
is out is older than the version or the password of its account, and both only
grow - also through the password form, which saves the whole copy it read, and
in that case with a new password. A late session is stale in the same way until
its request opens the next one. What the request of
a browser that is out may still open is dead (`Kept`): a set-up compares the
version it began with when it commits, and any other began with a password that
has changed since.

### Autoquiz

`AutoquizInv` holds what a process remembers: tokens are drawn once (`Tokens`), a
worker whose token is in the row has read the questions the row holds
(`Memory`), a page's revision is behind the row's, or one that a cancel took
back (`PagesBehind`), an editor of the current revision shows the current draft
(`EditorsBehind`), and between a cancel's read and its save only the worker
goes on with the row, two revisions at most (`Between`). Each step of a row is one
of a dozen kinds (`Starts` ... `Cancels`), and the parts are proved from the
kinds. Results: `Autoquiz_QuizMatchesVideo`, `Autoquiz_EditsAreSeen` and the
action properties `Autoquiz_NothingUndone` and `Autoquiz_InsertedAsReviewed`.

### Classroom

`Classroom_Types` is proved and no longer part of a run. `Classroom_ImplementsStudio`: every step is a step of `Studio` or leaves its
variables alone, so the theorems of `Studio` hold here, and `StudioInv` is a
part of `ClassroomInv`. `Classroom_OneRelease` needs that a change under way
gives a student the release he will have (`Giving`), which the lock on his
account keeps true until it is written (`Locks`). `Classroom_MembersAreAssigned`
needs what a change still owes (`Owed`). `Classroom_NoDeadlock`: whoever waits asks
for accounts in rising order and holds only smaller ones; the holder of the
greatest account that is held does not wait (lemma `Greatest`).

### Messenger

`MessengerInv` has two halves. For the page: a change takes a number greater
than all before, and what has kept its number has kept what is shown of it, also
as a preview in another message (`Moves`). So what an answer holds as of its
version stays right while it is on its way (`Sane`): a first page has no hole
from its first message on, a list of changes is complete up to its version because the
count before it has shown that they fit (`Late`), however the list was cut
by sends after the count. `ShownRight` then goes through the four kinds of
answers. For sends: the requests a text was ever sent in - user, key and text
together, wherever they still are: in the room, on the way, in the page
(`StampsOf`) - are one, and one more for each time `Open` dropped its key (`Kept`), and
the room has one message of a request (`Once`). Results: `Messenger_Types`,
`Messenger_FeedFollows`, `Messenger_NoDuplicates`.

The first attempt at `Messenger_FeedFollows` failed for a reason: an answer to
"changes since V" that was asked before the page was opened anew and comes after
its first page hides what lies between. TLC shows it with three requests, and two
had been too few. `OutOfTurn` names the case now, and the hazard of
`messenger.js:69` includes it.

### Learning and reports

`LearningInv` says that work begins with the enrolment and the opening (`Begun`),
that what is recomputed agrees with the rows (`Agreed`) and that the journal of
a block is a chain (`Chained`). The arithmetic it rests on is proved for any
number of blocks: `PercentBounds` (100 % exactly when every block is done),
`PercentGrows` (a block more never lowers it, whatever is rounded), and that a
course has finitely many blocks (`CourseFinite`). An attempt is described once
(`Attempt`, `FinishKeeps`) for confirmations, quizzes and programs. Results:
`Learning_TypeOK`, `Learning_ProgressAgrees`, `Learning_ReviewChain` and, since each
step keeps the rows that are done (`Kept`), the action property
`Learning_PaidForGood`.

* `Learning_EveryBlockCanBeDone`: for any course that passes the checks. The set of
  expected choices, sent as a sequence, is a right answer (`RightAnswer`);
  right answers to all questions reach any pass mark (`PassingAnswers`).
* `Learning_MarksAreEarned` adds that a finished row keeps what its mark was
  computed from (`Earning`). Its hypothesis `CommentsCounted` says that the
  counter of comments is right on the programs: the counter is a recursion over
  the text, out of the provers' reach. The run `learning` needs no hypothesis,
  its programs hold the cases that are hard to count.
* `Reports_IsLearning`: a report changes nothing, so all of this holds beside
  reports. `Reports_KeepUp`: what a report has read is not ahead of the student's
  percent, which only grows (`EnrolmentStays`, `PointsStay`); copies are in order
  also when one of them is deleted (`Removed`).

Two things came up in the attempt to prove `ProgressAgrees`. It used to say that
a lesson is ticked exactly when its blocks are done; the step that would prove it for
a course of the first version fails, and the code bears this out (divergence
15). The property, and a document of the run, say so now. And attempts at a
quiz are counted from the upgrade on: older `QuizAttempt` rows, of which there may
be any number, are left out.

### Operator

`OperatorInv`: on either machine that was not given other keys, what is stored was
stored with the keys there are and the site runs with them; a site that runs has
keys, and a request under way has stored its file (`Keyed`); a complete backup has the
keys of its database, unless it is of a machine that was given others
(`BackupKeyed`); images built from the files of their manifest hold what their
label says, also in a USB set (`Labelled`); and a command's step tells what the
steps before it have left (`Commanded`) - from the second step of a backup or a
restore on the site does not run there, so nothing moves what was copied or
restored. A failure or a power cut may end a command at any step; that the
invariant survives both is what the clean-up of `backup_compose` and the order of
its steps are for. Results: `Operator_Readable`, and the action properties
`Operator_InUseIsKept` and `Operator_CompletedIsWhole`. The run `operator` keeps its
two machines apart (`Apart`) to stay small; the theorems do not. What the two
properties except is divergences 5 and 6.

### Only model-checked

* Liveness (`EveryoneAnswered`, `EveryJobEnds`): it needs `ENABLED` and fairness.
* What the recursive count of comments returns for every program: it would need
  induction over data (the hypothesis of `Learning_MarksAreEarned`).

## 7. Where code and documents disagree

Two are runs that end in a violation:

1. **A cancelled result** (`autoquiz_cancel`). `cancel` saves all fields of
   the row it read; a result stored in between is replaced. The lock that is
   meant to serialise the two is not taken by the worker.
2. **A hole in the history** (`chat_history`). An old message that is
   edited enters the page out of its place, and earlier pages are asked for
   below it; what lies between is shown nowhere.

Four are named exceptions of properties: the model does what the code does, the property
says what holds beside it, and without the exception TLC finds the counterexample
told here. (`NoDuplicates` and `OneSendOneJob` have exceptions too: a room left, a page
loaded again or a send of something else drops the key of an unanswered send, and
the same text sent again is then new. No document says otherwise.)

3. **A stranded job** (`EveryJobEnds`). A worker is suspended between the
   SELECT and the UPDATE of `claim`; the lease passes to another, which fails what
   is unfinished; the first wakes, sets the job to 'transcribing'
   (`autoquiz/worker.py:76` does not look at the lease), finds that it has lost the
   lease and stops. Nobody works on the job, and *retry* refuses it; only *cancel* or
   a further change of the lease frees it. `autoquiz_worker.py:34` says an
   unfinished task can be repeated after the start.
4. **A sign-in outlives a revocation** (`RevokedIsOut`). `finish_login` and
   `start_pending` read the account's version for the new session after the request has
   passed its checks; sessions that are ended in between are ended for all but it.
   `recover_owner.py:22` and `views.py:276` say that the sessions are revoked.
5. **Keys replaced under data** (`Readable`). `--import-keys` replaces the keys of any
   installation and prints "Existing secrets are kept" (`tools/deploy_env.py:114`); what
   the old ones encrypted is lost to the site from its next start on. The guide
   asks for the import in a new installation, before the start.
6. **Images of other sources** (`CompletedIsWhole`). `start --build` builds the files there
   are and labels them with the manifest there is. An edit, a build and the edit
   undone leave images that `export-usb` takes for those of the sources
   (`tools/ib.py:113`, `:149`, `:176`).

Others were met while modelling. The modules do what the code does; no run is
spent on them.

7. **Retry budget.** `process_one` (`practice/services.py:117`) decides by the
   number of retries the SELECT read, and the claim compares only the status.
   Each judge beyond the first may so spend one retry more (`RetriesBounded`: not
   more than that); `docs/CPP_RU.md:22` says two at most. The compose file starts one
   judge, and with one the theorem says that the budget is kept.
8. **One loaded model.** A quiz worker suspended past its lease, or in a long
   model call, works on beside the next one (`autoquiz/worker.py:72`), against
   the comment at `autoquiz/models.py:64`. What it writes is refused by its
   token; only the memory is shared.
9. **Archived, yet enrolled.** Someone who joins a group is enrolled in all its
   courses, archived ones included (`teaching/services.py:40`);
   `docs/history/README_M2.md:88` says the archive closes new enrolments.
10. **The password form undoes an administrator.** It saves every field of the
   account as it was read (`access/views.py:186`); a block or a role given in
   between is gone.
11. **A page in conflict with itself.** When the answer to a save is lost, the
   page repeats the save under the old revision, and is told that another tab
   has changed the text (`practice/views.py:53`).
12. **The limit of the judge's queue** is compared with a count other students'
   requests may pass at the same time, so it is exceeded by as many requests
   as are under way.
13. **The trial calculation of the teaching rules** gives a mark for an answer
    received before its block was opened, which has none in the journal.
14. **A power cut during a restore** leaves a machine with its database and
    without its media, which a second restore refuses: the volumes have to be
    removed by hand.
15. **Done, and not ticked.** The upgrade keeps the marks of lessons as the first
    version had them and updates only lessons that have one
    (`learning/migrations/0002_import_m2_progress.py:61`). A lesson whose
    quizzes were passed while one that was later deleted was missing has none: all its
    blocks are done and it is not ticked until the student completes something
    else in the course.

## 8. Not modelled, and what is assumed

* Sandbox, compiler, speech and language models, quiz generation and its
  validation: outside programs or checks of one document. Their outcomes are
  nondeterministic. The judge engine's cache of compiled programs changes no
  outcome.
* `Access`: the second factor is switched on (`DEV_DISABLE_MFA` off); the limits
  on attempts are left out; sessions do not expire.
* `Workspace`: the position in a video is saved by the same comparison under a
  revision of its own, and has no second model.
* `Learning`: one student and one course. A release never changes, and the
  course is not archived. `Reports`: one report at a time; filters are not
  modelled.
* `Operator`: one command at a time, one image for all services. The judge's services and profile, and the transfer of
  single courses are left out. A request cut off by a stop is lost, whatever
  part of it was stored.
* Messenger: direct rooms and the lobby, read marks, attachments with their quota
  and the limits per minute. Teaching: renaming, deadlines and notices.
* Uploads, byte ranges, example courses, anchors of quiz questions in the video.
* Course management by the old forms of `courses/views.py`: they answer 410.
* Django's own administration pages (`/admin/`): `accounts/admin.py` offers the accounts, and
  `courses/admin.py` enrolments, results, awards and messages of the first
  version. They write a row whole as they read it, without the locks of the
  services, so an edit there can undo a concurrent change as the password form
  does (divergence 10); what the models say holds as long as nobody edits there.
* Catalogue and home pages, profile forms, settings, URL tables and schema
  migrations (but the one that imports old results): they only show rows, or
  keep no state the components above share.
