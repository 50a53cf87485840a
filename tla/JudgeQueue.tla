----------------------------- MODULE JudgeQueue -----------------------------
(***************************************************************************)
(* The queue of C++ submissions: backend/practice/services.py (enqueue,    *)
(* claim, commit_result, process_one), the cancel view of                  *)
(* backend/practice/views.py and the loop of                               *)
(* management/commands/judge_worker.py.                                    *)
(*                                                                         *)
(* One step is one database statement or one transaction: gunicorn's       *)
(* request handlers and the judge workers interleave between them.         *)
(* Transactions that lock_user() the same account exclude each other.      *)
(*                                                                         *)
(* Time is abstracted to what its comparisons can tell: a lease is live or *)
(* lapsed, a retry is waiting for its back-off or not, a worker's          *)
(* heartbeat row is fresh or stale.  A uuid4 claim token is the number of  *)
(* the claim.  A verdict "rejected" stands for wrong_answer,               *)
(* compile_error, runtime_error, time_limit and output_limit.              *)
(***************************************************************************)
EXTENDS Naturals, FiniteSets

CONSTANTS
    Users, Tasks, Keys,   \* students, practice tasks, idempotency keys
    Handlers,             \* gunicorn threads (2 workers x 4 threads)
    Workers,              \* judge_worker processes
    QueueLimit,           \* 100 in the code
    RetryLimit,           \* 2 in the code
    MaxSubs,              \* bound: submissions ever filed
    MaxFaults,            \* bound: crashes, stops and database failures
    None                  \* "nothing"

Ids      == 1 .. MaxSubs
Request  == [user : Users, task : Tasks, mode : {"run", "check"}, key : Keys]
Live     == {"queued", "running"}
Verdicts == {"accepted", "rejected", "run_ok", "error", "cancelled"}
Results  == {"accepted", "rejected", "run_ok", "error"}

ASSUME QueueConstants ==
    /\ QueueLimit \in Nat \ {0} /\ RetryLimit \in Nat
    /\ MaxSubs \in Nat /\ MaxFaults \in Nat
    /\ None \notin Request /\ None \notin Users

\* The compose file starts one worker process; more may be started.
ASSUME WorkerProcesses == IsFiniteSet(Workers) /\ Workers # {}

VARIABLES
    active,     \* active[u]: User.is_active
    reader,     \* reader[h]: the account handler h has read, still active then
    admitted,   \* admitted[h]: the request h is about to insert, under u's lock
    count,      \* submissions filed so far; ids follow submitted_at
    sub,        \* sub[s]: the request of submission s
    status,     \* Submission.status
    token,      \* Submission.claim_token, 0 for NULL
    issued,     \* issued[s]: claim tokens drawn for s so far
    retries,    \* Submission.retries
    lapsed,     \* lapsed[s]: lease_until is in the past
    waiting,    \* waiting[s]: retry_after is in the future
    done,       \* done[u, t]: the submission that completed the block, or 0
    attempts,   \* BlockProgress.attempts
    worker,     \* worker[w]: where the process is and what it has in memory
    fresh,      \* workers whose heartbeat row is younger than 30 s
    faults      \* failures so far

webVars    == <<reader, admitted>>
rowVars    == <<count, sub, status, token, issued, retries, lapsed, waiting>>
creditVars == <<done, attempts>>
vars == <<active, webVars, rowVars, creditVars, worker, fresh, faults>>

Stages == {"down", "idle", "exhaust", "requeue", "select", "take",
           "judging", "verdict", "commit"}

At(stage) == [pc |-> stage, job |-> 0, token |-> 0, retries |-> 0,
              result |-> "none", sawActive |-> FALSE]

Init ==
    /\ active   = [u \in Users |-> TRUE]
    /\ reader   = [h \in Handlers |-> None]
    /\ admitted = [h \in Handlers |-> None]
    /\ count    = 0
    /\ sub      = [s \in Ids |-> None]
    /\ status   = [s \in Ids |-> "none"]
    /\ token    = [s \in Ids |-> 0]
    /\ issued   = [s \in Ids |-> 0]
    /\ retries  = [s \in Ids |-> 0]
    /\ lapsed   = [s \in Ids |-> FALSE]
    /\ waiting  = [s \in Ids |-> FALSE]
    /\ done     = [b \in Users \X Tasks |-> 0]
    /\ attempts = [b \in Users \X Tasks |-> 0]
    /\ worker   = [w \in Workers |-> At("idle")]
    /\ fresh    = {}
    /\ faults   = 0

-----------------------------------------------------------------------------
(* Web requests *)

\* lock_user: the account row is locked by a transaction between its checks
\* and its commit.
Locked_NoLock(u) == FALSE  \* mutant: lock_user(user) forgotten
Locked(u) == \E h \in Handlers : admitted[h] # None /\ admitted[h].user = u

Filed     == 1 .. count
Open(s)   == status[s] \in Live
OpenOf(u) == {s \in Filed : sub[s].user = u /\ Open(s)}
AllOpen   == {s \in Filed : Open(s)}

HasRoom == Cardinality(AllOpen) < QueueLimit

\* Authentication loads the user; login fails for an inactive one.  The
\* object is not read again in the request.
ReadAccount(h, u) ==
    /\ reader[h] = None /\ admitted[h] = None
    /\ active[u]
    /\ reader' = [reader EXCEPT ![h] = u]
    /\ UNCHANGED <<active, admitted, rowVars, creditVars, worker, fresh, faults>>

\* enqueue up to the last check: the account is locked, the key is new, a
\* worker is alive, the student has nothing in progress, the queue has room.
\* The block was opened before (learning.open_block).
Admit(h, r) ==
    /\ reader[h] = r.user
    /\ ~Locked(r.user)
    /\ \A s \in Filed : sub[s].user = r.user => sub[s].key # r.key
    /\ fresh # {}
    /\ OpenOf(r.user) = {}
    /\ HasRoom
    /\ count + Cardinality({g \in Handlers : admitted[g] # None}) < MaxSubs
    /\ admitted' = [admitted EXCEPT ![h] = r]
    /\ reader'   = [reader EXCEPT ![h] = None]
    /\ UNCHANGED <<active, rowVars, creditVars, worker, fresh, faults>>

\* The INSERT and the commit that releases the account.
Insert(h) ==
    /\ admitted[h] # None
    /\ count < MaxSubs
    /\ count'    = count + 1
    /\ sub'      = [sub EXCEPT ![count + 1] = admitted[h]]
    /\ status'   = [status EXCEPT ![count + 1] = "queued"]
    /\ admitted' = [admitted EXCEPT ![h] = None]
    /\ UNCHANGED <<active, reader, token, issued, retries, lapsed, waiting,
                   creditVars, worker, fresh, faults>>

\* Every other answer of enqueue changes nothing: a repeated key returns the
\* old submission, a failed check or the limit of 10 a minute an error.
Refuse(h) ==
    /\ reader[h] # None
    /\ ~Locked(reader[h])
    /\ reader' = [reader EXCEPT ![h] = None]
    /\ UNCHANGED <<active, admitted, rowVars, creditVars, worker, fresh, faults>>

Cancellable_Any(s) == s \in Filed  \* mutant: the status filter forgotten
Cancellable(s) == s \in Filed /\ Open(s)

\* views.cancel: only a live submission changes; its claim token stays.
Cancel(h, s) ==
    /\ Cancellable(s)
    /\ reader[h] = sub[s].user
    /\ ~Locked(reader[h])
    /\ status' = [status EXCEPT ![s] = "cancelled"]
    /\ reader' = [reader EXCEPT ![h] = None]
    /\ UNCHANGED <<active, admitted, count, sub, token, issued, retries, lapsed,
                   waiting, creditVars, worker, fresh, faults>>

\* access.views.person, action toggle (the account row FOR UPDATE).
ToggleAccess(u) ==
    /\ ~Locked(u)
    /\ active' = [active EXCEPT ![u] = ~@]
    /\ UNCHANGED <<webVars, rowVars, creditVars, worker, fresh, faults>>

-----------------------------------------------------------------------------
(* Workers *)

Holds_TokenOnly(w) ==  \* mutant: status='running' left out of the filter
    worker[w].job \in Filed /\ token[worker[w].job] = worker[w].token

\* The guard of every write a worker makes for its job.
Holds(w) ==
    /\ worker[w].job \in Filed
    /\ status[worker[w].job] = "running"
    /\ token[worker[w].job] = worker[w].token

\* process_one begins with the heartbeat row.
Poll(w) ==
    /\ worker[w].pc = "idle"
    /\ worker' = [worker EXCEPT ![w].pc = "exhaust"]
    /\ fresh'  = fresh \cup {w}
    /\ UNCHANGED <<active, webVars, rowVars, creditVars, faults>>

Expired_AnyStatus(s) == s \in Filed /\ lapsed[s]  \* mutant: no status filter
Expired(s) == s \in Filed /\ status[s] = "running" /\ lapsed[s]

\* claim, first UPDATE: expired leases with no retry left.
ExpireExhausted(w) ==
    /\ worker[w].pc = "exhaust"
    /\ worker' = [worker EXCEPT ![w].pc = "requeue"]
    /\ status' = [s \in Ids |-> IF Expired(s) /\ retries[s] >= RetryLimit
                                THEN "error" ELSE status[s]]
    /\ UNCHANGED <<active, webVars, count, sub, token, issued, retries, lapsed,
                   waiting, creditVars, fresh, faults>>

Returned_Never(s) == FALSE  \* mutant: claim does not recover expired leases
Returned(s) == Expired(s) /\ retries[s] < RetryLimit

\* claim, second UPDATE: the other expired leases go back to the queue.
ExpireRequeue(w) ==
    /\ worker[w].pc = "requeue"
    /\ worker'  = [worker EXCEPT ![w].pc = "select"]
    /\ status'  = [s \in Ids |-> IF Returned(s) THEN "queued" ELSE status[s]]
    /\ retries' = [s \in Ids |-> IF Returned(s) THEN retries[s] + 1 ELSE retries[s]]
    /\ token'   = [s \in Ids |-> IF Returned(s) THEN 0 ELSE token[s]]
    /\ waiting' = [s \in Ids |-> IF Returned(s) THEN FALSE ELSE waiting[s]]
    /\ UNCHANGED <<active, webVars, count, sub, issued, lapsed, creditVars,
                   fresh, faults>>

Claimable(s) == s \in Filed /\ status[s] = "queued" /\ ~waiting[s]

\* claim, the SELECT: the oldest claimable row, read into memory.
Select(w) ==
    /\ worker[w].pc = "select"
    /\ \E s \in Ids :
          /\ Claimable(s)
          /\ \A i \in Ids : Claimable(i) => s <= i
          /\ worker' = [worker EXCEPT ![w] =
                          [At("take") EXCEPT !.job = s, !.retries = retries[s]]]
    /\ UNCHANGED <<active, webVars, rowVars, creditVars, fresh, faults>>

SelectNothing(w) ==
    /\ worker[w].pc = "select"
    /\ \A s \in Ids : ~Claimable(s)
    /\ worker' = [worker EXCEPT ![w] = At("idle")]
    /\ UNCHANGED <<active, webVars, rowVars, creditVars, fresh, faults>>

\* claim, the last UPDATE: only status is compared, the copy in memory keeps
\* the retries the SELECT saw.
Take(w) ==
    LET s == worker[w].job
    IN  /\ worker[w].pc = "take"
        /\ status[s] = "queued"
        /\ status' = [status EXCEPT ![s] = "running"]
        /\ issued' = [issued EXCEPT ![s] = @ + 1]
        /\ token'  = [token EXCEPT ![s] = issued[s] + 1]
        /\ lapsed' = [lapsed EXCEPT ![s] = FALSE]
        /\ worker' = [worker EXCEPT ![w].pc = "judging",
                                    ![w].token = issued[s] + 1]
        /\ UNCHANGED <<active, webVars, count, sub, retries, waiting,
                       creditVars, fresh, faults>>

TakeLost(w) ==
    /\ worker[w].pc = "take"
    /\ status[worker[w].job] # "queued"
    /\ worker' = [worker EXCEPT ![w] = At("idle")]
    /\ UNCHANGED <<active, webVars, rowVars, creditVars, fresh, faults>>

\* cancelled(): heartbeat and, while the claim stands, a longer lease.
Heartbeat(w) ==
    /\ worker[w].pc = "judging"
    /\ fresh'  = fresh \cup {w}
    /\ lapsed' = IF Holds(w) THEN [lapsed EXCEPT ![worker[w].job] = FALSE]
                             ELSE lapsed
    /\ UNCHANGED <<active, webVars, count, sub, status, token, issued, retries,
                   waiting, creditVars, worker, faults>>

\* cancelled() answers yes: the claim is gone, the job is dropped.
SeeCancelled(w) ==
    /\ worker[w].pc = "judging"
    /\ ~Holds(w)
    /\ worker' = [worker EXCEPT ![w] = At("idle")]
    /\ UNCHANGED <<active, webVars, rowVars, creditVars, fresh, faults>>

\* engine.judge returns, or fails with an unexpected exception ("error").
JudgeResults(mode) ==
    IF mode = "run" THEN {"run_ok", "rejected", "error"}
                    ELSE {"accepted", "rejected", "error"}

JudgeEnds(w) ==
    /\ worker[w].pc = "judging"
    /\ \E r \in JudgeResults(sub[worker[w].job].mode) :
          worker' = [worker EXCEPT ![w].pc = "verdict", ![w].result = r]
    /\ UNCHANGED <<active, webVars, rowVars, creditVars, fresh, faults>>

RetryLeft_OneMore(w) == worker[w].retries <= RetryLimit  \* mutant: <= for <
RetryLeft(w) == worker[w].retries < RetryLimit

\* RunnerError with a retry left, by the copy in memory.
RunnerRetry(w) ==
    LET s == worker[w].job
    IN  /\ worker[w].pc = "judging"
        /\ RetryLeft(w)
        /\ IF Holds(w)
           THEN /\ status'  = [status EXCEPT ![s] = "queued"]
                /\ retries' = [retries EXCEPT ![s] = @ + 1]
                /\ token'   = [token EXCEPT ![s] = 0]
                /\ waiting' = [waiting EXCEPT ![s] = TRUE]
           ELSE UNCHANGED <<status, retries, token, waiting>>
        /\ worker' = [worker EXCEPT ![w] = At("idle")]
        /\ UNCHANGED <<active, webVars, count, sub, issued, lapsed, creditVars,
                       fresh, faults>>

\* RunnerError without one: the job ends in an error of the service.
RunnerGivesUp(w) ==
    /\ worker[w].pc = "judging"
    /\ ~RetryLeft(w)
    /\ worker' = [worker EXCEPT ![w].pc = "verdict", ![w].result = "error"]
    /\ UNCHANGED <<active, webVars, rowVars, creditVars, fresh, faults>>

\* commit_result evaluates job.user before it locks that user's row.
LoadUser(w) ==
    /\ worker[w].pc = "verdict"
    /\ worker' = [worker EXCEPT ![w].pc = "commit",
                     ![w].sawActive = active[sub[worker[w].job].user]]
    /\ UNCHANGED <<active, webVars, rowVars, creditVars, fresh, faults>>

Outcome_Blind(w) == worker[w].result  \* mutant: authorize() not called again
Outcome(w) ==
    IF ~worker[w].sawActive THEN "cancelled"
    ELSE IF sub[worker[w].job].mode = "run" /\ worker[w].result = "accepted"
         THEN "error" ELSE worker[w].result

Graded_AnyMode(s, v) == v \in {"accepted", "rejected"}  \* mutant: mode ignored
Graded(s, v) == sub[s].mode = "check" /\ v \in {"accepted", "rejected"}

\* The rest of commit_result, one transaction under the account lock.
Commit(w) ==
    LET s == worker[w].job
        b == <<sub[s].user, sub[s].task>>
        v == Outcome(w)
    IN  /\ worker[w].pc = "commit"
        /\ ~Locked(sub[s].user)
        /\ IF Holds(w)
           THEN /\ status'   = [status EXCEPT ![s] = v]
                /\ attempts' = IF Graded(s, v) /\ done[b] = 0
                               THEN [attempts EXCEPT ![b] = @ + 1] ELSE attempts
                /\ done'     = IF Graded(s, v) /\ v = "accepted" /\ done[b] = 0
                               THEN [done EXCEPT ![b] = s] ELSE done
           ELSE UNCHANGED <<status, attempts, done>>
        /\ worker' = [worker EXCEPT ![w] = At("idle")]
        /\ UNCHANGED <<active, webVars, count, sub, token, issued, retries,
                       lapsed, waiting, fresh, faults>>

-----------------------------------------------------------------------------
(* Failures and the passing of time *)

\* DatabaseError: the loop sleeps and starts over, the row stays as it is.
Abandon(w) ==
    /\ worker[w].pc \notin {"down", "idle"}
    /\ faults < MaxFaults
    /\ faults' = faults + 1
    /\ worker' = [worker EXCEPT ![w] = At("idle")]
    /\ UNCHANGED <<active, webVars, rowVars, creditVars, fresh>>

\* Ctrl+C: a job being judged is given back as an error, the heartbeat row
\* is deleted.
Stop(w) ==
    /\ worker[w].pc # "down"
    /\ faults < MaxFaults
    /\ faults' = faults + 1
    /\ status' = IF worker[w].pc = "judging" /\ Holds(w)
                 THEN [status EXCEPT ![worker[w].job] = "error"] ELSE status
    /\ worker' = [worker EXCEPT ![w] = At("down")]
    /\ fresh'  = fresh \ {w}
    /\ UNCHANGED <<active, webVars, count, sub, token, issued, retries, lapsed,
                   waiting, creditVars>>

\* The process dies; nothing is cleaned up.
Crash(w) ==
    /\ worker[w].pc # "down"
    /\ faults < MaxFaults
    /\ faults' = faults + 1
    /\ worker' = [worker EXCEPT ![w] = At("down")]
    /\ UNCHANGED <<active, webVars, rowVars, creditVars, fresh>>

Restart(w) ==
    /\ worker[w].pc = "down"
    /\ worker' = [worker EXCEPT ![w] = At("idle")]
    /\ UNCHANGED <<active, webVars, rowVars, creditVars, fresh, faults>>

\* 120 s without a heartbeat, also when the worker is only suspended.
LeaseLapse(s) ==
    /\ status[s] = "running" /\ ~lapsed[s]
    /\ lapsed' = [lapsed EXCEPT ![s] = TRUE]
    /\ UNCHANGED <<active, webVars, count, sub, status, token, issued, retries,
                   waiting, creditVars, worker, fresh, faults>>

BackoffEnds(s) ==
    /\ waiting[s]
    /\ waiting' = [waiting EXCEPT ![s] = FALSE]
    /\ UNCHANGED <<active, webVars, count, sub, status, token, issued, retries,
                   lapsed, creditVars, worker, fresh, faults>>

HeartbeatStale(w) ==
    /\ w \in fresh
    /\ fresh' = fresh \ {w}
    /\ UNCHANGED <<active, webVars, rowVars, creditVars, worker, faults>>

-----------------------------------------------------------------------------

\* What a worker that neither fails nor is suspended does next.
WorkerStep(w) ==
    \/ Poll(w) \/ ExpireExhausted(w) \/ ExpireRequeue(w)
    \/ Select(w) \/ SelectNothing(w) \/ Take(w) \/ TakeLost(w)
    \/ SeeCancelled(w) \/ JudgeEnds(w) \/ RunnerRetry(w) \/ RunnerGivesUp(w)
    \/ LoadUser(w) \/ Commit(w)

WebStep ==
    \E h \in Handlers :
        \/ \E u \in Users : ReadAccount(h, u)
        \/ \E r \in Request : Admit(h, r)
        \/ Insert(h)
        \/ Refuse(h)
        \/ \E s \in Ids : Cancel(h, s)

Next ==
    \/ WebStep
    \/ \E u \in Users : ToggleAccess(u)
    \/ \E w \in Workers :
          \/ WorkerStep(w)
          \/ Heartbeat(w)
          \/ Abandon(w) \/ Stop(w) \/ Crash(w) \/ Restart(w)
          \/ HeartbeatStale(w)
    \/ \E s \in Ids : LeaseLapse(s) \/ BackoffEnds(s)

Spec == Init /\ [][Next]_vars

\* A row nobody works on: time alone ends its lease.
Orphan(s) ==
    ~ \E w \in Workers : worker[w].pc \in {"judging", "verdict", "commit"}
                            /\ worker[w].job = s /\ worker[w].token = token[s]

\* The loop of judge_worker never ends, the container restarts a dead
\* worker, a transaction commits, clocks advance.  Users owe nothing.
Fairness ==
    /\ \A w \in Workers : WF_vars(WorkerStep(w)) /\ WF_vars(Restart(w))
    /\ \A h \in Handlers : WF_vars(Insert(h))
    /\ \A s \in Ids : WF_vars(Orphan(s) /\ LeaseLapse(s)) /\ WF_vars(BackoffEnds(s))

FairSpec == Spec /\ Fairness

-----------------------------------------------------------------------------
(* Properties *)

\* Every variable holds values the schema and the workers' memory allow.
TypeOK ==
    /\ active \in [Users -> BOOLEAN]
    /\ reader \in [Handlers -> Users \cup {None}]
    /\ admitted \in [Handlers -> Request \cup {None}]
    /\ count \in 0 .. MaxSubs
    /\ sub \in [Ids -> Request \cup {None}]
    /\ \A s \in Ids : sub[s] # None <=> s <= count
    /\ status \in [Ids -> {"none"} \cup Live \cup Verdicts]
    /\ \A s \in Ids : status[s] # "none" <=> s <= count
    /\ token \in [Ids -> Nat] /\ issued \in [Ids -> Nat]
    /\ retries \in [Ids -> Nat]
    /\ lapsed \in [Ids -> BOOLEAN] /\ waiting \in [Ids -> BOOLEAN]
    /\ done \in [Users \X Tasks -> 0 .. MaxSubs]
    /\ attempts \in [Users \X Tasks -> Nat]
    /\ worker \in [Workers -> [pc : Stages, job : 0 .. MaxSubs, token : Nat,
                              retries : Nat, result : Results \cup {"none"},
                              sawActive : BOOLEAN]]
    /\ \A w \in Workers :
          worker[w].pc \in {"take", "judging", "verdict", "commit"}
              => worker[w].job \in Filed
    /\ \A w \in Workers :
          worker[w].pc \in {"verdict", "commit"} => worker[w].result # "none"
    /\ fresh \subseteq Workers
    /\ faults \in 0 .. MaxFaults

\* A student never has two submissions in progress, whatever tabs, retries
\* and reclaimed leases do (enqueue's check under lock_user).
OneActivePerUser ==
    \A i, j \in Filed : Open(i) /\ Open(j) /\ sub[i].user = sub[j].user => i = j

\* Between the checks of enqueue and its INSERT what was checked stays true:
\* one transaction at a time holds an account, and nothing the account owns
\* starts or takes the key meanwhile.
AccountLock ==
    /\ \A g, h \in Handlers :
          admitted[g] # None /\ admitted[h] # None /\ admitted[g].user = admitted[h].user
              => g = h
    /\ \A h \in Handlers, s \in Filed :
          admitted[h] # None /\ sub[s].user = admitted[h].user
              => ~Open(s) /\ sub[s].key # admitted[h].key

BlockOf(s) == <<sub[s].user, sub[s].task>>

\* A block is credited to an accepted check of this block by this student,
\* and an accepted check never goes uncredited.
AwardSound ==
    /\ \A b \in Users \X Tasks : done[b] # 0 =>
          /\ done[b] \in Filed
          /\ status[done[b]] = "accepted"
          /\ sub[done[b]].mode = "check"
          /\ BlockOf(done[b]) = b
    /\ \A s \in Filed : status[s] = "accepted" => done[BlockOf(s)] # 0

GradedOf(b) == {s \in Filed : /\ BlockOf(s) = b /\ sub[s].mode = "check"
                             /\ status[s] \in {"accepted", "rejected"}}

\* BlockProgress.attempts counts the graded checks up to the one that
\* completed the block: nothing that is retried, reclaimed or answered late is
\* counted twice or forgotten.
CountedOnce ==
    \A b \in Users \X Tasks :
        IF done[b] = 0 THEN attempts[b] = Cardinality(GradedOf(b))
        ELSE attempts[b] \in 1 .. Cardinality(GradedOf(b))

\* docs/CPP_RU.md:22: a submission is retried at most RetryLimit times.  Of
\* several workers each but one may spend one retry more, because process_one
\* compares the retries that the SELECT of claim read.
RetryBudget ==
    \A s \in Ids : retries[s] <= RetryLimit + (Cardinality(Workers) - 1)

\* A verdict, once stored, is never replaced: not by a late worker, not by
\* cancel, not by the recovery of a lease.
FinalIsFinal ==
    [][\A s \in Ids : status[s] \in Verdicts => status'[s] = status[s]]_vars

InFlight(u) ==
    \/ \E h \in Handlers : reader[h] = u \/ (admitted[h] # None /\ admitted[h].user = u)
    \/ \E w \in Workers : /\ worker[w].pc = "commit" /\ worker[w].sawActive
                         /\ sub[worker[w].job].user = u

\* Once an account is blocked and the requests and commits that had read it
\* before have ended, it files nothing and earns nothing.
BlockedIsQuiet ==
    [][\A u \in Users : ~active[u] /\ ~InFlight(u) =>
          /\ \A b \in {u} \X Tasks : done'[b] = done[b] /\ attempts'[b] = attempts[b]
          /\ \A s \in Ids : sub'[s] # sub[s] => sub'[s].user # u]_vars

\* The queue keeps the promises of SubmissionLedger: its rows, seen without
\* workers and leases, live the abstract life cycle; under Fairness every
\* submission is answered.
Ledger == INSTANCE SubmissionLedger
              WITH filed <- sub, phase <- status, credit <- done
ImplementsLedger == Ledger!SafeSpec
EveryoneAnswered == Ledger!Answered

=============================================================================
