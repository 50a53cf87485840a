-------------------------- MODULE JudgeQueueProofs --------------------------
(* Theorems about JudgeQueue for every number of students, handlers,       *)
(* workers, submissions and faults.                                        *)
EXTENDS JudgeQueue, FiniteSetTheorems, TLAPS

WorkerRecord == [pc : Stages, job : 0 .. MaxSubs, token : Nat, retries : Nat,
                 result : Results \cup {"none"}, sawActive : BOOLEAN]

\* The conjuncts of TypeOK about the workers, which most actions share.
WorkersOK ==
    /\ worker \in [Workers -> WorkerRecord]
    /\ \A w \in Workers :
          worker[w].pc \in {"take", "judging", "verdict", "commit"}
              => worker[w].job \in Filed
    /\ \A w \in Workers :
          worker[w].pc \in {"verdict", "commit"} => worker[w].result # "none"

\* The conjuncts about the rows of the queue.
RowsOK ==
    /\ count \in 0 .. MaxSubs
    /\ sub \in [Ids -> Request \cup {None}]
    /\ \A s \in Ids : sub[s] # None <=> s <= count
    /\ status \in [Ids -> {"none"} \cup Live \cup Verdicts]
    /\ \A s \in Ids : status[s] # "none" <=> s <= count
    /\ token \in [Ids -> Nat] /\ issued \in [Ids -> Nat]
    /\ retries \in [Ids -> Nat]
    /\ lapsed \in [Ids -> BOOLEAN] /\ waiting \in [Ids -> BOOLEAN]

\* The conjuncts about accounts, handlers and credit.
AccountsOK ==
    /\ active \in [Users -> BOOLEAN]
    /\ reader \in [Handlers -> Users \cup {None}]
    /\ admitted \in [Handlers -> Request \cup {None}]
    /\ done \in [Users \X Tasks -> 0 .. MaxSubs]
    /\ attempts \in [Users \X Tasks -> Nat]
    /\ fresh \subseteq Workers
    /\ faults \in 0 .. MaxFaults

LEMMA TypeParts ==
    /\ TypeOK <=> WorkersOK /\ RowsOK /\ AccountsOK
    /\ TypeOK' <=> WorkersOK' /\ RowsOK' /\ AccountsOK'
BY DEF TypeOK, WorkersOK, WorkerRecord, RowsOK, AccountsOK

\* Facts every step about a job relies on: it names a filed submission, and
\* that submission's request is a request.
LEMMA JobFiled ==
    ASSUME TypeOK, NEW w \in Workers,
           worker[w].pc \in {"take", "judging", "verdict", "commit"}
    PROVE  /\ worker[w].job \in Ids
           /\ worker[w].job \in Filed
           /\ sub[worker[w].job] \in Request
<1>1. worker[w].job \in Filed /\ count \in 0 .. MaxSubs
  BY DEF TypeOK
<1>2. worker[w].job \in Ids /\ worker[w].job <= count
  BY <1>1, QueueConstants DEF Filed, Ids
<1>3. sub[worker[w].job] # None /\ sub[worker[w].job] \in Request \cup {None}
  BY <1>2 DEF TypeOK
<1> QED BY <1>1, <1>2, <1>3

\* An idle or a stopped worker, and the copy Select makes, are well typed.
LEMMA AtType ==
    ASSUME NEW p \in Stages
    PROVE  At(p) \in WorkerRecord
BY QueueConstants DEF At, WorkerRecord

\* Replacing one worker's record by a well-typed one keeps the typing.
LEMMA WorkerUpdate ==
    ASSUME WorkersOK, count' = count, NEW w \in Workers, NEW r \in WorkerRecord,
           worker' = [worker EXCEPT ![w] = r],
           r.pc \in {"take", "judging", "verdict", "commit"} => r.job \in Filed,
           r.pc \in {"verdict", "commit"} => r.result # "none"
    PROVE  WorkersOK'
BY DEF WorkersOK, Filed

\* So does moving it to a stage that needs no job, or one it already has.
LEMMA StageUpdate ==
    ASSUME WorkersOK, count' = count, NEW w \in Workers,
           NEW p \in {"exhaust", "requeue", "select"},
           worker' = [worker EXCEPT ![w].pc = p]
    PROVE  WorkersOK'
<1> DEFINE r == [worker[w] EXCEPT !.pc = p]
<1>1. worker[w] \in WorkerRecord
  BY DEF WorkersOK
<1>2. r \in WorkerRecord /\ r.pc = p
  BY <1>1 DEF WorkerRecord, Stages
<1>3. worker' = [worker EXCEPT ![w] = r]
  OBVIOUS
<1> HIDE DEF r
<1> QED BY <1>2, <1>3, WorkerUpdate

\* A free or a stopped worker.
LEMMA FreeUpdate ==
    ASSUME WorkersOK, count' = count, NEW w \in Workers, NEW p \in {"idle", "down"},
           worker' = [worker EXCEPT ![w] = At(p)]
    PROVE  WorkersOK'
<1>1. At(p) \in WorkerRecord
  BY AtType DEF Stages
<1>2. At(p).pc = p
  BY DEF At
<1> QED BY <1>1, <1>2, WorkerUpdate

\* The end of judging stores a result and keeps the job.
LEMMA VerdictUpdate ==
    ASSUME WorkersOK, count' = count, NEW w \in Workers, NEW x \in Results,
           worker[w].pc = "judging",
           worker' = [worker EXCEPT ![w].pc = "verdict", ![w].result = x]
    PROVE  WorkersOK'
<1> DEFINE r == [worker[w] EXCEPT !.pc = "verdict", !.result = x]
<1>1. worker[w] \in WorkerRecord /\ worker[w].job \in Filed
  BY DEF WorkersOK
<1>2. r \in WorkerRecord /\ r.job \in Filed /\ r.result # "none"
  BY <1>1 DEF WorkerRecord, Stages, Results
<1>3. worker' = [worker EXCEPT ![w] = r]
  OBVIOUS
<1> HIDE DEF r
<1> QED BY <1>2, <1>3, WorkerUpdate

\* A step that leaves rows and workers alone keeps their typing.
LEMMA WorkersFrame ==
    WorkersOK /\ worker' = worker /\ count' \in Nat /\ count' >= count /\ count \in Nat
        => WorkersOK'
BY DEF WorkersOK, Filed

LEMMA TypeStep == TypeOK /\ [Next]_vars => TypeOK'
<1> SUFFICES ASSUME TypeOK, [Next]_vars PROVE TypeOK'
  OBVIOUS
<1> USE TypeParts, QueueConstants
<1>w. WorkersOK /\ RowsOK /\ AccountsOK
  OBVIOUS
<1>1. ASSUME NEW h \in Handlers, NEW u \in Users, ReadAccount(h, u) PROVE TypeOK'
  <2>1. AccountsOK'
    BY <1>w, <1>1 DEF AccountsOK, ReadAccount, rowVars, creditVars
  <2> QED BY <1>w, <1>1, <2>1 DEF ReadAccount, rowVars, WorkersOK, RowsOK, Filed
<1>2. ASSUME NEW h \in Handlers, NEW r \in Request, Admit(h, r) PROVE TypeOK'
  <2>1. AccountsOK'
    BY <1>w, <1>2 DEF AccountsOK, Admit, rowVars, creditVars
  <2> QED BY <1>w, <1>2, <2>1 DEF Admit, rowVars, WorkersOK, RowsOK, Filed
<1>3. ASSUME NEW h \in Handlers, Insert(h) PROVE TypeOK'
  <2>1. count + 1 \in Ids /\ count' = count + 1 /\ count \in Nat
    BY <1>w, <1>3 DEF Insert, RowsOK, Ids
  <2>2. admitted[h] \in Request /\ admitted[h] # None
    BY <1>w, <1>3 DEF Insert, AccountsOK
  <2>3. AccountsOK'
    BY <1>w, <1>3 DEF AccountsOK, Insert, creditVars
  <2>4. WorkersOK'
    BY <1>w, <1>3, <2>1, WorkersFrame DEF Insert
  <2> DEFINE n == count + 1
             q == admitted[h]
  <2>5. /\ sub' = [sub EXCEPT ![n] = q] /\ status' = [status EXCEPT ![n] = "queued"]
        /\ UNCHANGED <<token, issued, retries, lapsed, waiting>>
    BY <1>3 DEF Insert
  <2>6. count' = n /\ n \in 0 .. MaxSubs /\ \A s \in Ids : s <= n <=> s <= count \/ s = n
    BY <2>1 DEF Ids
  <2> HIDE DEF n, q
  <2>7. /\ sub' \in [Ids -> Request \cup {None}] /\ \A s \in Ids : sub'[s] # None <=> s <= count'
    BY <1>w, <2>1, <2>2, <2>5, <2>6 DEF RowsOK, n, q
  <2>8. /\ status' \in [Ids -> {"none"} \cup Live \cup Verdicts]
        /\ \A s \in Ids : status'[s] # "none" <=> s <= count'
    BY <1>w, <2>1, <2>5, <2>6 DEF RowsOK, Live, n
  <2>9. RowsOK'
    BY <1>w, <2>5, <2>6, <2>7, <2>8 DEF RowsOK
  <2> QED BY <2>3, <2>4, <2>9
<1>4. ASSUME NEW h \in Handlers, Refuse(h) PROVE TypeOK'
  <2>1. AccountsOK'
    BY <1>w, <1>4 DEF AccountsOK, Refuse, rowVars, creditVars
  <2> QED BY <1>w, <1>4, <2>1 DEF Refuse, rowVars, WorkersOK, RowsOK, Filed
<1>5. ASSUME NEW h \in Handlers, NEW s \in Ids, Cancel(h, s) PROVE TypeOK'
  <2>1. AccountsOK'
    BY <1>w, <1>5 DEF AccountsOK, Cancel, creditVars
  <2>2. RowsOK'
    BY <1>w, <1>5 DEF RowsOK, Cancel, Cancellable, Filed, Verdicts
  <2> QED BY <1>w, <1>5, <2>1, <2>2 DEF Cancel, WorkersOK, Filed
<1>6. ASSUME NEW u \in Users, ToggleAccess(u) PROVE TypeOK'
  <2>1. AccountsOK'
    BY <1>w, <1>6 DEF AccountsOK, ToggleAccess, webVars, creditVars
  <2> QED BY <1>w, <1>6, <2>1 DEF ToggleAccess, rowVars, WorkersOK, RowsOK, Filed
\* Steps of a worker that touch nothing but its own record.
<1>7. ASSUME NEW w \in Workers,
             Poll(w) \/ Select(w) \/ SelectNothing(w) \/ TakeLost(w)
             \/ SeeCancelled(w) \/ JudgeEnds(w) \/ RunnerGivesUp(w) \/ LoadUser(w)
             \/ Abandon(w) \/ Crash(w) \/ Restart(w)
      PROVE  TypeOK'
  <2>1. RowsOK'
    BY <1>w, <1>7 DEF RowsOK, Poll, Select, SelectNothing, TakeLost, SeeCancelled,
          JudgeEnds, RunnerGivesUp, LoadUser, Abandon, Crash, Restart, rowVars
  <2>2. AccountsOK'
    <3>1. UNCHANGED <<active, webVars, creditVars>>
      BY <1>7 DEF Poll, Select, SelectNothing, TakeLost, SeeCancelled, JudgeEnds,
            RunnerGivesUp, LoadUser, Abandon, Crash, Restart
    <3>2. fresh' \subseteq Workers
      BY <1>w, <1>7 DEF AccountsOK, Poll, Select, SelectNothing, TakeLost,
            SeeCancelled, JudgeEnds, RunnerGivesUp, LoadUser, Abandon, Crash, Restart
    <3>3. faults' \in 0 .. MaxFaults
      <4>1. CASE Abandon(w) \/ Crash(w)
        BY <1>w, <4>1 DEF AccountsOK, Abandon, Crash
      <4>2. CASE ~(Abandon(w) \/ Crash(w))
        BY <1>w, <1>7, <4>2 DEF AccountsOK, Poll, Select, SelectNothing, TakeLost,
              SeeCancelled, JudgeEnds, RunnerGivesUp, LoadUser, Restart
      <4> QED BY <4>1, <4>2
    <3> QED BY <1>w, <3>1, <3>2, <3>3 DEF AccountsOK, webVars, creditVars
  <2>3. WorkersOK'
    <3>1. CASE SelectNothing(w) \/ TakeLost(w) \/ SeeCancelled(w)
               \/ Abandon(w) \/ Crash(w) \/ Restart(w)
      <4>1. count' = count /\ \E p \in {"idle", "down"} : worker' = [worker EXCEPT ![w] = At(p)]
        BY <3>1 DEF SelectNothing, TakeLost, SeeCancelled, Abandon, Crash, Restart, rowVars
      <4> QED BY <1>w, <4>1, FreeUpdate
    <3>2. CASE Poll(w)
      BY <1>w, <3>2, StageUpdate DEF Poll, rowVars
    <3>3. CASE Select(w)
      <4>1. PICK s \in Ids :
               /\ Claimable(s)
               /\ worker' = [worker EXCEPT ![w] =
                               [At("take") EXCEPT !.job = s, !.retries = retries[s]]]
        BY <3>3 DEF Select
      <4> DEFINE r == [At("take") EXCEPT !.job = s, !.retries = retries[s]]
      <4>2. r \in WorkerRecord /\ r.pc = "take" /\ r.job = s
        <5>1. s \in 0 .. MaxSubs /\ retries[s] \in Nat
          BY <1>w DEF RowsOK, Ids
        <5>2. At("take") \in WorkerRecord /\ At("take").pc = "take"
          BY AtType DEF Stages, At
        <5> QED BY <5>1, <5>2 DEF WorkerRecord
      <4>3. s \in Filed /\ count' = count /\ worker' = [worker EXCEPT ![w] = r]
        BY <3>3, <4>1 DEF Claimable, Select, rowVars
      <4> HIDE DEF r
      <4> QED BY <1>w, <4>2, <4>3, WorkerUpdate
    <3>4. CASE JudgeEnds(w)
      <4>1. PICK x \in Results :
               worker' = [worker EXCEPT ![w].pc = "verdict", ![w].result = x]
        BY <3>4 DEF JudgeEnds, JudgeResults, Results
      <4> QED BY <1>w, <3>4, <4>1, VerdictUpdate DEF JudgeEnds, rowVars
    <3>5. CASE RunnerGivesUp(w)
      BY <1>w, <3>5, VerdictUpdate DEF RunnerGivesUp, Results, rowVars
    <3>6. CASE LoadUser(w)
      <4>1. sub[worker[w].job].user \in Users
        BY <3>6, JobFiled DEF LoadUser, Request
      <4> DEFINE a == active[sub[worker[w].job].user]
                 r == [worker[w] EXCEPT !.pc = "commit", !.sawActive = a]
      <4>2. a \in BOOLEAN
        BY <1>w, <4>1 DEF AccountsOK
      <4>3. worker[w] \in WorkerRecord /\ worker[w].job \in Filed /\ worker[w].result # "none"
        BY <1>w, <3>6 DEF WorkersOK, LoadUser
      <4>4. worker' = [worker EXCEPT ![w] = r] /\ count' = count
        BY <3>6 DEF LoadUser, rowVars
      <4>5. r \in WorkerRecord /\ r.job \in Filed /\ r.result # "none"
        <5> HIDE DEF a
        <5> QED BY <4>2, <4>3 DEF WorkerRecord, Stages
      <4> HIDE DEF r
      <4> QED BY <1>w, <4>4, <4>5, WorkerUpdate
    <3> QED BY <1>7, <3>1, <3>2, <3>3, <3>4, <3>5, <3>6
  <2> QED BY <2>1, <2>2, <2>3
<1>8. ASSUME NEW w \in Workers, ExpireExhausted(w) PROVE TypeOK'
  <2>1. RowsOK'
    BY <1>w, <1>8 DEF RowsOK, ExpireExhausted, Expired, Filed, Verdicts
  <2>2. AccountsOK'
    BY <1>w, <1>8 DEF AccountsOK, ExpireExhausted, webVars, creditVars
  <2>3. WorkersOK'
    BY <1>w, <1>8, StageUpdate DEF ExpireExhausted
  <2> QED BY <2>1, <2>2, <2>3
<1>9. ASSUME NEW w \in Workers, ExpireRequeue(w) PROVE TypeOK'
  <2>1. RowsOK'
    <3>1. /\ \A s \in Ids : Returned(s) => s \in 1 .. count
          /\ \A s \in Ids : retries[s] + 1 \in Nat
      BY <1>w DEF RowsOK, Returned, Expired, Filed
    <3>2. UNCHANGED <<count, sub, issued, lapsed>>
      BY <1>9 DEF ExpireRequeue
    <3>3. status' \in [Ids -> {"none"} \cup Live \cup Verdicts]
      BY <1>w, <1>9 DEF RowsOK, ExpireRequeue, Live
    <3>4. \A s \in Ids : status'[s] # "none" <=> s <= count
      BY <1>w, <1>9, <3>1 DEF RowsOK, ExpireRequeue
    <3>5. retries' \in [Ids -> Nat] /\ token' \in [Ids -> Nat] /\ waiting' \in [Ids -> BOOLEAN]
      BY <1>w, <1>9, <3>1 DEF RowsOK, ExpireRequeue
    <3> QED BY <1>w, <3>2, <3>3, <3>4, <3>5 DEF RowsOK
  <2>2. AccountsOK'
    BY <1>w, <1>9 DEF AccountsOK, ExpireRequeue, webVars, creditVars
  <2>3. WorkersOK'
    BY <1>w, <1>9, StageUpdate DEF ExpireRequeue
  <2> QED BY <2>1, <2>2, <2>3
<1>10. ASSUME NEW w \in Workers, Take(w) PROVE TypeOK'
  <2>1. worker[w].job \in Ids /\ worker[w].job \in Filed
    BY <1>10, JobFiled DEF Take
  <2>2. RowsOK'
    BY <1>w, <1>10, <2>1 DEF RowsOK, Take, Live
  <2>3. AccountsOK'
    BY <1>w, <1>10 DEF AccountsOK, Take, webVars, creditVars
  <2>4. issued[worker[w].job] + 1 \in Nat
    BY <1>w, <2>1 DEF RowsOK
  <2>5. WorkersOK'
    <3> DEFINE r == [worker[w] EXCEPT !.pc = "judging", !.token = issued[worker[w].job] + 1]
    <3>1. worker[w] \in WorkerRecord
      BY <1>w DEF WorkersOK
    <3>2. r \in WorkerRecord /\ r.pc = "judging" /\ r.job \in Filed
      BY <2>1, <2>4, <3>1 DEF WorkerRecord, Stages
    <3>3. worker' = [worker EXCEPT ![w] = r] /\ count' = count
      BY <1>10 DEF Take
    <3> HIDE DEF r
    <3> QED BY <1>w, <3>2, <3>3, WorkerUpdate
  <2> QED BY <2>2, <2>3, <2>5
<1>11. ASSUME NEW w \in Workers, Heartbeat(w) \/ HeartbeatStale(w) PROVE TypeOK'
  <2>1. RowsOK'
    BY <1>w, <1>11 DEF RowsOK, Heartbeat, HeartbeatStale, rowVars
  <2>2. AccountsOK'
    BY <1>w, <1>11 DEF AccountsOK, Heartbeat, HeartbeatStale, webVars, creditVars
  <2> QED BY <1>w, <1>11, <2>1, <2>2 DEF WorkersOK, Filed, Heartbeat,
              HeartbeatStale, rowVars
<1>12. ASSUME NEW w \in Workers, RunnerRetry(w) PROVE TypeOK'
  <2>1. worker[w].job \in Ids /\ worker[w].job \in Filed
    BY <1>12, JobFiled DEF RunnerRetry
  <2>2. RowsOK'
    <3>1. CASE Holds(w)
      <4> DEFINE s == worker[w].job
      <4>1. s \in Ids /\ retries[s] + 1 \in Nat /\ status[s] = "running"
        BY <1>w, <2>1, <3>1 DEF RowsOK, Holds
      <4>2. /\ status'  = [status EXCEPT ![s] = "queued"]
            /\ retries' = [retries EXCEPT ![s] = retries[s] + 1]
            /\ token'   = [token EXCEPT ![s] = 0]
            /\ waiting' = [waiting EXCEPT ![s] = TRUE]
            /\ UNCHANGED <<count, sub, issued, lapsed>>
        BY <1>12, <3>1 DEF RunnerRetry
      <4> HIDE DEF s
      <4> QED BY <1>w, <4>1, <4>2 DEF RowsOK, Live
    <3>2. CASE ~Holds(w)
      BY <1>w, <1>12, <3>2 DEF RowsOK, RunnerRetry
    <3> QED BY <3>1, <3>2
  <2>3. AccountsOK'
    BY <1>w, <1>12 DEF AccountsOK, RunnerRetry, webVars, creditVars
  <2>4. WorkersOK'
    BY <1>w, <1>12 DEF WorkersOK, WorkerRecord, At, Stages, Filed, RunnerRetry
  <2> QED BY <2>2, <2>3, <2>4
<1>13. ASSUME NEW w \in Workers, Commit(w) PROVE TypeOK'
  <2> DEFINE s == worker[w].job
             b == <<sub[s].user, sub[s].task>>
  <2>1. s \in Ids /\ s \in Filed /\ b \in Users \X Tasks
    BY <1>13, JobFiled DEF Commit, Request
  <2>2. Outcome(w) \in Verdicts
    BY <1>w, <1>13 DEF Outcome, WorkersOK, WorkerRecord, Commit, Results, Verdicts
  <2>3. RowsOK'
    <3>1. UNCHANGED <<count, sub, token, issued, retries, lapsed, waiting>>
      BY <1>13 DEF Commit
    <3>2. status' = status \/ (Holds(w) /\ status' = [status EXCEPT ![s] = Outcome(w)])
      BY <1>13 DEF Commit
    <3>3. Holds(w) => status[s] # "none"
      BY DEF Holds
    <3> HIDE DEF s, b
    <3>4. /\ status' \in [Ids -> {"none"} \cup Live \cup Verdicts]
          /\ \A i \in Ids : status'[i] # "none" <=> status[i] # "none"
      BY <1>w, <2>1, <2>2, <3>2, <3>3 DEF RowsOK, Verdicts
    <3> QED BY <1>w, <3>1, <3>4 DEF RowsOK
  <2>4. s \in 0 .. MaxSubs
    BY <2>1 DEF Ids
  <2>5. attempts' \in [Users \X Tasks -> Nat] /\ done' \in [Users \X Tasks -> 0 .. MaxSubs]
    <3>1. attempts[b] + 1 \in Nat
      BY <1>w, <2>1 DEF AccountsOK
    <3>2. attempts' = attempts \/ attempts' = [attempts EXCEPT ![b] = attempts[b] + 1]
      BY <1>13 DEF Commit
    <3>3. done' = done \/ done' = [done EXCEPT ![b] = s]
      BY <1>13 DEF Commit
    <3> HIDE DEF s, b
    <3> QED BY <1>w, <2>1, <2>4, <3>1, <3>2, <3>3 DEF AccountsOK
  <2>6. AccountsOK'
    BY <1>w, <1>13, <2>5 DEF AccountsOK, Commit, webVars
  <2>7. WorkersOK'
    <3> DEFINE x == At("idle")
    <3>1. worker' = [worker EXCEPT ![w] = x] /\ count' = count
      BY <1>13 DEF Commit
    <3>2. x \in WorkerRecord /\ x.pc = "idle"
      BY DEF WorkerRecord, At, Stages
    <3> HIDE DEF x
    <3> QED BY <1>w, <3>1, <3>2 DEF WorkersOK, Filed
  <2> QED BY <2>3, <2>6, <2>7
<1>14. ASSUME NEW w \in Workers, Stop(w) PROVE TypeOK'
  <2>1. RowsOK'
    BY <1>w, <1>14 DEF RowsOK, Stop, Holds, Verdicts, Filed
  <2>2. AccountsOK'
    BY <1>w, <1>14 DEF AccountsOK, Stop, webVars, creditVars
  <2>3. WorkersOK'
    BY <1>w, <1>14 DEF WorkersOK, WorkerRecord, At, Stages, Filed, Stop
  <2> QED BY <2>1, <2>2, <2>3
<1>15. ASSUME NEW s \in Ids, LeaseLapse(s) \/ BackoffEnds(s) PROVE TypeOK'
  <2>1. RowsOK'
    <3>1. UNCHANGED <<count, sub, status, token, issued, retries>>
      BY <1>15 DEF LeaseLapse, BackoffEnds
    <3>2. lapsed' \in [Ids -> BOOLEAN] /\ waiting' \in [Ids -> BOOLEAN]
      BY <1>w, <1>15 DEF RowsOK, LeaseLapse, BackoffEnds
    <3> QED BY <1>w, <3>1, <3>2 DEF RowsOK
  <2>2. AccountsOK'
    BY <1>w, <1>15 DEF AccountsOK, LeaseLapse, BackoffEnds, webVars, creditVars
  <2> QED BY <1>w, <1>15, <2>1, <2>2 DEF WorkersOK, Filed, LeaseLapse, BackoffEnds
<1>16. CASE UNCHANGED vars
  BY <1>w, <1>16 DEF vars, webVars, rowVars, creditVars, WorkersOK, RowsOK,
        AccountsOK, Filed
<1> QED
  BY <1>1, <1>2, <1>3, <1>4, <1>5, <1>6, <1>7, <1>8, <1>9, <1>10, <1>11, <1>12,
     <1>13, <1>14, <1>15, <1>16 DEF Next, WebStep, WorkerStep

\* Every reachable state is well typed.
THEOREM TypeCorrect == Spec => []TypeOK
<1>1. Init => TypeOK
  BY QueueConstants DEF Init, TypeOK, At, Ids, Stages, Filed
<1>2. TypeOK /\ [Next]_vars => TypeOK'
  BY TypeStep
<1> QED BY <1>1, <1>2, PTL DEF Spec

-----------------------------------------------------------------------------
(* Rows: verdicts are final, one submission in progress *)

\* Apart from Insert, a step files nothing and changes the status of live
\* submissions only.
RowsSettle ==
    /\ UNCHANGED <<count, sub>>
    /\ \A s \in Ids : status'[s] # status[s] => s \in Filed /\ Open(s)

LEMMA RowStep ==
    ASSUME TypeOK, [Next]_vars
    PROVE  RowsSettle \/ \E h \in Handlers : Insert(h)
<1> USE QueueConstants
<1>r. RowsOK
  BY TypeParts
<1>1. ASSUME NEW h \in Handlers, NEW s \in Ids, Cancel(h, s) PROVE RowsSettle
  BY <1>r, <1>1 DEF RowsSettle, Cancel, Cancellable, RowsOK
<1>2. ASSUME \/ \E h \in Handlers : Refuse(h) \/ \E u \in Users : ReadAccount(h, u)
             \/ \E h \in Handlers, r \in Request : Admit(h, r)
             \/ \E u \in Users : ToggleAccess(u)
      PROVE  RowsSettle
  BY <1>2 DEF RowsSettle, ReadAccount, Admit, Refuse, ToggleAccess, rowVars
<1>3. ASSUME NEW w \in Workers,
             Poll(w) \/ Select(w) \/ SelectNothing(w) \/ TakeLost(w) \/ Heartbeat(w)
             \/ SeeCancelled(w) \/ JudgeEnds(w) \/ RunnerGivesUp(w) \/ LoadUser(w)
             \/ Abandon(w) \/ Crash(w) \/ Restart(w) \/ HeartbeatStale(w)
      PROVE  RowsSettle
  BY <1>3 DEF RowsSettle, Poll, Select, SelectNothing, TakeLost, Heartbeat,
        SeeCancelled, JudgeEnds, RunnerGivesUp, LoadUser, Abandon, Crash, Restart,
        HeartbeatStale, rowVars
<1>4. ASSUME NEW w \in Workers, ExpireExhausted(w) \/ ExpireRequeue(w)
      PROVE  RowsSettle
  <2>1. UNCHANGED <<count, sub>>
    BY <1>4 DEF ExpireExhausted, ExpireRequeue
  <2>2. ASSUME NEW s \in Ids, status'[s] # status[s]
        PROVE  s \in Filed /\ Open(s)
    <3>1. Expired(s)
      BY <1>4, <2>2 DEF ExpireExhausted, ExpireRequeue, Returned
    <3> QED BY <3>1 DEF Expired, Open, Live
  <2> QED BY <2>1, <2>2 DEF RowsSettle
<1>5. ASSUME NEW w \in Workers, Take(w) PROVE RowsSettle
  <2>1. worker[w].job \in Filed
    BY <1>5, JobFiled DEF Take
  <2> QED BY <1>r, <1>5, <2>1 DEF RowsSettle, Take, Open, Live, RowsOK
<1>6. ASSUME NEW w \in Workers, RunnerRetry(w) \/ Stop(w) \/ Commit(w)
      PROVE  RowsSettle
  <2>1. UNCHANGED <<count, sub>>
    BY <1>6 DEF RunnerRetry, Stop, Commit
  <2>2. \/ status' = status
        \/ Holds(w) /\ \E v : status' = [status EXCEPT ![worker[w].job] = v]
    BY <1>6 DEF RunnerRetry, Stop, Commit
  <2> QED BY <1>r, <2>1, <2>2 DEF RowsSettle, Holds, Open, Live, RowsOK
<1>7. ASSUME NEW s \in Ids, LeaseLapse(s) \/ BackoffEnds(s) PROVE RowsSettle
  BY <1>7 DEF RowsSettle, LeaseLapse, BackoffEnds
<1>8. CASE UNCHANGED vars
  BY <1>8 DEF RowsSettle, vars, rowVars
<1> QED
  BY <1>1, <1>2, <1>3, <1>4, <1>5, <1>6, <1>7, <1>8 DEF Next, WebStep, WorkerStep

\* Insert appends one queued submission for an account whose lock it holds.
LEMMA InsertStep ==
    ASSUME TypeOK, NEW h \in Handlers, Insert(h)
    PROVE  /\ count \in Nat /\ count + 1 \in Ids /\ count' = count + 1
           /\ admitted[h] \in Request /\ admitted[h] # None
           /\ sub' = [sub EXCEPT ![count + 1] = admitted[h]]
           /\ status[count + 1] = "none"
           /\ status' = [status EXCEPT ![count + 1] = "queued"]
           /\ admitted' = [admitted EXCEPT ![h] = None]
           /\ UNCHANGED <<done, attempts>>
<1>1. WorkersOK /\ RowsOK /\ AccountsOK
  BY TypeParts
<1>2. count \in Nat /\ count + 1 \in Ids /\ ~(count + 1 <= count)
  BY <1>1, QueueConstants DEF RowsOK, Insert, Ids
<1> QED BY <1>1, <1>2 DEF RowsOK, AccountsOK, Insert, creditVars

\* A stored verdict is never replaced.
THEOREM VerdictsFinal == Spec => FinalIsFinal
<1>1. ASSUME TypeOK, [Next]_vars, NEW s \in Ids, status[s] \in Verdicts
      PROVE  status'[s] = status[s]
  <2>1. CASE RowsSettle
    BY <1>1, <2>1 DEF RowsSettle, Open, Live, Verdicts
  <2>2. CASE \E h \in Handlers : Insert(h)
    BY <1>1, <2>2, InsertStep DEF TypeOK, Verdicts
  <2> QED BY <1>1, <2>1, <2>2, RowStep
<1>2. TypeOK /\ [Next]_vars
        => [\A s \in Ids : status[s] \in Verdicts => status'[s] = status[s]]_vars
  BY <1>1
<1> QED BY <1>2, TypeCorrect, PTL DEF Spec, FinalIsFinal

\* Filed submissions after a step that files none, or after Insert.
LEMMA LockStep ==
    TypeOK /\ AccountLock /\ OneActivePerUser /\ [Next]_vars
        => AccountLock' /\ OneActivePerUser'
<1> SUFFICES ASSUME TypeOK, AccountLock, OneActivePerUser, [Next]_vars
             PROVE  AccountLock' /\ OneActivePerUser'
  OBVIOUS
<1> USE QueueConstants
<1>t. RowsOK /\ AccountsOK /\ count \in Nat
  BY TypeParts DEF RowsOK
<1>f. \A s \in Filed : s \in Ids /\ sub[s] \in Request
  BY <1>t DEF Filed, RowsOK, Ids
<1>1. CASE \E h \in Handlers : Insert(h)
  <2> PICK h \in Handlers : Insert(h)
    BY <1>1
  <2> DEFINE n == count + 1
  <2>1. /\ n \in Ids /\ admitted[h] \in Request /\ admitted[h] # None
        /\ sub' = [sub EXCEPT ![n] = admitted[h]]
        /\ status' = [status EXCEPT ![n] = "queued"]
        /\ admitted' = [admitted EXCEPT ![h] = None]
        /\ \A i : i \in Filed' <=> i \in Filed \/ i = n
        /\ n \notin Filed
    BY <1>t, InsertStep DEF Filed
  <2>2. \A i \in Filed : sub'[i] = sub[i] /\ status'[i] = status[i]
    BY <1>t, <1>f, <2>1 DEF RowsOK
  <2>3. sub'[n] = admitted[h] /\ status'[n] = "queued"
    BY <1>t, <2>1 DEF RowsOK
  <2> HIDE DEF n
  <2>4. OneActivePerUser'
    BY <1>f, <2>1, <2>2, <2>3 DEF OneActivePerUser, AccountLock, Open, Live
  <2>5. \A g \in Handlers : admitted'[g] # None => admitted'[g] = admitted[g] /\ g # h
    BY <1>t, <2>1 DEF AccountsOK
  <2>6. AccountLock'
    BY <1>f, <2>1, <2>2, <2>3, <2>5 DEF AccountLock, Open, Live
  <2> QED BY <2>4, <2>6
<1>2. CASE RowsSettle
  <2>1. Filed' = Filed /\ sub' = sub
    BY <1>2 DEF RowsSettle, Filed
  <2>2. \A s \in Filed : status'[s] \in Live => status[s] \in Live
    BY <1>2, <1>f DEF RowsSettle, Open
  <2>3. OneActivePerUser'
    BY <2>1, <2>2 DEF OneActivePerUser, Open
  <2>4. \/ \A g \in Handlers : admitted'[g] = admitted[g]
        \/ \E h \in Handlers, r \in Request : Admit(h, r)
        \/ \E h \in Handlers : Insert(h)
    <3>1. CASE WebStep
      <4>1. ASSUME NEW h \in Handlers, \/ \E u \in Users : ReadAccount(h, u)
                                      \/ Refuse(h) \/ \E s \in Ids : Cancel(h, s)
            PROVE  admitted' = admitted
        BY <4>1 DEF ReadAccount, Refuse, Cancel, webVars
      <4> QED BY <3>1, <4>1 DEF WebStep
    <3>2. ASSUME NEW w \in Workers, WorkerStep(w)
          PROVE  admitted' = admitted
      <4>1. CASE Poll(w) \/ ExpireExhausted(w) \/ ExpireRequeue(w) \/ Select(w) \/ SelectNothing(w)
        BY <4>1 DEF Poll, ExpireExhausted, ExpireRequeue, Select, SelectNothing, webVars
      <4>2. CASE Take(w) \/ TakeLost(w) \/ SeeCancelled(w) \/ JudgeEnds(w)
        BY <4>2 DEF Take, TakeLost, SeeCancelled, JudgeEnds, webVars
      <4>3. CASE RunnerRetry(w) \/ RunnerGivesUp(w) \/ LoadUser(w) \/ Commit(w)
        BY <4>3 DEF RunnerRetry, RunnerGivesUp, LoadUser, Commit, webVars
      <4> QED BY <3>2, <4>1, <4>2, <4>3 DEF WorkerStep
    <3>3. ASSUME NEW w \in Workers,
                 Heartbeat(w) \/ Abandon(w) \/ Stop(w) \/ Crash(w) \/ Restart(w) \/ HeartbeatStale(w)
          PROVE  admitted' = admitted
      BY <3>3 DEF Heartbeat, Abandon, Stop, Crash, Restart, HeartbeatStale, webVars
    <3>4. CASE \/ UNCHANGED vars \/ \E u \in Users : ToggleAccess(u)
               \/ \E s \in Ids : LeaseLapse(s) \/ BackoffEnds(s)
      BY <3>4 DEF vars, webVars, ToggleAccess, LeaseLapse, BackoffEnds
    <3> QED BY <3>1, <3>2, <3>3, <3>4 DEF Next
  <2>5. CASE \A g \in Handlers : admitted'[g] = admitted[g]
    BY <2>1, <2>2, <2>3, <2>5 DEF AccountLock, Open
  <2>6. CASE \E h \in Handlers, r \in Request : Admit(h, r)
    <3> PICK h \in Handlers, r \in Request : Admit(h, r)
      BY <2>6
    <3>1. /\ \A g \in Handlers : admitted'[g] = IF g = h THEN r ELSE admitted[g]
          /\ ~Locked(r.user)
          /\ \A s \in Filed : sub[s].user = r.user => sub[s].key # r.key /\ ~Open(s)
      BY <1>t DEF Admit, AccountsOK, OpenOf
    <3> QED BY <2>1, <2>2, <2>3, <3>1 DEF AccountLock, Locked, Open
  <2> QED BY <1>1, <2>3, <2>4, <2>5, <2>6
<1> QED BY <1>1, <1>2, RowStep

\* One transaction at a time holds an account, and no student ever has two
\* submissions in progress.
THEOREM OneAtATime == Spec => [](AccountLock /\ OneActivePerUser)
<1>1. Init => AccountLock /\ OneActivePerUser
  BY QueueConstants DEF Init, AccountLock, OneActivePerUser, Filed
<1>2. TypeOK /\ (AccountLock /\ OneActivePerUser) /\ [Next]_vars
        => (AccountLock /\ OneActivePerUser)'
  BY LockStep
<1> QED BY <1>1, <1>2, TypeCorrect, PTL DEF Spec

-----------------------------------------------------------------------------
(* Credit, and the promises of SubmissionLedger *)

\* A commit either finds its claim gone and changes nothing, or settles the
\* running submission and credits its block for the first accepted check.
LEMMA CommitStep ==
    ASSUME TypeOK, NEW w \in Workers, Commit(w)
    PROVE  LET s == worker[w].job
               b == <<sub[s].user, sub[s].task>>
               v == Outcome(w)
           IN  /\ UNCHANGED <<count, sub>>
               /\ \/ UNCHANGED <<status, done>>
                  \/ /\ s \in Filed /\ s \in Ids /\ sub[s] \in Request
                     /\ b \in Users \X Tasks
                     /\ status[s] = "running" /\ v \in Verdicts
                     /\ v = "accepted" => sub[s].mode = "check"
                     /\ status' = [status EXCEPT ![s] = v]
                     /\ done' = IF v = "accepted" /\ done[b] = 0
                                THEN [done EXCEPT ![b] = s] ELSE done
<1> DEFINE s == worker[w].job
           b == <<sub[s].user, sub[s].task>>
           v == Outcome(w)
<1>1. s \in Filed /\ s \in Ids /\ sub[s] \in Request
  BY JobFiled DEF Commit
<1>2. worker[w].result \in Results
  BY DEF TypeOK, Commit
<1>3. v \in Verdicts
  BY <1>2 DEF Outcome, Results, Verdicts
<1>4. v = "accepted" => sub[s].mode = "check"
  <2>1. sub[s].mode \in {"run", "check"}
    BY <1>1 DEF Request
  <2>2. v = "accepted" => ~(sub[s].mode = "run" /\ worker[w].result = "accepted")
    BY DEF Outcome
  <2>3. v = "accepted" => worker[w].result = "accepted"
    BY DEF Outcome
  <2> QED BY <2>1, <2>2, <2>3
<1>5. b \in Users \X Tasks
  BY <1>1 DEF Request
<1>6. CASE Holds(w)
  <2>1. /\ status[s] = "running"
        /\ status' = [status EXCEPT ![s] = v]
        /\ done' = IF Graded(s, v) /\ v = "accepted" /\ done[b] = 0
                   THEN [done EXCEPT ![b] = s] ELSE done
        /\ UNCHANGED <<count, sub>>
    BY <1>6 DEF Commit, Holds
  <2>2. v = "accepted" => Graded(s, v)
    BY <1>4 DEF Graded
  <2> QED BY <1>1, <1>3, <1>4, <1>5, <2>1, <2>2
<1>7. CASE ~Holds(w)
  BY <1>7 DEF Commit
<1> QED BY <1>6, <1>7

\* Steps other than Commit credit nothing, count nothing and grade nothing.
LEMMA NoCredit ==
    ASSUME TypeOK, [Next]_vars, \A w \in Workers : ~Commit(w)
    PROVE  /\ done' = done /\ attempts' = attempts
           /\ \A s \in Ids : status'[s] \in {"accepted", "rejected"} => status'[s] = status[s]
<1> USE QueueConstants
<1>r. RowsOK
  BY TypeParts
<1>1. ASSUME NEW h \in Handlers, Insert(h)
      PROVE  /\ done' = done /\ attempts' = attempts
             /\ \A s \in Ids : status'[s] \in {"accepted", "rejected"} => status'[s] = status[s]
  BY <1>r, <1>1, InsertStep DEF RowsOK
<1> DEFINE Calm == /\ done' = done /\ attempts' = attempts
                   /\ \A s \in Ids : status'[s] # status[s] =>
                         status'[s] \in {"queued", "running", "error", "cancelled"}
<1>2. ASSUME NEW h \in Handlers, NEW s \in Ids, Cancel(h, s) PROVE Calm
  BY <1>r, <1>2 DEF RowsOK, Cancel, creditVars
<1>3. ASSUME \/ \E h \in Handlers : Refuse(h) \/ \E u \in Users : ReadAccount(h, u)
             \/ \E h \in Handlers, r \in Request : Admit(h, r)
             \/ \E u \in Users : ToggleAccess(u)
      PROVE  Calm
  BY <1>3 DEF ReadAccount, Admit, Refuse, ToggleAccess, rowVars, creditVars
<1>4. ASSUME NEW w \in Workers,
             Poll(w) \/ Select(w) \/ SelectNothing(w) \/ TakeLost(w) \/ Heartbeat(w)
             \/ SeeCancelled(w) \/ JudgeEnds(w) \/ RunnerGivesUp(w) \/ LoadUser(w)
             \/ Abandon(w) \/ Crash(w) \/ Restart(w) \/ HeartbeatStale(w)
      PROVE  Calm
  BY <1>4 DEF Poll, Select, SelectNothing, TakeLost, Heartbeat, SeeCancelled,
        JudgeEnds, RunnerGivesUp, LoadUser, Abandon, Crash, Restart,
        HeartbeatStale, rowVars, creditVars
<1>5. ASSUME NEW w \in Workers,
             ExpireExhausted(w) \/ ExpireRequeue(w) \/ Take(w) \/ RunnerRetry(w) \/ Stop(w)
      PROVE  Calm
  <2>1. CASE ExpireExhausted(w) \/ ExpireRequeue(w)
    BY <2>1 DEF ExpireExhausted, ExpireRequeue, creditVars
  <2>2. CASE Take(w) \/ RunnerRetry(w)
    BY <1>r, <2>2 DEF RowsOK, Take, RunnerRetry, creditVars
  <2>3. CASE Stop(w)
    BY <1>r, <2>3 DEF RowsOK, Stop, creditVars
  <2> QED BY <1>5, <2>1, <2>2, <2>3
<1>6. ASSUME NEW s \in Ids, LeaseLapse(s) \/ BackoffEnds(s) PROVE Calm
  BY <1>6 DEF LeaseLapse, BackoffEnds, creditVars
<1>7. ASSUME UNCHANGED vars PROVE Calm
  BY <1>7 DEF vars, rowVars, creditVars
<1>8. (\E h \in Handlers : Insert(h)) \/ Calm
  <2> HIDE DEF Calm
  <2>1. CASE WebStep
    BY <1>2, <1>3, <2>1 DEF WebStep
  <2>2. ASSUME NEW w \in Workers,
               WorkerStep(w) \/ Heartbeat(w) \/ Abandon(w) \/ Stop(w) \/ Crash(w)
               \/ Restart(w) \/ HeartbeatStale(w)
        PROVE  Calm
    BY <1>4, <1>5, <2>2 DEF WorkerStep
  <2> QED BY <1>3, <1>6, <1>7, <2>1, <2>2 DEF Next
<1> QED BY <1>1, <1>8

LEMMA AwardStep == TypeOK /\ AwardSound /\ [Next]_vars => AwardSound'
<1> SUFFICES ASSUME TypeOK, AwardSound, [Next]_vars PROVE AwardSound'
  OBVIOUS
<1> USE QueueConstants
<1>t. RowsOK /\ AccountsOK
  BY TypeParts
<1>f. \A s \in Filed : s \in Ids /\ sub[s] \in Request /\ BlockOf(s) \in Users \X Tasks
  BY <1>t DEF Filed, RowsOK, Ids, BlockOf, Request
\* Filed submissions stay filed, with their request; verdicts stay.
<1>k. /\ \A s \in Filed : s \in Filed' /\ sub'[s] = sub[s]
      /\ \A s \in Ids : status[s] = "accepted" => status'[s] = "accepted"
      /\ \A s \in Filed' : s \in Filed \/ status'[s] = "queued"
  <2>1. CASE RowsSettle
    BY <1>f, <2>1 DEF RowsSettle, Filed, Open, Live
  <2>2. CASE \E h \in Handlers : Insert(h)
    <3> PICK h \in Handlers : Insert(h)
      BY <2>2
    <3> DEFINE n == count + 1
    <3>1. /\ count \in Nat /\ n \in Ids /\ count' = n /\ status[n] = "none"
          /\ sub' = [sub EXCEPT ![n] = admitted[h]]
          /\ status' = [status EXCEPT ![n] = "queued"]
      BY InsertStep
    <3>2. Filed' = Filed \cup {n} /\ n \notin Filed
      BY <3>1 DEF Filed
    <3> HIDE DEF n
    <3>3. \A s \in Filed : s \in Filed' /\ sub'[s] = sub[s]
      BY <1>t, <1>f, <3>1, <3>2 DEF RowsOK
    <3>4. \A s \in Ids : status[s] = "accepted" => status'[s] = "accepted"
      BY <1>t, <3>1 DEF RowsOK
    <3>5. \A s \in Filed' : s \in Filed \/ status'[s] = "queued"
      BY <1>t, <3>1, <3>2 DEF RowsOK
    <3> QED BY <3>3, <3>4, <3>5
  <2> QED BY <2>1, <2>2, RowStep
<1>1. CASE \A w \in Workers : ~Commit(w)
  BY <1>k, <1>f, <1>1, NoCredit DEF AwardSound, BlockOf
<1>2. ASSUME NEW w \in Workers, Commit(w) PROVE AwardSound'
  <2> DEFINE s == worker[w].job
             b == <<sub[s].user, sub[s].task>>
             v == Outcome(w)
  <2>1. CASE UNCHANGED <<status, done>>
    BY <1>k, <1>f, <1>2, <2>1, CommitStep DEF AwardSound, BlockOf, Filed
  <2>2. CASE ~UNCHANGED <<status, done>>
    <3>1. /\ s \in Filed /\ s \in Ids /\ b \in Users \X Tasks
          /\ v = "accepted" => sub[s].mode = "check"
          /\ status' = [status EXCEPT ![s] = v]
          /\ done' = IF v = "accepted" /\ done[b] = 0
                     THEN [done EXCEPT ![b] = s] ELSE done
          /\ count' = count /\ sub' = sub
      BY <1>2, <2>2, CommitStep
    <3>2. b = BlockOf(s) /\ s # 0 /\ Filed' = Filed
      BY <3>1 DEF BlockOf, Ids, Filed
    <3> HIDE DEF s, b, v
    <3>3. ASSUME NEW c \in Users \X Tasks, done'[c] # 0
          PROVE  /\ done'[c] \in Filed'
                 /\ status'[done'[c]] = "accepted"
                 /\ sub'[done'[c]].mode = "check"
                 /\ <<sub'[done'[c]].user, sub'[done'[c]].task>> = c
      <4>1. CASE done'[c] = done[c]
        <5>1. /\ done[c] \in Filed /\ status[done[c]] = "accepted"
              /\ sub[done[c]].mode = "check"
              /\ <<sub[done[c]].user, sub[done[c]].task>> = c
          BY <3>3, <4>1 DEF AwardSound, BlockOf
        <5> QED BY <1>k, <1>f, <4>1, <5>1
      <4>2. CASE done'[c] # done[c]
        <5>1. c = b /\ done'[c] = s /\ v = "accepted"
          BY <1>t, <3>1, <4>2 DEF AccountsOK
        <5>2. status'[s] = "accepted"
          BY <1>t, <3>1, <5>1 DEF RowsOK
        <5>3. sub[s].mode = "check" /\ sub' = sub
          BY <3>1, <5>1
        <5>4. <<sub[s].user, sub[s].task>> = b
          BY <3>2 DEF BlockOf
        <5>5. s \in Filed
          BY <3>1
        <5> QED BY <3>2, <5>1, <5>2, <5>3, <5>4, <5>5
      <4> QED BY <4>1, <4>2
    <3>4. ASSUME NEW i \in Filed', status'[i] = "accepted"
          PROVE  done'[BlockOf(i)'] # 0
      <4>1. i \in Filed /\ i \in Ids /\ BlockOf(i)' = BlockOf(i) /\ BlockOf(i) \in Users \X Tasks
        BY <1>f, <3>1, <3>2 DEF BlockOf
      <4>2. CASE i = s
        BY <1>t, <3>1, <3>2, <3>4, <4>1, <4>2 DEF RowsOK, AccountsOK
      <4>3. CASE i # s
        BY <1>t, <3>1, <3>2, <3>4, <4>1, <4>3 DEF RowsOK, AccountsOK, AwardSound
      <4> QED BY <4>2, <4>3
    <3> QED BY <3>3, <3>4 DEF AwardSound, BlockOf
  <2> QED BY <2>1, <2>2
<1> QED BY <1>1, <1>2

\* A completed block is credited to an accepted check of that block by that
\* student, and no accepted check is left without its credit.
THEOREM CreditIsEarned == Spec => []AwardSound
<1>1. Init => AwardSound
  BY QueueConstants DEF Init, AwardSound, Filed
<1>2. TypeOK /\ AwardSound /\ [Next]_vars => AwardSound'
  BY AwardStep
<1> QED BY <1>1, <1>2, TypeCorrect, PTL DEF Spec

\* What each step of the queue is in the ledger.
LEMMA LedgerStep ==
    TypeOK /\ AccountLock /\ [Next]_vars => [Ledger!Next]_(Ledger!vars)
<1> SUFFICES ASSUME TypeOK, AccountLock, [Next]_vars
             PROVE  Ledger!Next \/ UNCHANGED Ledger!vars
  OBVIOUS
<1> USE QueueConstants
<1>t. RowsOK /\ AccountsOK
  BY TypeParts
<1>f. /\ Ledger!Ids = Ids /\ Ledger!Request = Request /\ Ledger!Verdicts = Verdicts
      /\ \A s \in Filed : s \in Ids /\ sub[s] \in Request /\ sub[s] # None
      /\ \A s \in Ids : sub[s] # None <=> s \in Filed
      /\ \A s \in Ids : Ledger!Open(s) <=> Open(s)
  BY <1>t DEF Ledger!Ids, Ids, Ledger!Request, Request, Ledger!Verdicts, Verdicts,
     Filed, RowsOK, Ledger!Open, Open, Live
\* A request recorded.
<1>1. ASSUME NEW h \in Handlers, Insert(h) PROVE Ledger!Next
  <2> DEFINE n == count + 1
             r == admitted[h]
  <2>1. /\ n \in Ids /\ r \in Request /\ r # None /\ status[n] = "none"
        /\ sub' = [sub EXCEPT ![n] = r]
        /\ status' = [status EXCEPT ![n] = "queued"]
        /\ done' = done
    BY <1>1, InsertStep
  <2>2. \A i \in Ids : sub[i] # None /\ sub[i].user = r.user
                          => ~Ledger!Open(i) /\ sub[i].key # r.key
    BY <1>f, <2>1 DEF AccountLock
  <2> HIDE DEF n, r
  <2>3. Ledger!File(n, r)
    BY <1>f, <2>1, <2>2 DEF Ledger!File
  <2> QED BY <1>f, <2>1, <2>3 DEF Ledger!Next
\* A submission withdrawn.
<1>2. ASSUME NEW h \in Handlers, NEW s \in Ids, Cancel(h, s) PROVE Ledger!Next
  <2>1. Ledger!Withdraw(s)
    BY <1>f, <1>2 DEF Cancel, Cancellable, creditVars, Ledger!Withdraw
  <2> QED BY <1>f, <2>1 DEF Ledger!Next
\* Leases that expired: given up, or returned to the queue.
<1>3. ASSUME NEW w \in Workers, ExpireExhausted(w) \/ ExpireRequeue(w)
      PROVE  Ledger!Next \/ UNCHANGED Ledger!vars
  <2>1. ASSUME NEW S \in SUBSET Ids, NEW to \in {"queued", "error"},
               \A s \in S : status[s] = "running",
               status' = [s \in Ids |-> IF s \in S THEN to ELSE status[s]],
               sub' = sub, done' = done
        PROVE  Ledger!Next \/ UNCHANGED Ledger!vars
    <3>1. CASE S = {}
      BY <1>t, <2>1, <3>1 DEF RowsOK, Ledger!vars
    <3>2. CASE S # {}
      <4>1. Ledger!Return(S, to)
        BY <1>f, <2>1, <3>2 DEF Ledger!Return
      <4> QED BY <1>f, <4>1 DEF Ledger!Next
    <3> QED BY <3>1, <3>2
  <2>2. CASE ExpireExhausted(w)
    <3> DEFINE S == {s \in Ids : Expired(s) /\ retries[s] >= RetryLimit}
    <3>1. /\ S \in SUBSET Ids /\ \A s \in S : status[s] = "running"
          /\ status' = [s \in Ids |-> IF s \in S THEN "error" ELSE status[s]]
          /\ sub' = sub /\ done' = done
      BY <2>2 DEF ExpireExhausted, Expired, creditVars
    <3> HIDE DEF S
    <3> QED BY <2>1, <3>1
  <2>3. CASE ExpireRequeue(w)
    <3> DEFINE S == {s \in Ids : Returned(s)}
    <3>1. /\ S \in SUBSET Ids /\ \A s \in S : status[s] = "running"
          /\ status' = [s \in Ids |-> IF s \in S THEN "queued" ELSE status[s]]
          /\ sub' = sub /\ done' = done
      BY <2>3 DEF ExpireRequeue, Returned, Expired, creditVars
    <3> HIDE DEF S
    <3> QED BY <2>1, <3>1
  <2> QED BY <1>3, <2>2, <2>3
\* A claim.
<1>4. ASSUME NEW w \in Workers, Take(w) PROVE Ledger!Next
  <2>1. worker[w].job \in Ids
    BY <1>4, JobFiled DEF Take
  <2>2. Ledger!Start(worker[w].job)
    BY <1>4 DEF Take, creditVars, Ledger!Start
  <2> QED BY <1>f, <2>1, <2>2 DEF Ledger!Next
\* A claim given back, for another try or as an error.
<1>5. ASSUME NEW w \in Workers, RunnerRetry(w) \/ Stop(w)
      PROVE  Ledger!Next \/ UNCHANGED Ledger!vars
  <2> DEFINE s == worker[w].job
  <2>1. /\ sub' = sub /\ done' = done
        /\ \/ status' = status
           \/ /\ Holds(w)
              /\ \E to \in {"queued", "error"} : status' = [status EXCEPT ![s] = to]
    BY <1>5 DEF RunnerRetry, Stop, creditVars
  <2>2. ASSUME Holds(w), NEW to \in {"queued", "error"}, status' = [status EXCEPT ![s] = to]
        PROVE  Ledger!Next
    <3>1. s \in Ids /\ status[s] = "running"
      BY <1>f, <2>2 DEF Holds
    <3> HIDE DEF s
    <3>2. status' = [i \in Ids |-> IF i \in {s} THEN to ELSE status[i]]
      BY <1>t, <2>2, <3>1 DEF RowsOK
    <3>3. Ledger!Return({s}, to)
      BY <1>f, <2>1, <3>1, <3>2 DEF Ledger!Return
    <3>4. {s} \in SUBSET Ids
      BY <3>1
    <3> QED BY <1>f, <3>3, <3>4 DEF Ledger!Next
  <2> QED BY <2>1, <2>2 DEF Ledger!vars
\* A verdict.
<1>6. ASSUME NEW w \in Workers, Commit(w)
      PROVE  Ledger!Next \/ UNCHANGED Ledger!vars
  <2> DEFINE s == worker[w].job
             b == <<sub[s].user, sub[s].task>>
             v == Outcome(w)
  <2>1. CASE UNCHANGED <<status, done>>
    BY <1>6, <2>1, CommitStep DEF Ledger!vars
  <2>2. CASE ~UNCHANGED <<status, done>>
    <3>1. /\ s \in Ids /\ v \in Verdicts /\ status[s] = "running"
          /\ v = "accepted" => sub[s].mode = "check"
          /\ status' = [status EXCEPT ![s] = v]
          /\ done' = IF v = "accepted" /\ done[b] = 0
                     THEN [done EXCEPT ![b] = s] ELSE done
          /\ sub' = sub
      BY <1>6, <2>2, CommitStep
    <3>2. Ledger!Settle(s, v)
      BY <3>1 DEF Ledger!Settle
    <3> HIDE DEF s, v
    <3> QED BY <1>f, <3>1, <3>2 DEF Ledger!Next
  <2> QED BY <2>1, <2>2
\* Everything else is invisible.
<1>7. ASSUME \/ \E h \in Handlers : Refuse(h) \/ \E u \in Users : ReadAccount(h, u)
             \/ \E h \in Handlers, r \in Request : Admit(h, r)
             \/ \E u \in Users : ToggleAccess(u)
             \/ \E s \in Ids : LeaseLapse(s) \/ BackoffEnds(s)
             \/ UNCHANGED vars
      PROVE  UNCHANGED Ledger!vars
  BY <1>7 DEF ReadAccount, Admit, Refuse, ToggleAccess, LeaseLapse, BackoffEnds,
        vars, rowVars, creditVars, Ledger!vars
<1>8. ASSUME NEW w \in Workers,
             Poll(w) \/ Select(w) \/ SelectNothing(w) \/ TakeLost(w) \/ Heartbeat(w)
             \/ SeeCancelled(w) \/ JudgeEnds(w) \/ RunnerGivesUp(w) \/ LoadUser(w)
             \/ Abandon(w) \/ Crash(w) \/ Restart(w) \/ HeartbeatStale(w)
      PROVE  UNCHANGED Ledger!vars
  BY <1>8 DEF Poll, Select, SelectNothing, TakeLost, Heartbeat, SeeCancelled,
        JudgeEnds, RunnerGivesUp, LoadUser, Abandon, Crash, Restart,
        HeartbeatStale, rowVars, creditVars, Ledger!vars
<1>9. CASE WebStep
  BY <1>1, <1>2, <1>7, <1>9 DEF WebStep
<1>10. ASSUME NEW w \in Workers,
              WorkerStep(w) \/ Heartbeat(w) \/ Abandon(w) \/ Stop(w) \/ Crash(w)
              \/ Restart(w) \/ HeartbeatStale(w)
       PROVE  Ledger!Next \/ UNCHANGED Ledger!vars
  BY <1>3, <1>4, <1>5, <1>6, <1>8, <1>10 DEF WorkerStep
<1> QED BY <1>7, <1>9, <1>10 DEF Next

\* The queue implements the ledger: its steps file, claim, return, withdraw
\* and settle submissions exactly as SubmissionLedger allows.
THEOREM QueueImplementsLedger == Spec => ImplementsLedger
<1>1. Init => Ledger!Init
  BY DEF Init, Ledger!Init, Ledger!Ids, Ids
<1>2. TypeOK /\ AccountLock /\ [Next]_vars => [Ledger!Next]_(Ledger!vars)
  BY LedgerStep
<1>3. Spec => []TypeOK /\ []AccountLock
  BY TypeCorrect, OneAtATime, PTL
<1> QED BY <1>1, <1>2, <1>3, PTL DEF Spec, ImplementsLedger, Ledger!SafeSpec

-----------------------------------------------------------------------------
(* Attempts are counted once *)

LEMMA GradedFinite ==
    ASSUME TypeOK, NEW b \in Users \X Tasks
    PROVE  IsFiniteSet(GradedOf(b)) /\ Cardinality(GradedOf(b)) \in Nat /\ attempts[b] \in Nat /\ done[b] \in Nat
<1>1. count \in Nat /\ GradedOf(b) \in SUBSET (1 .. count)
  BY DEF TypeOK, GradedOf, Filed
<1>2. IsFiniteSet(1 .. count)
  BY <1>1, FS_Interval
<1>3. IsFiniteSet(GradedOf(b))
  BY <1>1, <1>2, FS_Subset
<1> QED BY <1>3, FS_CardinalityType DEF TypeOK

LEMMA FiledRows ==
    ASSUME TypeOK, NEW s \in Filed
    PROVE  s \in Ids /\ sub[s] \in Request /\ BlockOf(s) \in Users \X Tasks
<1>1. RowsOK
  BY TypeParts
<1> QED BY <1>1, QueueConstants DEF Filed, RowsOK, Ids, BlockOf, Request

\* A step other than Commit leaves the graded checks of a block as they are.
LEMMA GradedSame ==
    ASSUME TypeOK, [Next]_vars, \A w \in Workers : ~Commit(w), NEW b \in Users \X Tasks
    PROVE  GradedOf(b)' = GradedOf(b)
<1>1. \A s \in Ids : status'[s] \in {"accepted", "rejected"} => status'[s] = status[s]
  BY NoCredit
<1>2. CASE RowsSettle
  <2>1. \A s \in Filed : status[s] \in {"accepted", "rejected"} <=> status'[s] \in {"accepted", "rejected"}
    BY <1>1, <1>2, FiledRows DEF RowsSettle, Open, Live
  <2> QED BY <1>2, <2>1 DEF RowsSettle, GradedOf, BlockOf, Filed
<1>3. ASSUME NEW h \in Handlers, Insert(h) PROVE GradedOf(b)' = GradedOf(b)
  <2> DEFINE n == count + 1
  <2>1. /\ count \in Nat /\ n \in Ids /\ count' = n
        /\ sub' = [sub EXCEPT ![n] = admitted[h]]
        /\ status' = [status EXCEPT ![n] = "queued"]
    BY <1>3, InsertStep
  <2>2. Filed' = Filed \cup {n} /\ n \notin Filed
    BY <2>1 DEF Filed
  <2>3. RowsOK
    BY TypeParts
  <2> HIDE DEF n
  <2>4. status'[n] = "queued" /\ \A s \in Filed : status'[s] = status[s] /\ sub'[s] = sub[s]
    BY <2>1, <2>2, <2>3, FiledRows DEF RowsOK
  <2>5. \A s \in Filed : BlockOf(s)' = BlockOf(s)
    BY <2>4 DEF BlockOf
  <2> QED BY <2>2, <2>4, <2>5 DEF GradedOf
<1> QED BY <1>2, <1>3, RowStep

\* A commit grades the check it was made for and counts it, unless its block is
\* completed; or it counts nothing.
LEMMA CountedCommit ==
    ASSUME TypeOK, CountedOnce, NEW w \in Workers, Commit(w)
    PROVE  CountedOnce'
<1>0. PICK s \in Filed, b \in Users \X Tasks : s = worker[w].job /\ b = BlockOf(s)
  BY JobFiled, FiledRows DEF Commit
<1>1. s \in Filed /\ s \in Ids /\ sub[s] \in Request /\ b \in Users \X Tasks /\ b = BlockOf(s)
  BY <1>0, FiledRows
<1> DEFINE v == Outcome(w)
<1>2. count' = count /\ sub' = sub /\ Filed' = Filed
  BY DEF Commit, Filed
<1>3. \A i \in Filed : i \in Ids /\ BlockOf(i)' = BlockOf(i)
  BY <1>2, FiledRows DEF BlockOf
<1>4. /\ status \in [Ids -> {"none"} \cup Live \cup Verdicts]
      /\ attempts \in [Users \X Tasks -> Nat] /\ done \in [Users \X Tasks -> 0 .. MaxSubs]
  BY DEF TypeOK
<1>5. CASE UNCHANGED <<status, attempts, done>>
  <2>1. \A c \in Users \X Tasks : GradedOf(c)' = GradedOf(c)
    BY <1>2, <1>3, <1>5 DEF GradedOf
  <2> QED BY <1>5, <2>1 DEF CountedOnce
<1>6. CASE Holds(w)
  <2>1. /\ status[s] = "running" /\ status' = [status EXCEPT ![s] = v]
        /\ attempts' = IF Graded(s, v) /\ done[b] = 0 THEN [attempts EXCEPT ![b] = @ + 1] ELSE attempts
        /\ done' = IF Graded(s, v) /\ v = "accepted" /\ done[b] = 0 THEN [done EXCEPT ![b] = s] ELSE done
    BY <1>0, <1>6 DEF Commit, Holds, BlockOf
  <2> HIDE DEF v
  <2>2. status'[s] = v /\ \A i \in Ids : i # s => status'[i] = status[i]
    BY <1>1, <1>4, <2>1
  <2>3. CASE Graded(s, v)
    <3>1. s \notin GradedOf(b) /\ GradedOf(b)' = GradedOf(b) \cup {s}
      <4>1. s \notin GradedOf(b)
        BY <2>1 DEF GradedOf
      <4>2. s \in GradedOf(b)'
        BY <1>1, <1>2, <1>3, <2>2, <2>3 DEF GradedOf, Graded
      <4>3. \A i \in Filed : i # s => (i \in GradedOf(b)' <=> i \in GradedOf(b))
        BY <1>2, <1>3, <2>2 DEF GradedOf
      <4>4. GradedOf(b)' \subseteq Filed /\ GradedOf(b) \subseteq Filed
        BY <1>2 DEF GradedOf
      <4> QED BY <4>1, <4>2, <4>3, <4>4
    <3>2. \A c \in Users \X Tasks : c # b => GradedOf(c)' = GradedOf(c)
      BY <1>1, <1>2, <1>3, <2>1, <2>2 DEF GradedOf
    <3>3. Cardinality(GradedOf(b)') = Cardinality(GradedOf(b)) + 1
      BY <1>1, <3>1, GradedFinite, FS_AddElement
    <3> DEFINE k == Cardinality(GradedOf(b))
    <3>4. k \in Nat /\ attempts[b] \in Nat
      BY <1>1, GradedFinite
    <3>5. ASSUME NEW c \in Users \X Tasks, c # b
          PROVE  attempts'[c] = attempts[c] /\ done'[c] = done[c]
      BY <1>4, <2>1, <3>5
    <3>6. IF done[b] = 0 THEN attempts[b] = k ELSE attempts[b] \in 1 .. k
      BY <1>1 DEF CountedOnce
    <3>7. s # 0
      BY <1>1 DEF Ids
    <3> HIDE DEF k
    <3>8. IF done'[b] = 0 THEN attempts'[b] = k + 1 ELSE attempts'[b] \in 1 .. k + 1
      <4>1. CASE done[b] = 0
        <5>1. attempts'[b] = k + 1
          BY <1>1, <1>4, <2>1, <2>3, <3>4, <3>6, <4>1
        <5> QED BY <3>4, <5>1
      <4>2. CASE done[b] # 0
        BY <2>1, <3>4, <3>6, <4>2
      <4> QED BY <4>1, <4>2
    <3>9. ASSUME NEW c \in Users \X Tasks
          PROVE  IF done'[c] = 0 THEN attempts'[c] = Cardinality(GradedOf(c)')
                 ELSE attempts'[c] \in 1 .. Cardinality(GradedOf(c)')
      <4>1. CASE c = b
        BY <3>3, <3>8, <4>1 DEF k
      <4>2. CASE c # b
        BY <3>2, <3>5, <4>2 DEF CountedOnce
      <4> QED BY <4>1, <4>2
    <3> QED BY <3>9 DEF CountedOnce
  <2>4. CASE ~Graded(s, v)
    <3>1. \A c \in Users \X Tasks : GradedOf(c)' = GradedOf(c)
      BY <1>1, <1>2, <1>3, <2>1, <2>2, <2>4 DEF GradedOf, Graded
    <3> QED BY <2>1, <2>4, <3>1 DEF CountedOnce
  <2> QED BY <2>3, <2>4
<1> QED BY <1>5, <1>6 DEF Commit

LEMMA CountedStep == TypeOK /\ CountedOnce /\ [Next]_vars => CountedOnce'
<1> SUFFICES ASSUME TypeOK, CountedOnce, [Next]_vars PROVE CountedOnce'
  OBVIOUS
<1>1. CASE \A w \in Workers : ~Commit(w)
  <2>1. done' = done /\ attempts' = attempts
    BY <1>1, NoCredit
  <2>2. \A b \in Users \X Tasks : GradedOf(b)' = GradedOf(b)
    BY <1>1, GradedSame
  <2> QED BY <2>1, <2>2 DEF CountedOnce
<1> QED BY <1>1, CountedCommit

\* BlockProgress.attempts counts the graded checks up to the one that completed
\* the block, whatever is claimed, reclaimed or lost, for any number of workers
\* (commit_result).
THEOREM EachCountedOnce == Spec => []CountedOnce
<1>1. Init => CountedOnce
  <2> SUFFICES ASSUME Init, NEW b \in Users \X Tasks
               PROVE  done[b] = 0 /\ attempts[b] = Cardinality(GradedOf(b))
    BY DEF CountedOnce
  <2>1. GradedOf(b) = {}
    BY DEF Init, GradedOf, Filed
  <2> QED BY <2>1, FS_EmptySet DEF Init
<1> QED BY <1>1, CountedStep, TypeCorrect, PTL DEF Spec

-----------------------------------------------------------------------------
(* The budget of retries *)

\* Workers that may retry s because of what they have read of its retries.
Readers(s) == {w \in Workers : /\ worker[w].pc \in {"take", "judging"}
                               /\ worker[w].job = s /\ RetryLeft(w)}

\* From the limit on nobody reads that a retry is left, so the workers that
\* have read it before spend what they have read, and one has spent it already.
ReadersSpend ==
    \A s \in Ids : retries[s] >= RetryLimit =>
        retries[s] + Cardinality(Readers(s)) <= RetryLimit + (Cardinality(Workers) - 1)

LEMMA ReadersFinite ==
    ASSUME NEW s
    PROVE  /\ IsFiniteSet(Readers(s)) /\ Cardinality(Readers(s)) \in Nat
           /\ IsFiniteSet(Readers(s)') /\ Cardinality(Readers(s)') \in Nat
<1>1. Readers(s) \in SUBSET Workers /\ Readers(s)' \in SUBSET Workers
  BY DEF Readers
<1>2. IsFiniteSet(Readers(s)) /\ IsFiniteSet(Readers(s)')
  BY <1>1, FS_Subset, WorkerProcesses
<1> QED BY <1>2, FS_CardinalityType

\* A worker that is not among the readers leaves one less than all.
LEMMA NotAllRead ==
    ASSUME NEW w \in Workers, NEW R \in SUBSET Workers, w \notin R
    PROVE  Cardinality(R) <= Cardinality(Workers) - 1
<1>1. IsFiniteSet(Workers) /\ IsFiniteSet(Workers \ {w})
  BY WorkerProcesses, FS_RemoveElement
<1>2. Cardinality(Workers \ {w}) = Cardinality(Workers) - 1
  BY <1>1, FS_RemoveElement
<1>3. R \in SUBSET (Workers \ {w})
  OBVIOUS
<1>4. Cardinality(R) <= Cardinality(Workers \ {w})
  BY <1>1, <1>3, FS_Subset
<1> QED BY <1>2, <1>4

\* A step that changes no retries and lets nobody read that a retry is left
\* where none is.
LEMMA NobodyReads ==
    ASSUME TypeOK, ReadersSpend, UNCHANGED retries,
           \A s \in Ids : retries[s] >= RetryLimit => Readers(s)' \subseteq Readers(s)
    PROVE  ReadersSpend'
<1> SUFFICES ASSUME NEW s \in Ids, retries[s] >= RetryLimit
             PROVE  retries[s] + Cardinality(Readers(s)') <= RetryLimit + (Cardinality(Workers) - 1)
  BY DEF ReadersSpend
<1>1. Cardinality(Readers(s)') <= Cardinality(Readers(s))
  <2>1. Readers(s)' \in SUBSET Readers(s)
    OBVIOUS
  <2> QED BY <2>1, ReadersFinite, FS_Subset
<1>2. retries[s] + Cardinality(Readers(s)) <= RetryLimit + (Cardinality(Workers) - 1)
  BY DEF ReadersSpend
<1>3. retries[s] \in Nat /\ RetryLimit \in Nat /\ Cardinality(Workers) \in Nat
  BY QueueConstants, WorkerProcesses, FS_CardinalityType DEF TypeOK
<1> HIDE DEF Readers
<1> QED BY <1>1, <1>2, <1>3, ReadersFinite

\* A worker that goes on with what it has read, or leaves the job, lets nobody
\* read.
LEMMA GoesOn ==
    ASSUME TypeOK, NEW w \in Workers, NEW s,
           \A x \in Workers : x # w => worker'[x] = worker[x],
           \/ worker'[w].pc \notin {"take", "judging"}
           \/ /\ worker[w].pc \in {"take", "judging"}
              /\ worker'[w].job = worker[w].job /\ worker'[w].retries = worker[w].retries
    PROVE  Readers(s)' \subseteq Readers(s)
BY DEF Readers, RetryLeft

LEMMA SpendStep == TypeOK /\ ReadersSpend /\ [Next]_vars => ReadersSpend'
<1> SUFFICES ASSUME TypeOK, ReadersSpend, [Next]_vars PROVE ReadersSpend'
  OBVIOUS
<1>0. /\ retries \in [Ids -> Nat] /\ worker \in [Workers -> WorkerRecord]
      /\ RetryLimit \in Nat /\ Cardinality(Workers) \in Nat
  BY QueueConstants, WorkerProcesses, FS_CardinalityType DEF TypeOK, WorkerRecord
<1>1. CASE UNCHANGED <<worker, retries>>
  BY <1>1, NobodyReads DEF Readers, RetryLeft
\* Steps of a worker that leave the retries of all rows alone.
<1>2. ASSUME NEW w \in Workers, UNCHANGED retries,
             \A x \in Workers : x # w => worker'[x] = worker[x],
             \/ worker'[w].pc \notin {"take", "judging"}
             \/ /\ worker[w].pc \in {"take", "judging"}
                /\ worker'[w].job = worker[w].job /\ worker'[w].retries = worker[w].retries
      PROVE  ReadersSpend'
  BY <1>2, GoesOn, NobodyReads
<1>3. ASSUME NEW w \in Workers, Poll(w) \/ ExpireExhausted(w) PROVE ReadersSpend'
  <2>1. PICK p \in {"exhaust", "requeue"} : worker' = [worker EXCEPT ![w].pc = p]
    BY <1>3 DEF Poll, ExpireExhausted
  <2>2. UNCHANGED retries
    BY <1>3 DEF Poll, ExpireExhausted, rowVars
  <2>3. worker'[w].pc = p /\ \A x \in Workers : x # w => worker'[x] = worker[x]
    BY <1>0, <2>1 DEF WorkerRecord
  <2> QED BY <1>2, <2>2, <2>3
<1>4. ASSUME NEW w \in Workers,
             SelectNothing(w) \/ TakeLost(w) \/ SeeCancelled(w) \/ Commit(w)
             \/ Abandon(w) \/ Restart(w) \/ Stop(w) \/ Crash(w)
      PROVE  ReadersSpend'
  <2>1. /\ UNCHANGED retries
        /\ \E p \in {"idle", "down"} : worker' = [worker EXCEPT ![w] = At(p)]
    BY <1>4 DEF SelectNothing, TakeLost, SeeCancelled, Commit, Abandon, Restart,
          Stop, Crash, rowVars
  <2>2. worker'[w].pc \in {"idle", "down"} /\ \A x \in Workers : x # w => worker'[x] = worker[x]
    BY <1>0, <2>1 DEF At
  <2> QED BY <1>2, <2>1, <2>2
<1>5. ASSUME NEW w \in Workers, JudgeEnds(w) \/ RunnerGivesUp(w) \/ LoadUser(w)
      PROVE  ReadersSpend'
  <2>1. UNCHANGED retries
    BY <1>5 DEF JudgeEnds, RunnerGivesUp, LoadUser, rowVars
  <2>2. worker'[w].pc \notin {"take", "judging"} /\ \A x \in Workers : x # w => worker'[x] = worker[x]
    BY <1>0, <1>5 DEF JudgeEnds, RunnerGivesUp, LoadUser, WorkerRecord
  <2> QED BY <1>2, <2>1, <2>2
<1>6. ASSUME NEW w \in Workers, Take(w) PROVE ReadersSpend'
  <2>1. UNCHANGED retries /\ worker[w].pc = "take"
    BY <1>6 DEF Take
  <2>2. /\ worker'[w].job = worker[w].job /\ worker'[w].retries = worker[w].retries
        /\ \A x \in Workers : x # w => worker'[x] = worker[x]
    BY <1>0, <1>6 DEF Take, WorkerRecord
  <2> QED BY <1>2, <2>1, <2>2
\* The SELECT reads that a retry is left only where one is.
<1>7. ASSUME NEW w \in Workers, Select(w) PROVE ReadersSpend'
  <2>1. PICK i \in Ids : worker' = [worker EXCEPT ![w] = [At("take") EXCEPT !.job = i, !.retries = retries[i]]]
    BY <1>7 DEF Select
  <2>2. UNCHANGED retries
    BY <1>7 DEF Select, rowVars
  <2>3. worker'[w].retries = retries[i] /\ worker'[w].job = i
    BY <1>0, <2>1 DEF At
  <2>4. \A x \in Workers : x # w => worker'[x] = worker[x]
    BY <1>0, <2>1
  <2>5. ASSUME NEW s \in Ids, retries[s] >= RetryLimit, NEW x \in Readers(s)'
        PROVE  x \in Readers(s)
    <3>1. /\ x \in Workers /\ worker'[x].pc \in {"take", "judging"} /\ worker'[x].job = s
          /\ worker'[x].retries < RetryLimit
      BY <2>5 DEF Readers, RetryLeft
    <3>2. x # w
      <4>1. retries[s] \in Nat
        BY <1>0
      <4> QED BY <1>0, <2>3, <2>5, <3>1, <4>1
    <3>3. worker'[x] = worker[x]
      BY <2>4, <3>1, <3>2
    <3> QED BY <3>1, <3>3 DEF Readers, RetryLeft
  <2> QED BY <2>2, <2>5, NobodyReads
\* An expired lease takes a retry that is left, and this worker is no reader.
<1>8. ASSUME NEW w \in Workers, ExpireRequeue(w) PROVE ReadersSpend'
  <2>1. worker'[w].pc = "select" /\ \A x \in Workers : x # w => worker'[x] = worker[x]
    BY <1>0, <1>8 DEF ExpireRequeue, WorkerRecord
  <2> SUFFICES ASSUME NEW s \in Ids, retries'[s] >= RetryLimit
               PROVE  retries'[s] + Cardinality(Readers(s)') <= RetryLimit + (Cardinality(Workers) - 1)
    BY DEF ReadersSpend
  <2>2. \/ retries'[s] = retries[s]
        \/ retries[s] < RetryLimit /\ retries'[s] = retries[s] + 1
    BY <1>8 DEF ExpireRequeue, Returned
  <2>3. retries[s] \in Nat /\ Cardinality(Readers(s)) \in Nat /\ Cardinality(Readers(s)') \in Nat
    BY <1>0, ReadersFinite
  <2>4. CASE retries'[s] = retries[s]
    <3>1. Readers(s)' \in SUBSET Readers(s)
      BY <2>1, GoesOn
    <3>2. Cardinality(Readers(s)') <= Cardinality(Readers(s))
      BY <3>1, ReadersFinite, FS_Subset
    <3>3. retries[s] + Cardinality(Readers(s)) <= RetryLimit + (Cardinality(Workers) - 1)
      BY <2>4 DEF ReadersSpend
    <3> QED BY <1>0, <2>3, <2>4, <3>2, <3>3
  <2>5. CASE retries[s] < RetryLimit /\ retries'[s] = retries[s] + 1
    <3>1. retries'[s] = RetryLimit
      BY <1>0, <2>3, <2>5
    <3>2. Readers(s)' \in SUBSET Workers /\ w \notin Readers(s)'
      BY <2>1 DEF Readers
    <3>3. Cardinality(Readers(s)') <= Cardinality(Workers) - 1
      BY <3>2, NotAllRead
    <3> QED BY <1>0, <2>3, <3>1, <3>3
  <2> QED BY <2>2, <2>4, <2>5
\* A reader spends what it has read.
<1>9. ASSUME NEW w \in Workers, RunnerRetry(w) PROVE ReadersSpend'
  <2> DEFINE i == worker[w].job
  <2>1. worker'[w].pc = "idle" /\ \A x \in Workers : x # w => worker'[x] = worker[x]
    BY <1>0, <1>9 DEF RunnerRetry, At
  <2>2. i \in Ids /\ w \in Readers(i)
    BY <1>9, JobFiled DEF RunnerRetry, Readers
  <2>3. \A s \in Ids : Readers(s)' \in SUBSET Readers(s) /\ w \notin Readers(s)'
    BY <2>1, GoesOn DEF Readers
  <2>4. retries' = retries \/ retries' = [retries EXCEPT ![i] = @ + 1]
    BY <1>9 DEF RunnerRetry
  <2>5. CASE retries' = retries
    BY <2>3, <2>5, NobodyReads
  <2>6. CASE retries' = [retries EXCEPT ![i] = @ + 1]
    <3> HIDE DEF i
    <3> SUFFICES ASSUME NEW s \in Ids, retries'[s] >= RetryLimit
                 PROVE  retries'[s] + Cardinality(Readers(s)') <= RetryLimit + (Cardinality(Workers) - 1)
      BY DEF ReadersSpend
    <3>1. retries[s] \in Nat /\ Cardinality(Readers(s)) \in Nat /\ Cardinality(Readers(s)') \in Nat
      BY <1>0, ReadersFinite
    <3>2. Cardinality(Readers(s)') <= Cardinality(Readers(s))
      BY <2>3, ReadersFinite, FS_Subset
    <3>3. retries[s] >= RetryLimit => retries[s] + Cardinality(Readers(s)) <= RetryLimit + (Cardinality(Workers) - 1)
      BY DEF ReadersSpend
    <3>4. CASE s # i
      <4>1. retries'[s] = retries[s]
        BY <1>0, <2>6, <3>4
      <4> QED BY <1>0, <3>1, <3>2, <3>3, <4>1
    <3>5. CASE s = i
      <4>1. retries'[s] = retries[s] + 1
        BY <1>0, <2>2, <2>6, <3>5
      <4>2. CASE retries[s] >= RetryLimit
        <5>1. Readers(s)' \in SUBSET (Readers(s) \ {w}) /\ w \in Readers(s)
          BY <2>2, <2>3, <3>5
        <5>2. IsFiniteSet(Readers(s) \ {w}) /\ Cardinality(Readers(s) \ {w}) = Cardinality(Readers(s)) - 1
          BY <5>1, ReadersFinite, FS_RemoveElement
        <5>3. Cardinality(Readers(s)') <= Cardinality(Readers(s)) - 1
          BY <5>1, <5>2, FS_Subset
        <5> QED BY <1>0, <3>1, <3>3, <4>1, <4>2, <5>3
      <4>3. CASE ~(retries[s] >= RetryLimit)
        <5>1. retries'[s] = RetryLimit
          BY <1>0, <3>1, <4>1, <4>3
        <5>2. Readers(s)' \in SUBSET Workers
          BY DEF Readers
        <5>3. Cardinality(Readers(s)') <= Cardinality(Workers) - 1
          BY <2>3, <5>2, NotAllRead
        <5> QED BY <1>0, <3>1, <5>1, <5>3
      <4> QED BY <4>2, <4>3
    <3> QED BY <3>4, <3>5
  <2> QED BY <2>4, <2>5, <2>6
<1>10. ASSUME NEW w \in Workers, Heartbeat(w) \/ HeartbeatStale(w) PROVE ReadersSpend'
  BY <1>1, <1>10 DEF Heartbeat, HeartbeatStale, rowVars
<1>11. CASE (\E s \in Ids : LeaseLapse(s) \/ BackoffEnds(s)) \/ WebStep
            \/ (\E u \in Users : ToggleAccess(u)) \/ UNCHANGED vars
  BY <1>1, <1>11 DEF LeaseLapse, BackoffEnds, WebStep, ToggleAccess, ReadAccount, Admit,
        Insert, Refuse, Cancel, vars, rowVars
<1> QED BY <1>3, <1>4, <1>5, <1>6, <1>7, <1>8, <1>9, <1>10, <1>11 DEF Next, WorkerStep

\* A submission is retried at most RetryLimit times, and once more for each
\* worker beyond the one that the compose file starts, whatever the leases,
\* the runner and the failures do (claim, process_one).
THEOREM RetriesBounded == Spec => []RetryBudget
<1>1. RetryLimit \in Nat /\ IsFiniteSet(Workers) /\ Cardinality(Workers) \in Nat \ {0}
  <2>1. Cardinality(Workers) \in Nat /\ Cardinality(Workers) # 0
    BY WorkerProcesses, FS_CardinalityType, FS_EmptySet
  <2> QED BY <2>1, QueueConstants, WorkerProcesses
<1>2. Init => ReadersSpend
  <2> SUFFICES ASSUME Init, NEW s \in Ids
               PROVE  retries[s] = 0 /\ Cardinality(Readers(s)) = 0
    BY <1>1 DEF ReadersSpend
  <2>1. Readers(s) = {}
    BY DEF Init, Readers, At
  <2> QED BY <2>1, FS_EmptySet DEF Init
<1>3. TypeOK /\ ReadersSpend => RetryBudget
  <2> SUFFICES ASSUME TypeOK, ReadersSpend, NEW s \in Ids
               PROVE  retries[s] <= RetryLimit + (Cardinality(Workers) - 1)
    BY DEF RetryBudget
  <2>1. retries[s] \in Nat /\ Cardinality(Readers(s)) \in Nat
    BY ReadersFinite DEF TypeOK
  <2>2. retries[s] >= RetryLimit => retries[s] + Cardinality(Readers(s)) <= RetryLimit + (Cardinality(Workers) - 1)
    BY DEF ReadersSpend
  <2> QED BY <1>1, <2>1, <2>2
<1> QED BY <1>2, <1>3, SpendStep, TypeCorrect, PTL DEF Spec

-----------------------------------------------------------------------------
(* A blocked account *)

LEMMA QuietStepOfBlocked ==
    ASSUME TypeOK, [Next]_vars, NEW u \in Users, ~active[u], ~InFlight(u)
    PROVE  /\ \A b \in {u} \X Tasks : done'[b] = done[b] /\ attempts'[b] = attempts[b]
           /\ \A s \in Ids : sub'[s] # sub[s] => sub'[s].user # u
<1>1. \A s \in Ids : sub'[s] # sub[s] => sub'[s].user # u
  <2>1. CASE RowsSettle
    BY <2>1 DEF RowsSettle
  <2>2. ASSUME NEW h \in Handlers, Insert(h) PROVE \A s \in Ids : sub'[s] # sub[s] => sub'[s].user # u
    <3>1. admitted[h].user # u
      BY <2>2 DEF Insert, InFlight
    <3>2. sub' = [sub EXCEPT ![count + 1] = admitted[h]] /\ sub \in [Ids -> Request \cup {None}]
      BY <2>2, InsertStep DEF TypeOK
    <3> QED BY <3>1, <3>2
  <2> QED BY <2>1, <2>2, RowStep
<1>2. \A b \in {u} \X Tasks : done'[b] = done[b] /\ attempts'[b] = attempts[b]
  <2>1. CASE \A w \in Workers : ~Commit(w)
    BY <2>1, NoCredit
  <2>2. ASSUME NEW w \in Workers, Commit(w)
        PROVE  \A b \in {u} \X Tasks : done'[b] = done[b] /\ attempts'[b] = attempts[b]
    <3> DEFINE s == worker[w].job
               c == <<sub[s].user, sub[s].task>>
               v == Outcome(w)
    <3>1. CASE UNCHANGED <<done, attempts>>
      BY <3>1
    <3>2. CASE Graded(s, v)
      <4>1. worker[w].sawActive
        BY <3>2 DEF Graded, Outcome
      <4>2. c[1] # u
        BY <2>2, <4>1 DEF InFlight, Commit
      <4>3. /\ done' = done \/ done' = [done EXCEPT ![c] = s]
            /\ attempts' = attempts \/ attempts' = [attempts EXCEPT ![c] = @ + 1]
        BY <2>2 DEF Commit
      <4> HIDE DEF c, s
      <4> QED BY <4>2, <4>3 DEF TypeOK
    <3>3. CASE ~Graded(s, v)
      BY <2>2, <3>1, <3>3 DEF Commit
    <3> QED BY <3>2, <3>3
  <2> QED BY <2>1, <2>2
<1> QED BY <1>1, <1>2

\* Once an account is blocked and the requests and commits that had read it
\* before have ended, no step files a submission for it, credits it or counts
\* an attempt (enqueue, commit_result, person's toggle).
THEOREM BlockedStaysQuiet == Spec => BlockedIsQuiet
<1>1. TypeOK /\ [Next]_vars
        => [\A u \in Users : ~active[u] /\ ~InFlight(u) =>
              /\ \A b \in {u} \X Tasks : done'[b] = done[b] /\ attempts'[b] = attempts[b]
              /\ \A s \in Ids : sub'[s] # sub[s] => sub'[s].user # u]_vars
  BY QuietStepOfBlocked
<1> QED BY <1>1, TypeCorrect, PTL DEF Spec, BlockedIsQuiet
=============================================================================
