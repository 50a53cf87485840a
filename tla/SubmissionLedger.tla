-------------------------- MODULE SubmissionLedger --------------------------
(***************************************************************************)
(* What the C++ judge queue promises a student, without workers, leases,   *)
(* retries or web requests: a submission is filed once, waits, is judged,  *)
(* may go back to the queue, and ends in one final verdict that never      *)
(* changes; a block is credited by at most one submission, an accepted     *)
(* check of that very block by its owner.                                  *)
(* JudgeQueue implements this module (property Ledger!Spec there).         *)
(***************************************************************************)
EXTENDS Naturals

CONSTANTS
    Users, Tasks, Keys,   \* students, practice tasks, idempotency keys
    MaxSubs,              \* how many submissions are ever filed
    None                  \* "no request"

Ids      == 1 .. MaxSubs
Request  == [user : Users, task : Tasks, mode : {"run", "check"}, key : Keys]
Verdicts == {"accepted", "rejected", "run_ok", "error", "cancelled"}
Phases   == {"none", "queued", "running"} \cup Verdicts

VARIABLES
    filed,    \* filed[s]: the request of submission s, or None
    phase,    \* phase[s]: its place in the life cycle
    credit    \* credit[u, t]: the submission that completed task t for u, or 0

vars == <<filed, phase, credit>>

Init ==
    /\ filed  = [s \in Ids |-> None]
    /\ phase  = [s \in Ids |-> "none"]
    /\ credit = [b \in Users \X Tasks |-> 0]

Open(s) == phase[s] \in {"queued", "running"}

\* A student with nothing in progress files a request under a fresh key.
File(s, r) ==
    /\ phase[s] = "none"
    /\ \A i \in Ids : filed[i] # None /\ filed[i].user = r.user
                        => ~Open(i) /\ filed[i].key # r.key
    /\ filed' = [filed EXCEPT ![s] = r]
    /\ phase' = [phase EXCEPT ![s] = "queued"]
    /\ UNCHANGED credit

Start(s) ==
    /\ phase[s] = "queued"
    /\ phase' = [phase EXCEPT ![s] = "running"]
    /\ UNCHANGED <<filed, credit>>

\* Some judged submissions return to the queue, or are given up, together.
Return(S, to) ==
    /\ S # {}
    /\ \A s \in S : phase[s] = "running"
    /\ phase' = [s \in Ids |-> IF s \in S THEN to ELSE phase[s]]
    /\ UNCHANGED <<filed, credit>>

Withdraw(s) ==
    /\ Open(s)
    /\ phase' = [phase EXCEPT ![s] = "cancelled"]
    /\ UNCHANGED <<filed, credit>>

\* A verdict; the first accepted check of a block is the one it is credited to.
Settle(s, v) ==
    LET b == <<filed[s].user, filed[s].task>>
    IN  /\ phase[s] = "running"
        /\ v = "accepted" => filed[s].mode = "check"
        /\ phase'  = [phase EXCEPT ![s] = v]
        /\ credit' = IF v = "accepted" /\ credit[b] = 0
                     THEN [credit EXCEPT ![b] = s] ELSE credit
        /\ UNCHANGED filed

Next ==
    \/ \E s \in Ids : \/ \E r \in Request : File(s, r)
                      \/ Start(s)
                      \/ Withdraw(s)
                      \/ \E v \in Verdicts : Settle(s, v)
    \/ \E S \in SUBSET Ids : Return(S, "queued") \/ Return(S, "error")

\* Every filed submission gets its verdict.
Answered == \A s \in Ids : phase[s] # "none" ~> phase[s] \in Verdicts

SafeSpec == Init /\ [][Next]_vars
Spec     == SafeSpec /\ Answered
=============================================================================
