---------------------------- MODULE MCJudgeQueue ----------------------------
(* Small instances of JudgeQueue for TLC.                                  *)
EXTENDS JudgeQueue, TLC

\* Handlers, workers and idempotency keys are interchangeable; so are users
\* and tasks.  Used in runs without liveness properties only.
Symmetry == Permutations(Handlers) \cup Permutations(Workers)
                \cup Permutations(Keys) \cup Permutations(Users)
                \cup Permutations(Tasks)
=============================================================================
