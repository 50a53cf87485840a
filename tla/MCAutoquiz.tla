----------------------------- MODULE MCAutoquiz -----------------------------
(* Small instances of Autoquiz for TLC.                                    *)
EXTENDS Autoquiz, TLC

\* Pages, editors, workers and files are interchangeable; used without
\* liveness properties only.
Symmetry == Permutations(Pages) \cup Permutations(Editors)
                \cup Permutations(Workers) \cup Permutations(Assets)
=============================================================================
