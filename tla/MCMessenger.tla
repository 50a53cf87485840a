---------------------------- MODULE MCMessenger ----------------------------
(* Instances of Messenger for TLC. *)
EXTENDS Messenger, SequencesExt, TLC

CONSTANTS u1, u2, c1

MCUserOf == [c \in Pages |-> u1]
Symmetry == Permutations(Requests)

\* Bound: nothing is claimed of a page once its answers got mixed.
InTurn == \A c \in Pages : ~page[c].mixed

\* Bound: texts are typed, and members changed, in short histories only; there
\* are three history requests at a time in short histories of messages.
Managed == version - FoldFunction(LAMBDA m, n : m.rev + n, 0, messages)
Apart ==
    LET busy == Cardinality({r \in Requests : ~Free(r)})
    IN  /\ busy > 2 => version <= 2
        /\ Managed + typed > 0 => version <= 2 /\ busy <= 1
=============================================================================
