---------------------------- MODULE MCClassroom ----------------------------
(* Instances of Classroom for TLC. *)
EXTENDS Classroom, TLC

Symmetry == Permutations(Complete) \cup Permutations(Handlers) \cup Permutations(Groups)

InUse(g) == members[g] # {} \/ \E h \in Handlers : change[h] # None /\ change[h].group = g
Used == {g \in Groups : InUse(g)} \cup closed
Enrolling == {u \in Users : enrolling[u] # None}
Busy == UNION {members[g] : g \in Groups} \cup Enrolling \cup blocked
            \cup {e[1] : e \in enrolled} \cup {u \in Users : holder[u] # None}
Shown == {t \in Tabs : tab[t] # None}
First == \A d \in Drafts : draft[d].revision = 1

\* Bound: the studio works with two tabs while there are no students.  Beside
\* one student and one group it has a tab that is up to date, and publishes the
\* second release or archives the first; beside two it never did anything.
Apart ==
    Busy # {} \/ Used # {} =>
        /\ \A t \in Shown : Matches(t)
        /\ \A d \in Drafts : draft[d].revision <= 3 /\ (draft[d].published > 1 => Len(releases[d]) > 1)
        /\ Cardinality(Shown) + Cardinality(Used) + Cardinality(blocked) <= 2
        /\ Cardinality(Used) > 1 \/ Cardinality(Busy) > 1 => First /\ Shown = {}
        /\ Cardinality(Used) > 1 => Enrolling = {}
=============================================================================
