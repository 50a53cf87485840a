---------------------------- MODULE MCWorkspace ----------------------------
(* Model values for checking Workspace; tabs are interchangeable.           *)
EXTENDS Workspace, TLC

CONSTANTS t1, t2

\* Bound: the student either types in both tabs, or sends from one and types
\* less; the last key is for one who sends the starter in turn in two modes.
Apart ==
    \/ keys = 0 /\ \A t \in Tabs : tab[t].busy = None
    \/ /\ typed < (IF keys < MaxKeys THEN MaxTexts ELSE 1)
       /\ \A t \in Tabs \ Senders : tab[t].generation = 0 /\ \A n \in DOMAIN stored : stored[n].tab # t
=============================================================================
