--------------------------- MODULE WorkspaceProofs ---------------------------
(* Theorems about Workspace, for any tabs, texts, keys and submissions.      *)
EXTENDS Workspace, SequenceTheorems, FiniteSetTheorems, FunctionTheorems, TLAPS

Texts == 0 .. MaxTexts

Pending == [text : Texts, mode : Modes, key : 1 .. MaxKeys]
Page == [text : Texts, revision : Nat, generation : Nat, saved : Nat, conflict : BOOLEAN,
         busy : Modes \cup {None}, active : BOOLEAN, pending : Pending \cup {None},
         basis : Texts]
SaveRequest == [tab : Tabs, text : Texts, generation : Nat, revision : Nat, basis : Texts,
                answer : {None, "saved", "conflict"}]
PostRequest == [text : Texts, mode : Modes, key : 1 .. MaxKeys, intent : Nat,
                answer : {None, "accepted", "refused"}]
Revision == [text : Texts, tab : Tabs \cup {None}, basis : Texts]
Intent == [tab : Tabs, text : Texts, mode : Modes, open : BOOLEAN, held : BOOLEAN, forgotten : Nat]

Types ==
    /\ row \in WorkspaceRow /\ jobs \in Seq(Submission) /\ stored \in Seq(Revision)
    /\ tab \in [Tabs -> Page]
    /\ saving \in [Tabs -> SaveRequest \cup {None}]
    /\ posting \in [Tabs -> PostRequest \cup {None}]
    /\ polling \in [Tabs -> {"no", "idle", "active"}]
    /\ late \subseteq SaveRequest \cup PostRequest
    /\ typed \in Texts /\ keys \in 0 .. MaxKeys /\ intents \in Seq(Intent)

\* One tab's record, request or answer is replaced by another of its type.
LEMMA PageStored ==
    ASSUME tab \in [Tabs -> Page], NEW t \in Tabs, NEW p \in Page, tab' = [tab EXCEPT ![t] = p]
    PROVE  tab' \in [Tabs -> Page] /\ tab'[t] = p /\ \A s \in Tabs : s # t => tab'[s] = tab[s]
OBVIOUS

LEMMA TypedTyped ==
    ASSUME Types, NEW t \in Tabs, NEW text \in Texts, Typed(t, text)
    PROVE  tab' \in [Tabs -> Page]
<1> DEFINE p == [tab[t] EXCEPT !.text = text, !.generation = tab[t].generation + 1]
<1>1. tab[t] \in Page
  BY DEF Types
<1>2. p \in Page
  <2>1. tab[t].generation + 1 \in Nat
    BY <1>1 DEF Page
  <2> DEFINE g == tab[t].generation + 1
  <2> HIDE DEF g
  <2>2. [tab[t] EXCEPT !.text = text, !.generation = g] \in Page
    BY <1>1, <2>1 DEF Page, g
  <2> QED BY <2>2 DEF g
<1>3. tab' = [tab EXCEPT ![t] = p]
  BY DEF Typed
<1> HIDE DEF p
<1> QED BY <1>2, <1>3 DEF Types

\* The fields an edit and a poll leave alone.
LEMMA TypedOnly ==
    ASSUME Types, NEW t \in Tabs, NEW text, Typed(t, text)
    PROVE  /\ \A s \in Tabs : s # t => tab'[s] = tab[s]
           /\ tab'[t].text = text /\ tab'[t].generation = tab[t].generation + 1
           /\ \A s \in Tabs : /\ tab'[s].revision = tab[s].revision /\ tab'[s].basis = tab[s].basis
                              /\ tab'[s].saved = tab[s].saved
                              /\ tab'[s].pending = tab[s].pending
<1>1. tab[t] \in Page /\ \A s \in Tabs : s # t => tab'[s] = tab[s]
  BY DEF Types, Typed
<1>2. tab'[t] = [tab[t] EXCEPT !.text = text, !.generation = tab[t].generation + 1]
  BY DEF Types, Typed
<1> DEFINE g == tab[t].generation + 1
<1>3. tab'[t] = [tab[t] EXCEPT !.text = text, !.generation = g]
  BY <1>2
<1> HIDE DEF g
<1>4. /\ tab'[t].text = text /\ tab'[t].generation = g
      /\ tab'[t].revision = tab[t].revision /\ tab'[t].basis = tab[t].basis
      /\ tab'[t].saved = tab[t].saved
      /\ tab'[t].pending = tab[t].pending
  BY <1>1, <1>3 DEF Page
<1> QED BY <1>1, <1>4 DEF g

LEMMA PollOnly ==
    ASSUME Types, NEW t \in Tabs, Poll(t) \/ PollAnswered(t), NEW s \in Tabs
    PROVE  /\ tab'[s].revision = tab[s].revision /\ tab'[s].basis = tab[s].basis
           /\ tab'[s].saved = tab[s].saved
           /\ tab'[s].pending = tab[s].pending
           /\ tab'[s].text = tab[s].text /\ tab'[s].generation = tab[s].generation
<1>1. tab[t] \in Page
  BY DEF Types
<1> DEFINE a == polling[t] = "active"
           p == [tab[t] EXCEPT !.active = a]
<1> HIDE DEF a
<1>2. /\ p.revision = tab[t].revision /\ p.basis = tab[t].basis
      /\ p.saved = tab[t].saved
      /\ p.pending = tab[t].pending
      /\ p.text = tab[t].text /\ p.generation = tab[t].generation
  BY <1>1 DEF Page
<1>3. tab' = tab \/ tab' = [tab EXCEPT ![t] = p]
  BY DEF Poll, PollAnswered, a
<1> HIDE DEF p
<1>4. tab'[s] = tab[s] \/ (s = t /\ tab'[s] = p)
  BY <1>3 DEF Types
<1> QED BY <1>2, <1>4

\* The server tells the two kinds of request apart by their fields.
LEMMA KindOfRequest ==
    /\ \A r \in PostRequest : "mode" \in DOMAIN r
    /\ \A r \in SaveRequest : "mode" \notin DOMAIN r
BY DEF PostRequest, SaveRequest

\* Giving up adds only what was on its way.
LEMMA AbandonOnly == \A rs : Abandon(rs) => \A r \in late' : r \in late \/ (r \in rs /\ r # None)
BY DEF Abandon

LEMMA LateTyped ==
    ASSUME Types, NEW t \in Tabs, NEW rs \in SUBSET {saving[t], posting[t]}, Abandon(rs)
    PROVE  late' \subseteq SaveRequest \cup PostRequest
BY DEF Types, Abandon

\* What the two handlers do to the tables.
LEMMA SaveTyped ==
    ASSUME Types, NEW r \in SaveRequest, save_workspace(r)
    PROVE  row' \in WorkspaceRow /\ jobs' \in Seq(Submission) /\ stored' \in Seq(Revision)
<1>1. [text |-> r.text, tab |-> r.tab, basis |-> r.basis] \in Revision
  BY DEF SaveRequest, Revision
<1>2. [text |-> r.text, revision |-> row.revision + 1] \in WorkspaceRow
  BY DEF SaveRequest, Types, WorkspaceRow, Texts
<1>3. CASE Kept(r) /\ UNCHANGED jobs
  BY <1>1, <1>2, <1>3 DEF Types, Kept
<1>4. CASE UNCHANGED <<row, stored, jobs>>
  BY <1>4 DEF Types
<1> QED BY <1>3, <1>4 DEF save_workspace

LEMMA SubmitTyped ==
    ASSUME Types, NEW r \in PostRequest, submit(r)
    PROVE  row' \in WorkspaceRow /\ jobs' \in Seq(Submission) /\ stored' \in Seq(Revision)
<1>1. Job(r) \in Submission
  BY DEF Job, PostRequest, Submission, Texts
<1> DEFINE j == Job(r)
<1>2. jobs' = Append(jobs, j) \/ UNCHANGED jobs
  BY DEF submit
<1>3. jobs \in Seq(Submission) /\ UNCHANGED <<row, stored>>
  BY DEF Types, submit
<1> HIDE DEF j
<1>4. jobs' \in Seq(Submission)
  BY <1>1, <1>2, <1>3 DEF j
<1> QED BY <1>3, <1>4 DEF Types

\* The intents a send may be of, and what becomes of all of them.
Sent(t, text, mode) == IF Open(t, text, mode) # {} THEN Open(t, text, mode) ELSE {Len(intents) + 1}
NewIntent(t, text, mode) ==
    [tab |-> t, text |-> text, mode |-> mode, open |-> TRUE, held |-> TRUE, forgotten |-> 0]

LEMMA ForgottenFields ==
    ASSUME Types, NEW t \in Tabs, NEW m \in DOMAIN intents
    PROVE  /\ Forgotten(t, m) \in Intent
           /\ Forgotten(t, m).tab = intents[m].tab /\ Forgotten(t, m).text = intents[m].text
           /\ Forgotten(t, m).mode = intents[m].mode
           /\ \/ Forgotten(t, m) = intents[m] /\ ~(intents[m].tab = t /\ intents[m].held)
              \/ ~Forgotten(t, m).held /\ Forgotten(t, m).forgotten = intents[m].forgotten + 1
<1> DEFINE i == intents[m]
<1>1. i \in Intent /\ i.forgotten + 1 \in Nat
  <2>1. i \in Intent
    BY DEF Types
  <2> QED BY <2>1 DEF Intent
<1> DEFINE f == i.forgotten + 1
           g == [i EXCEPT !.held = FALSE, !.forgotten = f]
<1>2. Forgotten(t, m) = IF i.tab = t /\ i.held THEN g ELSE i
  BY DEF Forgotten
<1>3. /\ g \in Intent /\ g.tab = i.tab /\ g.text = i.text /\ g.mode = i.mode
      /\ ~g.held /\ g.forgotten = f
  <2> HIDE DEF i, f
  <2> QED BY <1>1 DEF Intent, f
<1> HIDE DEF i, g
<1> QED BY <1>1, <1>2, <1>3 DEF i

LEMMA HeldFields ==
    ASSUME Types, NEW m \in DOMAIN intents
    PROVE  LET h == [intents[m] EXCEPT !.held = TRUE]
           IN  /\ h \in Intent /\ h.tab = intents[m].tab /\ h.text = intents[m].text /\ h.mode = intents[m].mode
               /\ h.held /\ h.forgotten = intents[m].forgotten
<1> DEFINE i == intents[m]
<1>1. i \in Intent
  BY DEF Types
<1> HIDE DEF i
<1>2. LET h == [i EXCEPT !.held = TRUE]
      IN  /\ h \in Intent /\ h.tab = i.tab /\ h.text = i.text /\ h.mode = i.mode
          /\ h.held /\ h.forgotten = i.forgotten
  BY <1>1 DEF Intent
<1> QED BY <1>2 DEF i

\* A send adds one intent or takes up one of the tab; it lets go of the others.
WantsOnly(t, text, mode, n) ==
    /\ n \in Nat
    /\ \/ n \in Open(t, text, mode) /\ DOMAIN intents' = DOMAIN intents
       \/ n \notin DOMAIN intents /\ DOMAIN intents' = DOMAIN intents \cup {n}
    /\ \A m \in DOMAIN intents : m # n => intents'[m] = Forgotten(t, m)
    /\ n \in DOMAIN intents => intents'[n] = [intents[n] EXCEPT !.held = TRUE]
    /\ n \notin DOMAIN intents => intents'[n] = NewIntent(t, text, mode)

LEMMA WantFields ==
    ASSUME Types, NEW t, NEW text, NEW mode,
           NEW n \in Sent(t, text, mode), Want(t, text, mode, n)
    PROVE  /\ WantsOnly(t, text, mode, n)
           /\ \E k \in Nat : DOMAIN intents' = 1 .. k /\ intents' = [m \in 1 .. k |-> intents'[m]]
<1>1. DOMAIN intents = 1 .. Len(intents) /\ Len(intents) \in Nat
  BY DEF Types
<1>2. \/ n \in Open(t, text, mode) /\ n \in 1 .. Len(intents)
      \/ n = Len(intents) + 1
  BY <1>1 DEF Sent, Open
<1> DEFINE W(m) ==
        IF m \notin DOMAIN intents THEN NewIntent(t, text, mode)
        ELSE IF m = n THEN [intents[m] EXCEPT !.held = TRUE] ELSE Forgotten(t, m)
<1>3. intents' = [m \in DOMAIN intents \cup {n} |-> W(m)]
  BY DEF Want, NewIntent
<1> HIDE DEF W
<1>4. DOMAIN intents' = DOMAIN intents \cup {n} /\ \A m \in DOMAIN intents \cup {n} : intents'[m] = W(m)
  BY <1>3
<1>5. WantsOnly(t, text, mode, n)
  <2>1. n \in Nat
    BY <1>1, <1>2
  <2>2. \/ n \in Open(t, text, mode) /\ DOMAIN intents' = DOMAIN intents
        \/ n \notin DOMAIN intents /\ DOMAIN intents' = DOMAIN intents \cup {n}
    BY <1>1, <1>2, <1>4
  <2>3. /\ \A m \in DOMAIN intents : m # n => intents'[m] = Forgotten(t, m)
        /\ n \in DOMAIN intents => intents'[n] = [intents[n] EXCEPT !.held = TRUE]
        /\ n \notin DOMAIN intents => intents'[n] = NewIntent(t, text, mode)
    BY <1>4 DEF W
  <2> QED BY <2>1, <2>2, <2>3 DEF WantsOnly
<1>6. ASSUME NEW k \in Nat, DOMAIN intents \cup {n} = 1 .. k
      PROVE  DOMAIN intents' = 1 .. k /\ intents' = [m \in 1 .. k |-> intents'[m]]
  BY <1>3, <1>6
<1>7. DOMAIN intents \cup {n} = 1 .. Len(intents) \/ DOMAIN intents \cup {n} = 1 .. Len(intents) + 1
  BY <1>1, <1>2
<1> QED BY <1>1, <1>5, <1>6, <1>7

LEMMA WantTyped ==
    ASSUME Types, NEW t \in Tabs, NEW text \in Texts, NEW mode \in Modes,
           NEW n \in Sent(t, text, mode), Want(t, text, mode, n)
    PROVE  intents' \in Seq(Intent) /\ n \in Nat
<1>1. WantsOnly(t, text, mode, n)
  BY WantFields
<1>2. PICK k \in Nat : DOMAIN intents' = 1 .. k /\ intents' = [m \in 1 .. k |-> intents'[m]]
  BY WantFields
<1>3. NewIntent(t, text, mode) \in Intent
  BY DEF NewIntent, Intent
<1>4. ASSUME NEW m \in DOMAIN intents PROVE intents'[m] \in Intent
  <2>1. CASE m = n
    BY <1>1, <2>1, HeldFields DEF WantsOnly
  <2>2. CASE m # n
    BY <1>1, <2>2, ForgottenFields DEF WantsOnly
  <2> QED BY <2>1, <2>2
<1>5. \A m \in 1 .. k : intents'[m] \in Intent
  BY <1>1, <1>2, <1>3, <1>4 DEF WantsOnly
<1> QED BY <1>1, <1>2, <1>5 DEF WantsOnly

LEMMA ForgottenTyped ==
    ASSUME Types, NEW t \in Tabs, intents' = [n \in DOMAIN intents |-> Forgotten(t, n)]
    PROVE  intents' \in Seq(Intent)
<1>1. DOMAIN intents = 1 .. Len(intents) /\ Len(intents) \in Nat
  BY DEF Types
<1>2. \A n \in 1 .. Len(intents) : Forgotten(t, n) \in Intent
  BY <1>1, ForgottenFields
<1> QED BY <1>1, <1>2

\* An intent that was answered is neither open nor held.
LEMMA ClosedFields ==
    ASSUME Types, NEW n \in Nat, intents' = [intents EXCEPT ![n] = [@ EXCEPT !.open = FALSE, !.held = FALSE]]
    PROVE  /\ intents' \in Seq(Intent) /\ DOMAIN intents' = DOMAIN intents
           /\ \A m \in DOMAIN intents : m # n => intents'[m] = intents[m]
           /\ n \in DOMAIN intents =>
                 /\ ~intents'[n].open /\ ~intents'[n].held /\ intents'[n].forgotten = intents[n].forgotten
                 /\ intents'[n].tab = intents[n].tab /\ intents'[n].text = intents[n].text
                 /\ intents'[n].mode = intents[n].mode
<1>1. CASE n \notin DOMAIN intents
  <2>1. intents' = intents
    BY <1>1 DEF Types
  <2> QED BY <1>1, <2>1 DEF Types
<1>2. CASE n \in DOMAIN intents
  <2> DEFINE i == intents[n]
             c == [i EXCEPT !.open = FALSE, !.held = FALSE]
  <2>1. i \in Intent
    BY <1>2 DEF Types
  <2>2. intents' = [intents EXCEPT ![n] = c]
    BY <1>2 DEF Types
  <2> HIDE DEF i
  <2>3. /\ c \in Intent /\ ~c.open /\ ~c.held /\ c.forgotten = i.forgotten
        /\ c.tab = i.tab /\ c.text = i.text /\ c.mode = i.mode
    BY <2>1 DEF Intent
  <2> HIDE DEF c
  <2>4. intents \in Seq(Intent)
    BY DEF Types
  <2>5. /\ intents' \in Seq(Intent) /\ DOMAIN intents' = DOMAIN intents /\ intents'[n] = c
        /\ \A m \in DOMAIN intents : m # n => intents'[m] = intents[m]
    BY <1>2, <2>2, <2>3, <2>4
  <2> QED BY <1>2, <2>3, <2>5 DEF i
<1> QED BY <1>1, <1>2

LEMMA TypesInit == Init => Types
BY WorkspaceConstants DEF Init, Loaded, Types, Page, Texts, WorkspaceRow, Revision

LEMMA TypesStep == Types /\ [Next]_vars => Types'
<1> SUFFICES ASSUME Types, [Next]_vars PROVE Types'
  OBVIOUS
<1>1. ASSUME NEW t \in Tabs, Edit(t) PROVE Types'
  <2>1. typed' \in Texts
    BY <1>1, WorkspaceConstants DEF Edit, Types, Texts
  <2> QED BY <1>1, <2>1, TypedTyped DEF Edit, Types, server
<1>2. ASSUME NEW t \in Tabs, ShowSource(t) PROVE Types'
  <2>1. PICK j \in DOMAIN jobs : Typed(t, jobs[j].text)
    BY <1>2 DEF ShowSource
  <2>2. jobs[j].text \in Texts
    <3>1. jobs[j] \in Submission
      BY DEF Types
    <3> QED BY <3>1 DEF Submission, Texts
  <2> QED BY <1>2, <2>1, <2>2, TypedTyped DEF ShowSource, Types, server
<1>3. ASSUME NEW t \in Tabs, Save(t) PROVE Types'
  BY <1>3 DEF Save, Types, server, Page, SaveRequest
<1>4. ASSUME NEW t \in Tabs, SaveHandled(t) PROVE Types'
  <2>1. saving[t] \in SaveRequest /\ save_workspace(saving[t]) /\ Saves(saving[t]) \in {"saved", "conflict"}
    BY <1>4 DEF SaveHandled, Types, Saves
  <2>2. [saving[t] EXCEPT !.answer = Saves(saving[t])] \in SaveRequest
    BY <2>1 DEF SaveRequest
  <2>3. saving' \in [Tabs -> SaveRequest \cup {None}]
    BY <1>4, <2>2 DEF SaveHandled, Types
  <2> QED BY <1>4, <2>1, <2>3, SaveTyped DEF SaveHandled, Types
<1>5. ASSUME NEW t \in Tabs, SaveAnswered(t) PROVE Types'
  <2> DEFINE r == saving[t]
             c == [tab[t] EXCEPT !.conflict = TRUE, !.busy = None]
             s == [tab[t] EXCEPT !.revision = r.revision + 1, !.saved = r.generation, !.basis = r.text]
  <2>1. r \in SaveRequest /\ tab[t] \in Page
    BY <1>5 DEF SaveAnswered, Types
  <2>2. c \in Page /\ s \in Page
    <3>1. r.revision + 1 \in Nat /\ r.generation \in Nat /\ r.text \in Texts
      BY <2>1 DEF SaveRequest
    <3> HIDE DEF r
    <3> QED BY <2>1, <3>1 DEF Page
  <2>3. tab' = [tab EXCEPT ![t] = c] \/ tab' = [tab EXCEPT ![t] = s]
    BY <1>5 DEF SaveAnswered, SavedUpTo
  <2>4. tab' \in [Tabs -> Page]
    BY <2>2, <2>3 DEF Types
  <2> QED BY <1>5, <2>4 DEF SaveAnswered, Types, server
<1>6. ASSUME NEW t \in Tabs, SaveLost(t) PROVE Types'
  <2>1. tab' \in [Tabs -> Page]
    <3>1. /\ tab \in [Tabs -> Page] /\ tab[t] \in Page
      BY DEF Types
    <3>2. [tab[t] EXCEPT !.busy = None] \in Page
      BY <3>1 DEF Page
    <3> QED BY <1>6, <3>1, <3>2 DEF SaveLost
  <2> QED BY <1>6, <2>1, LateTyped DEF SaveLost, Types, server
<1>7. ASSUME NEW t \in Tabs, Click(t) PROVE Types'
  <2>1. PICK mode \in Modes : tab' = [tab EXCEPT ![t].busy = mode]
    BY <1>7 DEF Click
  <2>2. tab' \in [Tabs -> Page]
    <3>1. tab \in [Tabs -> Page] /\ tab[t] \in Page
      BY DEF Types
    <3>2. [tab[t] EXCEPT !.busy = mode] \in Page
      BY <3>1 DEF Page
    <3> QED BY <2>1, <3>1, <3>2
  <2> QED BY <1>7, <2>2 DEF Click, Types, server
<1>8. ASSUME NEW t \in Tabs, Send(t) PROVE Types'
  <2> DEFINE p == tab[t]
             again == p.pending # None /\ p.pending.text = p.text /\ p.pending.mode = p.busy
             key == IF again THEN p.pending.key ELSE keys + 1
             pending == [text |-> p.text, mode |-> p.busy, key |-> key]
             sent == [p EXCEPT !.pending = pending]
  <2>1. p \in Page /\ p.busy \in Modes
    BY <1>8 DEF Send, Types, Page
  <2>2. key \in 1 .. MaxKeys /\ keys' \in 0 .. MaxKeys
    <3>1. keys \in 0 .. MaxKeys /\ MaxKeys \in Nat
      BY WorkspaceConstants DEF Types
    <3>2. again => p.pending.key \in 1 .. MaxKeys
      BY <2>1 DEF Page, Pending
    <3>3. keys' = (IF key > keys THEN key ELSE keys) /\ key <= MaxKeys
      BY <1>8 DEF Send, Retried
    <3> HIDE DEF again
    <3> QED BY <3>1, <3>2, <3>3
  <2>3. PICK n \in Sent(t, p.text, p.busy) :
          /\ Want(t, p.text, p.busy, n)
          /\ posting' = [posting EXCEPT ![t] = [text |-> p.text, mode |-> p.busy, key |-> key,
                                                intent |-> n, answer |-> None]]
    BY <1>8 DEF Send, Retried, Sent
  <2> DEFINE request == [text |-> p.text, mode |-> p.busy, key |-> key, intent |-> n, answer |-> None]
  <2>4. tab' = [tab EXCEPT ![t] = sent] /\ posting' = [posting EXCEPT ![t] = request]
    BY <1>8, <2>3 DEF Send, Retried
  <2>5. intents' \in Seq(Intent) /\ n \in Nat
    <3>1. p.text \in Texts /\ p.busy \in Modes
      BY <2>1 DEF Page
    <3> HIDE DEF p
    <3> QED BY <2>3, <3>1, WantTyped
  <2> HIDE DEF key
  <2>6. pending \in Pending /\ request \in PostRequest
    BY <2>1, <2>2, <2>5 DEF Page, Pending, PostRequest
  <2>7. sent \in Page
    BY <2>1, <2>2, <2>6 DEF Page
  <2>8. tab' \in [Tabs -> Page] /\ posting' \in [Tabs -> PostRequest \cup {None}]
    BY <2>4, <2>6, <2>7 DEF Types
  <2> QED BY <1>8, <2>2, <2>5, <2>8 DEF Send, Types, server
<1>9. ASSUME NEW t \in Tabs, PostHandled(t) PROVE Types'
  <2>1. posting[t] \in PostRequest /\ submit(posting[t])
    BY <1>9 DEF PostHandled, Types
  <2>2. \A a \in {"accepted", "refused"} : [posting[t] EXCEPT !.answer = a] \in PostRequest
    BY <2>1 DEF PostRequest
  <2>3. posting' \in [Tabs -> PostRequest \cup {None}]
    BY <1>9, <2>2 DEF PostHandled, Types
  <2> QED BY <1>9, <2>1, <2>3, SubmitTyped DEF PostHandled, Types
<1>10. ASSUME NEW t \in Tabs, PostAnswered(t) PROVE Types'
  <2> DEFINE f == [tab[t] EXCEPT !.busy = None]
             a == [tab[t] EXCEPT !.busy = None, !.pending = None, !.active = TRUE]
  <2>1. f \in Page /\ a \in Page
    <3>1. tab[t] \in Page
      BY DEF Types
    <3>2. f \in Page
      BY <3>1 DEF Page
    <3>3. [f EXCEPT !.pending = None] \in Page
      <4> HIDE DEF f
      <4> QED BY <3>2 DEF Page
    <3> DEFINE g == [f EXCEPT !.pending = None]
    <3>4. a = [g EXCEPT !.active = TRUE]
      BY <3>1 DEF Page
    <3> HIDE DEF a, g
    <3>5. a \in Page
      BY <3>3, <3>4 DEF Page, g
    <3> QED BY <3>2, <3>5
  <2>2. tab' = [tab EXCEPT ![t] = f] \/ tab' = [tab EXCEPT ![t] = a]
    BY <1>10 DEF PostAnswered
  <2>3. tab' \in [Tabs -> Page]
    BY <2>1, <2>2 DEF Types
  <2>4. intents' \in Seq(Intent)
    <3>1. CASE UNCHANGED intents
      BY <3>1 DEF Types
    <3>2. CASE intents' = [intents EXCEPT ![posting[t].intent] = [@ EXCEPT !.open = FALSE, !.held = FALSE]]
      <4>1. posting[t].intent \in Nat
        BY <1>10 DEF PostAnswered, Types, PostRequest
      <4> QED BY <3>2, <4>1, ClosedFields
    <3> QED BY <1>10, <3>1, <3>2 DEF PostAnswered
  <2> QED BY <1>10, <2>3, <2>4 DEF PostAnswered, Types, server
<1>11. ASSUME NEW t \in Tabs, PostLost(t) PROVE Types'
  <2>1. tab' \in [Tabs -> Page]
    <3>1. /\ tab \in [Tabs -> Page] /\ tab[t] \in Page
      BY DEF Types
    <3>2. [tab[t] EXCEPT !.busy = None] \in Page
      BY <3>1 DEF Page
    <3> QED BY <1>11, <3>1, <3>2 DEF PostLost
  <2> QED BY <1>11, <2>1, LateTyped DEF PostLost, Types, server
<1>12. ASSUME NEW t \in Tabs, Poll(t) \/ PollAnswered(t) PROVE Types'
  <2>1. tab' \in [Tabs -> Page]
    <3>1. [tab[t] EXCEPT !.active = (polling[t] = "active")] \in Page
      <4>1. tab[t] \in Page
        BY DEF Types
      <4> QED BY <4>1 DEF Page
    <3> QED BY <1>12, <3>1 DEF Poll, PollAnswered, Types
  <2> QED BY <1>12, <2>1 DEF Poll, PollAnswered, Types, server
<1>13. ASSUME NEW t \in Tabs, Reload(t) PROVE Types'
  <2>1. Loaded \in Page
    BY DEF Types, Loaded, Page, WorkspaceRow, Texts
  <2>2. tab' \in [Tabs -> Page]
    BY <1>13, <2>1 DEF Reload, Types
  <2>3. intents' \in Seq(Intent)
    BY <1>13, ForgottenTyped DEF Reload
  <2> QED BY <1>13, <2>2, <2>3, LateTyped DEF Reload, Types, server
<1>14. ASSUME LateHandled PROVE Types'
  <2>1. PICK r \in late : /\ late' = late \ {r}
                          /\ IF "mode" \in DOMAIN r THEN submit(r) ELSE save_workspace(r)
    BY <1>14 DEF LateHandled
  <2>2. \/ r \in PostRequest /\ submit(r)
        \/ r \in SaveRequest /\ save_workspace(r)
    BY <2>1, KindOfRequest DEF Types
  <2> QED BY <1>14, <2>1, <2>2, SaveTyped, SubmitTyped DEF LateHandled, Types
<1>15. ASSUME NEW j \in DOMAIN jobs, End(j) PROVE Types'
  <2>1. [jobs[j] EXCEPT !.active = FALSE] \in Submission
    <3>1. jobs[j] \in Submission
      BY DEF Types
    <3> QED BY <3>1 DEF Submission
  <2>2. jobs' \in Seq(Submission)
    BY <1>15, <2>1 DEF End, Types
  <2> QED BY <1>15, <2>2 DEF End, Types
<1>16. CASE UNCHANGED vars
  BY <1>16 DEF vars, server, Types
<1> QED
  BY <1>1, <1>2, <1>3, <1>4, <1>5, <1>6, <1>7, <1>8, <1>9, <1>10, <1>11, <1>12, <1>13,
     <1>14, <1>15, <1>16 DEF Next

(***************************************************************************)
(* The inductive invariant.                                                *)
(***************************************************************************)
\* text was stored as that revision.
Knows(revision, text) == revision + 1 \in DOMAIN stored /\ stored[revision + 1].text = text

\* The row is what was stored last, and every page and request really knows
\* what it takes for stored: this is what comparing revisions relies on.
RowFollows == Len(stored) = row.revision + 1 /\ stored[Len(stored)].text = row.text
PagesKnow == \A t \in Tabs : Knows(tab[t].revision, tab[t].basis)
SavesKnow == \A t \in Tabs : saving[t] # None =>
                 /\ Knows(saving[t].revision, saving[t].basis)
                 /\ saving[t].answer = "saved" => Knows(saving[t].revision + 1, saving[t].text)
LateKnow == \A r \in late : r \in SaveRequest => Knows(r.revision, r.basis)
History == RowFollows /\ NothingOverwrittenUnseen /\ PagesKnow /\ SavesKnow /\ LateKnow

\* What the counters of typing and saving of a page mean.
Follows(p, r) ==
    /\ p.saved <= p.generation
    /\ p.saved = p.generation => p.basis = p.text
    /\ r # None => r.generation <= p.generation /\ (r.generation = p.generation => r.text = p.text)
Shown == \A t \in Tabs : Follows(tab[t], saving[t])

\* The requests that reached, or may still reach, the server: the intent and
\* the key each carries.  And the keys pages would send an intent with again.
Carriers == {jobs[j] : j \in DOMAIN jobs} \cup {posting[t] : t \in {u \in Tabs : posting[u] # None}}
                \cup {r \in late : r \in PostRequest}
Sends == {<<r.intent, r.key>> : r \in Carriers}
Again == {<<n, tab[intents[n].tab].pending.key>> : n \in {m \in DOMAIN intents : intents[m].held}}
Stamps == Sends \cup Again

Said(S, n) == {x \in S : x[1] = n}
Few(A, k) == IsFiniteSet(A) /\ Cardinality(A) <= k

\* An intent has one key, and one more for each time it was forgotten; one of
\* these is still to be made while it is open and no page holds it.
KeysFew ==
    /\ \A x \in Stamps : x[1] \in DOMAIN intents
    /\ \A n \in DOMAIN intents : Few(Said(Stamps, n), 1 + intents[n].forgotten)
    /\ \A n \in DOMAIN intents : intents[n].open /\ ~intents[n].held => Few(Said(Stamps, n), intents[n].forgotten)

\* What is held is what the page would send again, and what it is sending.
Has(p, r, n) ==
    /\ p.pending # None /\ p.pending.text = intents[n].text /\ p.pending.mode = intents[n].mode
    /\ r # None => r.intent = n
Held == \A n \in DOMAIN intents : intents[n].held => Has(tab[intents[n].tab], posting[intents[n].tab], n)

OneJobPerKey == \A i, j \in DOMAIN jobs : jobs[i].key = jobs[j].key => i = j
Sending == KeysFew /\ Held /\ OneJobPerKey

KeysMade == \A t \in Tabs : tab[t].pending # None => tab[t].pending.key <= keys
OneActive == \A i, j \in ActiveJobs : i = j

WorkspaceInv == Types /\ History /\ Shown /\ Sending /\ KeysMade /\ OneActive

(***************************************************************************)
(* What is known stays known.                                              *)
(***************************************************************************)
Grows == \A n \in DOMAIN stored : n \in DOMAIN stored' /\ stored'[n] = stored[n]

LEMMA StillKnown ==
    ASSUME Grows, NEW revision, NEW text, Knows(revision, text)
    PROVE  Knows(revision, text)'
BY DEF Grows, Knows

\* A page's revision is one the row has had.
LEMMA KnownRevision ==
    ASSUME Types, NEW revision \in Nat, NEW text, Knows(revision, text)
    PROVE  revision + 1 \in 1 .. Len(stored)
BY DEF Types, Knows

\* After a save the revision that follows has what was sent.
KnowsNext(r) == r.revision + 2 \in DOMAIN stored' /\ stored'[r.revision + 2].text = r.text

LEMMA StoredOnce ==
    ASSUME Types, RowFollows, NothingOverwrittenUnseen, NEW r \in SaveRequest,
           Knows(r.revision, r.basis), save_workspace(r)
    PROVE  /\ RowFollows' /\ NothingOverwrittenUnseen' /\ Grows
           /\ Saves(r) = "saved" => KnowsNext(r)
<1>1. CASE Current(r.revision)
  <2> DEFINE e == [text |-> r.text, tab |-> r.tab, basis |-> r.basis]
  <2>1. stored' = Append(stored, e) /\ row' = [text |-> r.text, revision |-> row.revision + 1]
    BY <1>1 DEF save_workspace, Kept
  <2>2. e \in Revision /\ e.text = r.text /\ e.basis = r.basis
    BY DEF SaveRequest, Revision
  <2> HIDE DEF e
  <2>3. /\ Len(stored') = Len(stored) + 1 /\ stored'[Len(stored')] = e
        /\ \A n \in 1 .. Len(stored) : stored'[n] = stored[n]
        /\ DOMAIN stored = 1 .. Len(stored) /\ DOMAIN stored' = 1 .. Len(stored) + 1
    BY <2>1, <2>2 DEF Types
  <2>4. row.revision \in Nat /\ Len(stored) = row.revision + 1 /\ r.revision = row.revision
    BY <1>1 DEF Types, RowFollows, WorkspaceRow, Current
  <2>5. RowFollows' /\ Grows
    BY <2>1, <2>2, <2>3, <2>4 DEF RowFollows, Grows
  <2>6. NothingOverwrittenUnseen'
    <3> SUFFICES ASSUME NEW n \in 2 .. Len(stored')
                 PROVE  stored'[n].basis = stored'[n - 1].text
      BY DEF NothingOverwrittenUnseen
    <3>1. CASE n = Len(stored')
      BY <3>1, <2>2, <2>3, <2>4 DEF Knows
    <3>2. CASE n # Len(stored')
      BY <3>2, <2>3, <2>4 DEF NothingOverwrittenUnseen
    <3> QED BY <3>1, <3>2
  <2>7. KnowsNext(r)
    BY <2>2, <2>3, <2>4 DEF KnowsNext
  <2> QED BY <2>5, <2>6, <2>7
<1>2. CASE ~Current(r.revision)
  BY <1>2 DEF save_workspace, Saves, RowFollows, NothingOverwrittenUnseen, Grows
<1> QED BY <1>1, <1>2

\* The two other ways the server's tables change leave the row alone.
LEMMA RowUntouched ==
    ASSUME UNCHANGED <<row, stored>>, RowFollows, NothingOverwrittenUnseen
    PROVE  RowFollows' /\ NothingOverwrittenUnseen' /\ Grows
BY DEF RowFollows, NothingOverwrittenUnseen, Grows

LEMMA LateKnown ==
    ASSUME Types, SavesKnow, LateKnow, Grows, NEW t \in Tabs,
           NEW rs \in SUBSET {saving[t], posting[t]}, Abandon(rs)
    PROVE  LateKnow'
<1> SUFFICES ASSUME NEW r \in late', r \in SaveRequest PROVE Knows(r.revision, r.basis)'
  BY DEF LateKnow
<1>1. r \in late \/ (r = saving[t] /\ r # None) \/ (r = posting[t] /\ r # None)
  <2>1. \A q \in rs : q = saving[t] \/ q = posting[t]
    OBVIOUS
  <2> QED BY <2>1, AbandonOnly
<1>2. r # posting[t] \/ posting[t] = None
  BY KindOfRequest DEF Types
<1>3. Knows(r.revision, r.basis)
  BY <1>1, <1>2 DEF LateKnow, SavesKnow
<1> QED BY <1>3, StillKnown

LEMMA HistoryInit == Init => History
BY DEF Init, Loaded, History, RowFollows, NothingOverwrittenUnseen, PagesKnow, SavesKnow, LateKnow, Knows

\* Pages, saves and late requests whose revision and basis are as they were.
LEMMA StillKnows ==
    ASSUME PagesKnow, SavesKnow, LateKnow, Grows
    PROVE  /\ (\A t \in Tabs : tab'[t].revision = tab[t].revision /\ tab'[t].basis = tab[t].basis) => PagesKnow'
           /\ saving' = saving => SavesKnow'
           /\ \A t \in Tabs : saving' = [saving EXCEPT ![t] = None] /\ saving \in [Tabs -> SaveRequest \cup {None}] => SavesKnow'
           /\ late' \subseteq late => LateKnow'
BY DEF PagesKnow, SavesKnow, LateKnow, Grows, Knows

LEMMA HistoryStep == Types /\ History /\ [Next]_vars => History'
<1> SUFFICES ASSUME Types, History, [Next]_vars PROVE History'
  OBVIOUS
<1> USE DEF History
<1>1. ASSUME NEW t \in Tabs, Edit(t) \/ ShowSource(t) PROVE History'
  <2>1. \A s \in Tabs : tab'[s].revision = tab[s].revision /\ tab'[s].basis = tab[s].basis
    BY <1>1, TypedOnly DEF Edit, ShowSource
  <2> QED BY <1>1, <2>1, RowUntouched, StillKnows DEF Edit, ShowSource, server
<1>2. ASSUME NEW t \in Tabs, Save(t) PROVE History'
  <2>1. SavesKnow'
    <3>1. \A s \in Tabs : s # t => saving'[s] = saving[s]
      BY <1>2 DEF Save, Types
    <3>2. /\ saving'[t].revision = tab[t].revision /\ saving'[t].basis = tab[t].basis
          /\ saving'[t].answer = None
      BY <1>2 DEF Save, Types
    <3> QED BY <1>2, <3>1, <3>2, WorkspaceConstants DEF Save, server, SavesKnow, PagesKnow, Knows
  <2> QED BY <1>2, <2>1, RowUntouched, StillKnows DEF Save, server
<1>3. ASSUME NEW t \in Tabs, SaveHandled(t) PROVE History'
  <2>1. saving[t] \in SaveRequest /\ save_workspace(saving[t]) /\ Knows(saving[t].revision, saving[t].basis)
    BY <1>3 DEF SaveHandled, Types, SavesKnow
  <2>2. /\ RowFollows' /\ NothingOverwrittenUnseen' /\ Grows
        /\ Saves(saving[t]) = "saved" => KnowsNext(saving[t])
    BY <2>1, StoredOnce
  <2>3. SavesKnow'
    BY <1>3, <2>2 DEF SaveHandled, SavesKnow, Knows, Grows, KnowsNext, Types, SaveRequest
  <2> QED BY <1>3, <2>2, <2>3, StillKnows DEF SaveHandled
<1>4. ASSUME NEW t \in Tabs, SaveAnswered(t) PROVE History'
  <2> DEFINE r == saving[t]
             c == [tab[t] EXCEPT !.conflict = TRUE, !.busy = None]
             a == [tab[t] EXCEPT !.revision = r.revision + 1, !.saved = r.generation, !.basis = r.text]
  <2>1. r \in SaveRequest /\ tab[t] \in Page /\ r.answer \in {"saved", "conflict"}
    BY <1>4 DEF SaveAnswered, Types, SaveRequest
  <2>2. Grows /\ RowFollows' /\ NothingOverwrittenUnseen' /\ saving' = [saving EXCEPT ![t] = None] /\ late' = late
    BY <1>4, RowUntouched DEF SaveAnswered, server
  <2>3. \/ r.answer = "conflict" /\ tab' = [tab EXCEPT ![t] = c]
        \/ r.answer = "saved" /\ tab' = [tab EXCEPT ![t] = a]
    BY <1>4, <2>1 DEF SaveAnswered, SavedUpTo
  <2>4. c.revision = tab[t].revision /\ c.basis = tab[t].basis /\ a.revision = r.revision + 1 /\ a.basis = r.text
    BY <2>1 DEF Page
  <2>5. r.answer = "saved" => Knows(r.revision + 1, r.text)
    BY <1>4 DEF SavesKnow, SaveAnswered
  <2> HIDE DEF r, c, a
  <2>6. \A s \in Tabs : Knows(tab'[s].revision, tab'[s].basis)
    BY <2>3, <2>4, <2>5 DEF PagesKnow, Types
  <2>7. PagesKnow'
    BY <1>4, <2>6 DEF PagesKnow, Knows, SaveAnswered, server
  <2> QED BY <2>2, <2>7, StillKnows DEF Types
<1>5. ASSUME NEW t \in Tabs, SaveLost(t) PROVE History'
  <2>1. \A s \in Tabs : tab'[s].revision = tab[s].revision /\ tab'[s].basis = tab[s].basis
    BY <1>5 DEF SaveLost, Types, Page
  <2> QED BY <1>5, <2>1, RowUntouched, StillKnows, LateKnown DEF SaveLost, server, Types
<1>6. ASSUME NEW t \in Tabs, Click(t) \/ Send(t) PROVE History'
  <2>1. CASE Click(t)
    <3>1. \A s \in Tabs : tab'[s].revision = tab[s].revision /\ tab'[s].basis = tab[s].basis
      BY <2>1 DEF Click, Types, Page
    <3> QED BY <2>1, <3>1, RowUntouched, StillKnows DEF Click, server
  <2>2. CASE Send(t)
    <3>1. \A s \in Tabs : tab'[s].revision = tab[s].revision /\ tab'[s].basis = tab[s].basis
      BY <2>2 DEF Send, Types, Page
    <3> QED BY <2>2, <3>1, RowUntouched, StillKnows DEF Send, server
  <2> QED BY <1>6, <2>1, <2>2
<1>7. ASSUME NEW t \in Tabs, PostHandled(t) PROVE History'
  BY <1>7, RowUntouched, StillKnows DEF PostHandled, submit
<1>8. ASSUME NEW t \in Tabs, PostAnswered(t) PROVE History'
  <2>1. \A s \in Tabs : tab'[s].revision = tab[s].revision /\ tab'[s].basis = tab[s].basis
    BY <1>8 DEF PostAnswered, Types, Page
  <2> QED BY <1>8, <2>1, RowUntouched, StillKnows DEF PostAnswered, server
<1>9. ASSUME NEW t \in Tabs, PostLost(t) PROVE History'
  <2>1. \A s \in Tabs : tab'[s].revision = tab[s].revision /\ tab'[s].basis = tab[s].basis
    BY <1>9 DEF PostLost, Types, Page
  <2> QED BY <1>9, <2>1, RowUntouched, StillKnows, LateKnown DEF PostLost, server
<1>10. ASSUME NEW t \in Tabs, Poll(t) \/ PollAnswered(t) PROVE History'
  <2>1. \A s \in Tabs : tab'[s].revision = tab[s].revision /\ tab'[s].basis = tab[s].basis
    BY <1>10, PollOnly
  <2> QED BY <1>10, <2>1, RowUntouched, StillKnows DEF Poll, PollAnswered, server
<1>11. ASSUME NEW t \in Tabs, Reload(t) PROVE History'
  <2>1. Knows(row.revision, row.text)
    BY DEF Knows, RowFollows, Types, WorkspaceRow
  <2>2. \A s \in Tabs : Knows(tab'[s].revision, tab'[s].basis)
    BY <1>11, <2>1 DEF Reload, Loaded, PagesKnow, Types
  <2>3. PagesKnow'
    BY <1>11, <2>2 DEF PagesKnow, Knows, Reload, server
  <2> QED BY <1>11, <2>3, RowUntouched, StillKnows, LateKnown DEF Reload, server, Types
<1>12. ASSUME LateHandled PROVE History'
  <2>1. PICK r \in late : /\ late' = late \ {r}
                          /\ IF "mode" \in DOMAIN r THEN submit(r) ELSE save_workspace(r)
    BY <1>12 DEF LateHandled
  <2>2. CASE r \in PostRequest
    <3>1. submit(r)
      BY <2>1, <2>2, KindOfRequest
    <3> QED BY <1>12, <2>1, <3>1, RowUntouched, StillKnows DEF LateHandled, submit
  <2>3. CASE r \in SaveRequest
    <3>1. save_workspace(r) /\ Knows(r.revision, r.basis)
      BY <2>1, <2>3, KindOfRequest DEF LateKnow
    <3>2. RowFollows' /\ NothingOverwrittenUnseen' /\ Grows
      BY <2>3, <3>1, StoredOnce
    <3> QED BY <1>12, <2>1, <3>2, StillKnows DEF LateHandled
  <2> QED BY <2>2, <2>3 DEF Types
<1>13. ASSUME NEW j \in DOMAIN jobs, End(j) PROVE History'
  BY <1>13, RowUntouched, StillKnows DEF End
<1>14. CASE UNCHANGED vars
  BY <1>14, RowUntouched, StillKnows DEF vars, server
<1> QED
  BY <1>1, <1>2, <1>3, <1>4, <1>5, <1>6, <1>7, <1>8, <1>9, <1>10, <1>11, <1>12, <1>13, <1>14 DEF Next

(***************************************************************************)
(* What a page shows as saved.                                             *)
(***************************************************************************)
LEMMA ShownInit == Init => Shown
BY DEF Init, Loaded, Shown, Follows

\* Pages and saves of which what Shown speaks about is as it was.
LEMMA StillShown ==
    ASSUME Shown, NEW s \in Tabs,
           tab'[s].saved = tab[s].saved, tab'[s].generation = tab[s].generation,
           tab'[s].basis = tab[s].basis, tab'[s].text = tab[s].text,
           saving'[s] = saving[s] \/ saving'[s] = None
    PROVE  Follows(tab[s], saving[s])'
BY DEF Shown, Follows

LEMMA ShownStep == Types /\ Shown /\ [Next]_vars => Shown'
<1> SUFFICES ASSUME Types, Shown, [Next]_vars, NEW s \in Tabs PROVE Follows(tab[s], saving[s])'
  BY DEF Shown
<1>0. tab[s] \in Page /\ Follows(tab[s], saving[s])
  BY DEF Types, Shown
<1>1. ASSUME NEW t \in Tabs, Edit(t) \/ ShowSource(t) PROVE Follows(tab[s], saving[s])'
  <2>1. PICK text : Typed(t, text) /\ saving' = saving
    BY <1>1 DEF Edit, ShowSource
  <2>2. CASE s = t
    <3>1. tab'[s].saved < tab'[s].generation /\ tab'[s].generation = tab[s].generation + 1
      BY <1>0, <2>1, <2>2, TypedOnly DEF Page, Follows
    <3>2. /\ tab[s].generation \in Nat /\ tab[s].saved \in Nat /\ tab'[s].saved = tab[s].saved
          /\ saving[s] # None => saving[s].generation \in Nat /\ saving[s].generation <= tab[s].generation
      BY <1>0, <2>1, TypedOnly DEF Types, Page, Follows, SaveRequest
    <3> QED BY <2>1, <3>1, <3>2 DEF Follows
  <2>3. CASE s # t
    BY <2>1, <2>3, TypedOnly, StillShown
  <2> QED BY <2>2, <2>3
<1>2. ASSUME NEW t \in Tabs, Save(t) PROVE Follows(tab[s], saving[s])'
  <2>1. CASE s = t
    BY <1>0, <1>2, <2>1 DEF Save, Types, Follows, Page, server
  <2>2. CASE s # t
    BY <1>0, <1>2, <2>2, StillShown DEF Save, Types, server
  <2> QED BY <2>1, <2>2
<1>3. ASSUME NEW t \in Tabs, SaveHandled(t) PROVE Follows(tab[s], saving[s])'
  <2>1. tab' = tab /\ saving' = [saving EXCEPT ![t] = [saving[t] EXCEPT !.answer = Saves(saving[t])]]
    BY <1>3 DEF SaveHandled
  <2>2. saving[t] \in SaveRequest /\ saving[t] # None
    BY <1>3 DEF SaveHandled, Types
  <2>3. CASE s = t
    <3> DEFINE a == Saves(saving[t])
    <3> HIDE DEF a
    <3>1. saving'[s] = [saving[t] EXCEPT !.answer = a]
      BY <2>1, <2>3 DEF Types, a
    <3>2. saving'[s].generation = saving[s].generation /\ saving'[s].text = saving[s].text
      BY <2>2, <2>3, <3>1 DEF SaveRequest
    <3> QED BY <1>0, <2>1, <2>2, <2>3, <3>2 DEF Follows
  <2>4. CASE s # t
    BY <2>1, <2>4, StillShown DEF Types
  <2> QED BY <2>3, <2>4
<1>4. ASSUME NEW t \in Tabs, SaveAnswered(t) PROVE Follows(tab[s], saving[s])'
  <2> DEFINE r == saving[t]
             n == r.revision + 1
             c == [tab[t] EXCEPT !.conflict = TRUE, !.busy = None]
             a == [tab[t] EXCEPT !.revision = n, !.saved = r.generation, !.basis = r.text]
  <2>1. r \in SaveRequest /\ r # None /\ tab[t] \in Page /\ Follows(tab[t], r)
    BY <1>4 DEF SaveAnswered, Types, Shown
  <2>2. saving' = [saving EXCEPT ![t] = None] /\ (tab' = [tab EXCEPT ![t] = c] \/ tab' = [tab EXCEPT ![t] = a])
    BY <1>4 DEF SaveAnswered, SavedUpTo
  <2> HIDE DEF n
  <2>3. /\ c.saved = tab[t].saved /\ c.generation = tab[t].generation
        /\ c.basis = tab[t].basis /\ c.text = tab[t].text
        /\ a.saved = r.generation /\ a.generation = tab[t].generation
        /\ a.basis = r.text /\ a.text = tab[t].text
    BY <2>1 DEF Page
  <2> HIDE DEF r, c, a
  <2>4. Follows(c, None) /\ Follows(a, None)
    BY <2>1, <2>3 DEF Follows, SaveRequest, Page
  <2>5. CASE s = t
    <3>1. saving'[s] = None /\ (tab'[s] = c \/ tab'[s] = a)
      BY <2>2, <2>5 DEF Types
    <3> QED BY <2>4, <3>1 DEF Follows
  <2>6. CASE s # t
    BY <2>2, <2>6, StillShown DEF Types
  <2> QED BY <2>5, <2>6
<1>5. ASSUME NEW t \in Tabs, Reload(t) PROVE Follows(tab[s], saving[s])'
  <2>1. CASE s = t
    BY <1>5, <2>1 DEF Reload, Types, Loaded, Follows
  <2>2. CASE s # t
    BY <1>5, <2>2, StillShown DEF Reload, Types
  <2> QED BY <2>1, <2>2
<1>6. ASSUME NEW t \in Tabs, SaveLost(t) \/ PostLost(t) PROVE Follows(tab[s], saving[s])'
  <2>1. /\ saving'[s] = saving[s] \/ saving'[s] = None
        /\ tab' = [tab EXCEPT ![t].busy = None]
    BY <1>6 DEF SaveLost, PostLost, server, Types
  <2> QED BY <1>0, <2>1, StillShown DEF Types, Page
<1>7. ASSUME NEW t \in Tabs, Click(t) PROVE Follows(tab[s], saving[s])'
  <2>1. PICK mode \in Modes : tab' = [tab EXCEPT ![t].busy = mode]
    BY <1>7 DEF Click
  <2>2. /\ tab'[s].saved = tab[s].saved /\ tab'[s].generation = tab[s].generation
        /\ tab'[s].basis = tab[s].basis /\ tab'[s].text = tab[s].text
    BY <1>0, <2>1 DEF Types, Page
  <2> QED BY <1>7, <2>2, StillShown DEF Click
<1>8. ASSUME NEW t \in Tabs, Send(t) PROVE Follows(tab[s], saving[s])'
  BY <1>0, <1>8, StillShown DEF Send, Types, Page
<1>9. ASSUME NEW t \in Tabs, PostAnswered(t) PROVE Follows(tab[s], saving[s])'
  BY <1>0, <1>9, StillShown DEF PostAnswered, Types, Page
<1>10. ASSUME NEW t \in Tabs, Poll(t) \/ PollAnswered(t) PROVE Follows(tab[s], saving[s])'
  BY <1>10, StillShown, PollOnly DEF Poll, PollAnswered
<1>11. CASE (\E t \in Tabs : PostHandled(t)) \/ LateHandled \/ (\E j \in DOMAIN jobs : End(j)) \/ UNCHANGED vars
  BY <1>11, StillShown DEF PostHandled, LateHandled, End, vars
<1> QED
  BY <1>1, <1>2, <1>3, <1>4, <1>5, <1>6, <1>7, <1>8, <1>9, <1>10, <1>11 DEF Next

(***************************************************************************)
(* What is sent under which key.                                           *)
(***************************************************************************)
\* A request carries this attempt under this key.
Carries(r, x) == x = <<r.intent, r.key>>

LEMMA SendsParts ==
    /\ \A x : x \in Sends <=> \/ \E j \in DOMAIN jobs : Carries(jobs[j], x)
                              \/ \E t \in Tabs : posting[t] # None /\ Carries(posting[t], x)
                              \/ \E r \in late : r \in PostRequest /\ Carries(r, x)
    /\ \A x : x \in Sends' <=> \/ \E j \in DOMAIN jobs' : Carries(jobs'[j], x)
                               \/ \E t \in Tabs : posting'[t] # None /\ Carries(posting'[t], x)
                               \/ \E r \in late' : r \in PostRequest /\ Carries(r, x)
BY DEF Sends, Carriers, Carries

\* The server makes a job only of what was sent to it, and one of a key.
LEMMA SubmitSends ==
    ASSUME Types, OneJobPerKey, OneActive, NEW r \in PostRequest, submit(r)
    PROVE  /\ \A j \in DOMAIN jobs' : \/ j \in DOMAIN jobs /\ jobs'[j] = jobs[j]
                                      \/ \A x : Carries(jobs'[j], x) => Carries(r, x)
           /\ OneJobPerKey' /\ OneActive'
<1>1. CASE UNCHANGED jobs
  BY <1>1 DEF OneJobPerKey, OneActive, ActiveJobs
<1>2. CASE Known(r.key) = {} /\ ActiveJobs = {} /\ jobs' = Append(jobs, Job(r))
  <2>1. Job(r).key = r.key /\ Job(r).intent = r.intent
    BY DEF Job
  <2>2. /\ DOMAIN jobs = 1 .. Len(jobs) /\ DOMAIN jobs' = 1 .. Len(jobs) + 1
        /\ jobs'[Len(jobs) + 1] = Job(r) /\ \A j \in DOMAIN jobs : jobs'[j] = jobs[j]
        /\ Len(jobs) \in Nat
    BY <1>2 DEF Types
  <2>3. \A j \in DOMAIN jobs' : j \in DOMAIN jobs \/ j = Len(jobs) + 1
    BY <2>2
  <2>4. OneJobPerKey'
    BY <1>2, <2>1, <2>2, <2>3 DEF OneJobPerKey, Known
  <2>5. OneActive'
    BY <1>2, <2>2, <2>3 DEF OneActive, ActiveJobs
  <2> QED BY <2>1, <2>2, <2>3, <2>4, <2>5 DEF Carries
<1> QED BY <1>1, <1>2 DEF submit

LEMMA SendingInit == Init => Sending /\ KeysMade /\ OneActive
<1> SUFFICES ASSUME Init PROVE Sending /\ KeysMade /\ OneActive
  OBVIOUS
<1>1. DOMAIN intents = {} /\ DOMAIN jobs = {}
  BY DEF Init
<1>2. \A x : x \notin Sends
  BY <1>1, SendsParts DEF Init
<1>3. KeysFew /\ Held
  BY <1>1, <1>2 DEF KeysFew, Held, Stamps, Again
<1> QED BY <1>1, <1>3 DEF Init, Loaded, Sending, OneJobPerKey, KeysMade, OneActive, ActiveJobs

LEMMA StampParts ==
    /\ \A x : x \in Stamps <=> \/ x \in Sends
                               \/ \E n \in DOMAIN intents : /\ intents[n].held
                                                            /\ x = <<n, tab[intents[n].tab].pending.key>>
    /\ \A x : x \in Stamps' <=> \/ x \in Sends'
                                \/ \E n \in DOMAIN intents' : /\ intents'[n].held
                                                              /\ x = <<n, tab'[intents'[n].tab].pending.key>>
BY DEF Stamps, Again

LEMMA IntentOf ==
    ASSUME Types, NEW n \in DOMAIN intents
    PROVE  intents[n] \in Intent /\ intents[n].tab \in Tabs /\ intents[n].forgotten \in Nat
<1>1. intents[n] \in Intent
  BY DEF Types
<1> QED BY <1>1 DEF Intent

LEMMA FewLess ==
    ASSUME NEW S, NEW T \in SUBSET S, NEW n, NEW k \in Nat, NEW m \in Nat, k <= m,
           Few(Said(S, n), k)
    PROVE  Few(Said(T, n), m)
<1>1. Said(T, n) \in SUBSET Said(S, n)
  BY DEF Said
<1>2. IsFiniteSet(Said(S, n)) /\ Cardinality(Said(S, n)) <= k
  BY DEF Few
<1>3. IsFiniteSet(Said(T, n)) /\ Cardinality(Said(T, n)) <= Cardinality(Said(S, n))
  BY <1>1, <1>2, FS_Subset
<1>4. Cardinality(Said(T, n)) \in Nat /\ Cardinality(Said(S, n)) \in Nat
  BY <1>2, <1>3, FS_CardinalityType
<1>5. Cardinality(Said(T, n)) <= m
  BY <1>2, <1>3, <1>4
<1> QED BY <1>3, <1>5 DEF Few

LEMMA FewMore ==
    ASSUME NEW S, NEW y, NEW T \in SUBSET (S \cup {y}), NEW n, NEW k \in Nat, Few(Said(S, n), k)
    PROVE  Few(Said(T, n), 1 + k)
<1> DEFINE A == Said(S, n)
           B == A \cup {y}
<1>1. IsFiniteSet(A) /\ Cardinality(A) <= k
  BY DEF Few
<1>2. Said(T, n) \in SUBSET B
  BY DEF Said
<1>3. IsFiniteSet(B) /\ (Cardinality(B) = Cardinality(A) \/ Cardinality(B) = Cardinality(A) + 1)
  BY <1>1, FS_AddElement
<1>4. IsFiniteSet(Said(T, n)) /\ Cardinality(Said(T, n)) <= Cardinality(B)
  BY <1>2, <1>3, FS_Subset
<1>5. Cardinality(A) \in Nat /\ Cardinality(B) \in Nat /\ Cardinality(Said(T, n)) \in Nat
  BY <1>1, <1>3, <1>4, FS_CardinalityType
<1>6. Cardinality(Said(T, n)) <= 1 + k
  BY <1>1, <1>3, <1>4, <1>5
<1> QED BY <1>4, <1>6 DEF Few

\* A step that sends nothing new: what was promised of the keys still holds.
LEMMA NothingSent ==
    ASSUME Types, KeysFew, Held, KeysMade, \A x \in Sends' : x \in Sends, keys' = keys, intents' = intents,
           \A s \in Tabs : /\ tab'[s].pending = tab[s].pending
                           /\ posting'[s] # None => posting[s] # None /\ posting'[s].intent = posting[s].intent
    PROVE  KeysFew' /\ Held' /\ KeysMade'
<1>1. Stamps' \in SUBSET Stamps
  <2> SUFFICES ASSUME NEW x \in Stamps' PROVE x \in Stamps
    OBVIOUS
  <2>1. CASE x \in Sends'
    BY <2>1, StampParts
  <2>2. CASE x \notin Sends'
    <3>1. PICK n \in DOMAIN intents : intents[n].held /\ x = <<n, tab'[intents[n].tab].pending.key>>
      BY <2>2, StampParts
    <3>2. tab'[intents[n].tab].pending = tab[intents[n].tab].pending
      BY IntentOf
    <3> QED BY <3>1, <3>2, StampParts
  <2> QED BY <2>1, <2>2
<1>2. KeysFew'
  <2>1. ASSUME NEW n \in DOMAIN intents PROVE Few(Said(Stamps', n), 1 + intents[n].forgotten)
    <3>1. intents[n].forgotten \in Nat /\ 1 + intents[n].forgotten \in Nat
      BY IntentOf
    <3>2. Few(Said(Stamps, n), 1 + intents[n].forgotten)
      BY DEF KeysFew
    <3> QED BY <1>1, <3>1, <3>2, FewLess
  <2>2. ASSUME NEW n \in DOMAIN intents, intents[n].open, ~intents[n].held
        PROVE  Few(Said(Stamps', n), intents[n].forgotten)
    <3>1. intents[n].forgotten \in Nat /\ Few(Said(Stamps, n), intents[n].forgotten)
      BY <2>2, IntentOf DEF KeysFew
    <3> QED BY <1>1, <3>1, FewLess
  <2>3. \A x \in Stamps' : x[1] \in DOMAIN intents
    BY <1>1 DEF KeysFew
  <2> QED BY <2>1, <2>2, <2>3 DEF KeysFew, Said
<1>3. Held'
  BY IntentOf DEF Held, Has
<1>4. KeysMade'
  BY DEF KeysMade
<1> QED BY <1>2, <1>3, <1>4

\* A tab lets go of what it holds: its intents were answered, or are forgotten.
LetsGo(t, n) ==
    /\ intents'[n].tab = intents[n].tab /\ intents'[n].text = intents[n].text /\ intents'[n].mode = intents[n].mode
    /\ ~(intents'[n].tab = t /\ intents'[n].held)
    /\ \/ intents'[n] = intents[n]
       \/ ~intents'[n].held /\ intents'[n].forgotten = intents[n].forgotten + 1
       \/ ~intents'[n].held /\ ~intents'[n].open /\ intents'[n].forgotten = intents[n].forgotten

\* An intent whose keys are among those it had, and that may have been let go.
LEMMA StillFew ==
    ASSUME Types, KeysFew, NEW t, NEW n \in DOMAIN intents, LetsGo(t, n), NEW T, Said(T, n) \subseteq Said(Stamps, n)
    PROVE  /\ Few(Said(T, n), 1 + intents'[n].forgotten)
           /\ intents'[n].open /\ ~intents'[n].held => Few(Said(T, n), intents'[n].forgotten)
<1> DEFINE f == intents[n].forgotten
           U == Said(T, n)
<1>1. f \in Nat /\ 1 + f \in Nat /\ 1 + (f + 1) \in Nat /\ f + 1 = 1 + f /\ 1 + f <= 1 + (f + 1)
  BY IntentOf
<1>2. Few(Said(Stamps, n), 1 + f) /\ (intents[n].open /\ ~intents[n].held => Few(Said(Stamps, n), f))
  BY DEF KeysFew
<1>3. U \in SUBSET Stamps /\ Said(U, n) = U
  BY DEF Said
<1> HIDE DEF f, U
<1>4. Few(U, 1 + f) /\ Few(U, 1 + (f + 1)) /\ (intents[n].open /\ ~intents[n].held => Few(U, f))
  <2>1. Few(Said(U, n), 1 + f)
    BY <1>1, <1>2, <1>3, FewLess
  <2>2. Few(Said(U, n), 1 + (f + 1))
    BY <1>1, <1>2, <1>3, FewLess
  <2>3. intents[n].open /\ ~intents[n].held => Few(Said(U, n), f)
    BY <1>1, <1>2, <1>3, FewLess
  <2> QED BY <1>3, <2>1, <2>2, <2>3
<1> QED BY <1>1, <1>4 DEF LetsGo, f, U

LEMMA LetGo ==
    ASSUME Types, KeysFew, Held, KeysMade, NEW t \in Tabs, \A x \in Sends' : x \in Sends, keys' = keys,
           \A s \in Tabs : s # t => tab'[s] = tab[s] /\ posting'[s] = posting[s],
           tab'[t].pending = None, DOMAIN intents' = DOMAIN intents,
           \A n \in DOMAIN intents : LetsGo(t, n)
    PROVE  KeysFew' /\ Held' /\ KeysMade'
<1>1. ASSUME NEW n \in DOMAIN intents, intents'[n].held
      PROVE  intents'[n] = intents[n] /\ intents[n].tab \in Tabs /\ intents[n].tab # t
  BY <1>1, IntentOf DEF LetsGo
<1>2. \A x \in Stamps' : x \in Stamps
  <2> SUFFICES ASSUME NEW x \in Stamps' PROVE x \in Stamps
    OBVIOUS
  <2>1. CASE x \in Sends'
    BY <2>1, StampParts
  <2>2. CASE x \notin Sends'
    <3>1. PICK n \in DOMAIN intents : intents'[n].held /\ x = <<n, tab'[intents'[n].tab].pending.key>>
      BY <2>2, StampParts
    <3> QED BY <1>1, <3>1, StampParts
  <2> QED BY <2>1, <2>2
<1>3. ASSUME NEW n \in DOMAIN intents
      PROVE  /\ Few(Said(Stamps', n), 1 + intents'[n].forgotten)
             /\ intents'[n].open /\ ~intents'[n].held => Few(Said(Stamps', n), intents'[n].forgotten)
  <2>1. LetsGo(t, n) /\ Said(Stamps', n) \subseteq Said(Stamps, n)
    BY <1>2 DEF Said
  <2> QED BY <2>1, StillFew
<1>4. KeysFew'
  BY <1>2, <1>3 DEF KeysFew, Said
<1>5. Held'
  BY <1>1 DEF Held, Has
<1>6. KeysMade'
  BY DEF KeysMade
<1> QED BY <1>4, <1>5, <1>6

LEMMA JobsUntouched ==
    ASSUME UNCHANGED jobs, OneJobPerKey, OneActive
    PROVE  OneJobPerKey' /\ OneActive'
BY DEF OneJobPerKey, OneActive, ActiveJobs

LEMMA SendingStep == Types /\ Sending /\ KeysMade /\ OneActive /\ [Next]_vars
                        => Sending' /\ KeysMade' /\ OneActive'
<1> SUFFICES ASSUME Types, Sending, KeysMade, OneActive, [Next]_vars
             PROVE  Sending' /\ KeysMade' /\ OneActive'
  OBVIOUS
<1> USE DEF Sending
<1>1. ASSUME NEW t \in Tabs, Edit(t) \/ ShowSource(t) PROVE Sending' /\ KeysMade' /\ OneActive'
  <2>1. PICK text : Typed(t, text)
    BY <1>1 DEF Edit, ShowSource
  <2>2. jobs' = jobs /\ posting' = posting /\ late' = late /\ keys' = keys /\ intents' = intents
    BY <1>1 DEF Edit, ShowSource, server
  <2>3. \A x \in Sends' : x \in Sends
    BY <2>2, SendsParts
  <2> QED BY <2>1, <2>2, <2>3, NothingSent, JobsUntouched, TypedOnly
<1>2. ASSUME NEW t \in Tabs, Save(t) PROVE Sending' /\ KeysMade' /\ OneActive'
  <2>1. tab' = tab /\ jobs' = jobs /\ posting' = posting /\ late' = late /\ keys' = keys /\ intents' = intents
    BY <1>2 DEF Save, server
  <2>2. \A x \in Sends' : x \in Sends
    BY <2>1, SendsParts
  <2> QED BY <2>1, <2>2, NothingSent, JobsUntouched
<1>3. ASSUME NEW t \in Tabs, SaveHandled(t) PROVE Sending' /\ KeysMade' /\ OneActive'
  <2>1. tab' = tab /\ jobs' = jobs /\ posting' = posting /\ late' = late /\ keys' = keys /\ intents' = intents
    BY <1>3 DEF SaveHandled, save_workspace
  <2>2. \A x \in Sends' : x \in Sends
    BY <2>1, SendsParts
  <2> QED BY <2>1, <2>2, NothingSent, JobsUntouched
<1>4. ASSUME NEW t \in Tabs, SaveAnswered(t) PROVE Sending' /\ KeysMade' /\ OneActive'
  <2>1. jobs' = jobs /\ posting' = posting /\ late' = late /\ keys' = keys /\ intents' = intents
    BY <1>4 DEF SaveAnswered, server
  <2>2. \A x \in Sends' : x \in Sends
    BY <2>1, SendsParts
  <2>3. \A s \in Tabs : tab'[s].pending = tab[s].pending
    <3> DEFINE n == saving[t].revision + 1
               g == saving[t].generation
               x == saving[t].text
               c == [tab[t] EXCEPT !.conflict = TRUE, !.busy = None]
               a == [tab[t] EXCEPT !.revision = n, !.saved = g, !.basis = x]
    <3>1. tab' = [tab EXCEPT ![t] = c] \/ tab' = [tab EXCEPT ![t] = a]
      BY <1>4 DEF SaveAnswered, SavedUpTo
    <3> HIDE DEF n, g, x
    <3>2. c.pending = tab[t].pending /\ a.pending = tab[t].pending
      <4>1. tab[t] \in Page
        BY DEF Types
      <4> QED BY <4>1 DEF Page
    <3> HIDE DEF c, a
    <3> QED BY <3>1, <3>2 DEF Types
  <2> QED BY <2>1, <2>2, <2>3, NothingSent, JobsUntouched
<1>5. ASSUME NEW t \in Tabs, SaveLost(t) PROVE Sending' /\ KeysMade' /\ OneActive'
  <2>1. jobs' = jobs /\ posting' = posting /\ keys' = keys /\ intents' = intents /\ tab' = [tab EXCEPT ![t].busy = None]
    BY <1>5 DEF SaveLost, server
  <2>2. \A r \in late' : r \in late \/ (r = saving[t] /\ r # None)
    BY <1>5, AbandonOnly DEF SaveLost
  <2>3. \A r \in late' : r \in PostRequest => r \in late
    BY <2>2, KindOfRequest DEF Types
  <2>4. \A x \in Sends' : x \in Sends
    BY <2>1, <2>3, SendsParts
  <2>5. \A s \in Tabs : tab'[s].pending = tab[s].pending
    BY <2>1 DEF Types, Page
  <2> QED BY <2>1, <2>4, <2>5, NothingSent, JobsUntouched
<1>6. ASSUME NEW t \in Tabs, Click(t) PROVE Sending' /\ KeysMade' /\ OneActive'
  <2>1. PICK mode \in Modes : tab' = [tab EXCEPT ![t].busy = mode]
    BY <1>6 DEF Click
  <2>2. \A s \in Tabs : tab'[s].pending = tab[s].pending
    BY <2>1 DEF Types, Page
  <2>3. jobs' = jobs /\ posting' = posting /\ late' = late /\ keys' = keys /\ intents' = intents
    BY <1>6 DEF Click, server
  <2>4. \A x \in Sends' : x \in Sends
    BY <2>3, SendsParts
  <2> QED BY <2>2, <2>3, <2>4, NothingSent, JobsUntouched
<1>7. ASSUME NEW t \in Tabs, Send(t) PROVE Sending' /\ KeysMade' /\ OneActive'
  <2> DEFINE p == tab[t]
             again == p.pending # None /\ p.pending.text = p.text /\ p.pending.mode = p.busy
             key == IF again THEN p.pending.key ELSE keys + 1
             pending == [text |-> p.text, mode |-> p.busy, key |-> key]
             sent == [p EXCEPT !.pending = pending]
  <2>1. PICK n \in Sent(t, p.text, p.busy) :
          /\ Want(t, p.text, p.busy, n)
          /\ posting' = [posting EXCEPT ![t] = [text |-> p.text, mode |-> p.busy, key |-> key,
                                                intent |-> n, answer |-> None]]
    BY <1>7 DEF Send, Retried, Sent
  <2> DEFINE request == [text |-> p.text, mode |-> p.busy, key |-> key, intent |-> n, answer |-> None]
  <2>2. /\ tab' = [tab EXCEPT ![t] = sent] /\ posting' = [posting EXCEPT ![t] = request]
        /\ keys' = (IF key > keys THEN key ELSE keys)
        /\ jobs' = jobs /\ late' = late
    BY <1>7, <2>1 DEF Send, Retried, server
  <2>3. p \in Page /\ keys \in Nat /\ key \in Int /\ (again => key <= keys)
    BY DEF Types, Page, Pending, KeysMade
  <2>4. again => key = p.pending.key
    OBVIOUS
  <2>5. WantsOnly(t, p.text, p.busy, n)
    BY <2>1, WantFields
  <2>17. pending # None
    <3>1. p.text \in Texts /\ p.busy \in Modes
      BY <1>7, <2>3 DEF Send, Page
    <3>2. again => p.pending.key \in 1 .. MaxKeys
      BY <2>3 DEF Page, Pending
    <3>3. key <= MaxKeys
      BY <1>7 DEF Send, Retried
    <3>4. key \in 1 .. MaxKeys
      <4> HIDE DEF again
      <4> QED BY <2>3, <3>2, <3>3, WorkspaceConstants
    <3> HIDE DEF p, key
    <3> QED BY <3>1, <3>4, WorkspaceConstants DEF Texts
  <2> HIDE DEF key
  <2>6. /\ sent.pending = pending /\ pending.key = key /\ pending.text = p.text /\ pending.mode = p.busy
        /\ request.key = key /\ request.intent = n
    BY <2>3 DEF Page
  <2>7. /\ \A s \in Tabs : tab'[s] = (IF s = t THEN sent ELSE tab[s])
        /\ \A s \in Tabs : posting'[s] = (IF s = t THEN request ELSE posting[s])
    BY <2>2 DEF Types
  <2> HIDE DEF pending, sent, request
  \* The intents there are: the one sent, and those of other tabs or let go.
  <2>8. n \in DOMAIN intents' /\ intents'[n].tab = t /\ intents'[n].text = p.text
        /\ intents'[n].mode = p.busy /\ intents'[n].held
    <3>1. CASE n \in DOMAIN intents
      <4>1. n \in Open(t, p.text, p.busy) /\ intents'[n] = [intents[n] EXCEPT !.held = TRUE]
            /\ DOMAIN intents' = DOMAIN intents
        BY <2>5, <3>1 DEF WantsOnly
      <4> QED BY <3>1, <4>1, HeldFields DEF Open
    <3>2. CASE n \notin DOMAIN intents
      <4>1. n \in DOMAIN intents' /\ intents'[n] = NewIntent(t, p.text, p.busy)
        BY <2>5, <3>2 DEF WantsOnly, Open
      <4> QED BY <4>1 DEF NewIntent
    <3> QED BY <3>1, <3>2
  <2>9. ASSUME NEW m \in DOMAIN intents', m # n
        PROVE  /\ m \in DOMAIN intents /\ LetsGo(t, m)
               /\ intents'[m].held => intents'[m] = intents[m] /\ intents[m].tab \in Tabs /\ intents[m].tab # t
    <3>1. m \in DOMAIN intents /\ intents'[m] = Forgotten(t, m)
      BY <2>5, <2>9 DEF WantsOnly
    <3> QED BY <3>1, ForgottenFields, IntentOf DEF LetsGo
  <2>10. \A x \in Sends' : x \in Sends \/ x = <<n, key>>
    BY <2>2, <2>6, <2>7, SendsParts DEF Carries
  <2>11. \A x \in Stamps' : x \in Stamps \/ x = <<n, key>>
    <3> SUFFICES ASSUME NEW x \in Stamps', x \notin Sends' PROVE x \in Stamps \/ x = <<n, key>>
      BY <2>10, StampParts
    <3>1. PICK m \in DOMAIN intents' : intents'[m].held /\ x = <<m, tab'[intents'[m].tab].pending.key>>
      BY StampParts
    <3>2. CASE m = n
      BY <2>6, <2>7, <2>8, <3>1, <3>2
    <3>3. CASE m # n
      <4>1. /\ m \in DOMAIN intents /\ intents'[m] = intents[m]
            /\ tab'[intents[m].tab] = tab[intents[m].tab]
        BY <2>7, <2>9, <3>1, <3>3
      <4> QED BY <3>1, <4>1, StampParts
    <3> QED BY <3>2, <3>3
  <2>12. Few(Said(Stamps', n), 1 + intents'[n].forgotten)
    <3> DEFINE y == <<n, key>>
    <3>1. Stamps' \in SUBSET (Stamps \cup {y})
      BY <2>11
    <3>2. y[1] = n
      OBVIOUS
    <3> HIDE DEF y
    <3>6. ASSUME NEW k \in Nat, Few(Said(Stamps, n), k) PROVE Few(Said(Stamps', n), 1 + k)
      BY <3>1, <3>6, FewMore
    <3>3. CASE n \notin DOMAIN intents
      <4>1. intents'[n].forgotten = 0 /\ \A x \in Stamps : x[1] # n
        BY <2>5, <3>3 DEF WantsOnly, NewIntent, KeysFew
      <4>2. Said(Stamps, n) = {}
        BY <4>1 DEF Said
      <4>3. Few(Said(Stamps, n), 0)
        BY <4>2, FS_EmptySet DEF Few
      <4> QED BY <3>6, <4>1, <4>3
    <3>4. CASE n \in DOMAIN intents /\ ~intents[n].held
      <4>1. intents'[n].forgotten = intents[n].forgotten /\ intents[n].forgotten \in Nat
        BY <2>5, <3>4, HeldFields, IntentOf DEF WantsOnly
      <4>2. Few(Said(Stamps, n), intents[n].forgotten)
        BY <2>5, <3>4 DEF WantsOnly, Open, KeysFew
      <4> QED BY <3>6, <4>1, <4>2
    \* Held already: the page sends it under the key it has.
    <3>5. CASE n \in DOMAIN intents /\ intents[n].held
      <4>1. /\ intents'[n].forgotten = intents[n].forgotten
            /\ intents[n].forgotten \in Nat /\ 1 + intents[n].forgotten \in Nat
        <5>1. intents[n].forgotten \in Nat
          BY <3>5, IntentOf
        <5>2. intents'[n] = [intents[n] EXCEPT !.held = TRUE]
          BY <2>5, <3>5 DEF WantsOnly
        <5> QED BY <3>5, <5>1, <5>2, HeldFields
      <4>2. intents[n].tab = t /\ intents[n].text = p.text /\ intents[n].mode = p.busy
        BY <2>5, <3>5 DEF WantsOnly, Open
      <4>3. again
        BY <3>5, <4>2 DEF Held, Has
      <4>4. y \in Stamps
        BY <2>4, <3>5, <4>2, <4>3, StampParts DEF y
      <4>5. Stamps' \in SUBSET Stamps /\ Few(Said(Stamps, n), 1 + intents[n].forgotten)
        BY <3>1, <3>5, <4>4 DEF KeysFew
      <4> QED BY <4>1, <4>5, FewLess
    <3> QED BY <3>3, <3>4, <3>5
  <2>13. ASSUME NEW m \in DOMAIN intents', m # n
         PROVE  /\ Few(Said(Stamps', m), 1 + intents'[m].forgotten)
                /\ intents'[m].open /\ ~intents'[m].held => Few(Said(Stamps', m), intents'[m].forgotten)
    <3>1. m \in DOMAIN intents /\ LetsGo(t, m)
      BY <2>9, <2>13
    <3>2. Said(Stamps', m) \subseteq Said(Stamps, m)
      BY <2>11, <2>13 DEF Said
    <3> QED BY <3>1, <3>2, StillFew
  <2>14. KeysFew'
    <3>1. \A x \in Stamps' : x[1] \in DOMAIN intents'
      BY <2>5, <2>8, <2>11 DEF KeysFew, WantsOnly
    <3> QED BY <2>8, <2>12, <2>13, <3>1 DEF KeysFew, Said
  <2>15. Held'
    <3> SUFFICES ASSUME NEW m \in DOMAIN intents', intents'[m].held
                 PROVE  Has(tab[intents[m].tab], posting[intents[m].tab], m)'
      BY DEF Held
    <3>1. CASE m = n
      <4>1. pending # None
        BY <2>17
      <4> QED BY <2>6, <2>7, <2>8, <3>1, <4>1 DEF Has
    <3>2. CASE m # n
      BY <2>7, <2>9, <3>2 DEF Held, Has
    <3> QED BY <3>1, <3>2
  <2>16. KeysMade'
    <3>1. keys' \in Int /\ key <= keys' /\ keys <= keys'
      BY <2>2, <2>3
    <3>2. \A s \in Tabs : tab[s].pending # None => tab[s].pending.key \in Nat
      BY DEF Types, Page, Pending
    <3> QED BY <2>3, <2>6, <2>7, <3>1, <3>2 DEF KeysMade
  <2> QED BY <2>2, <2>14, <2>15, <2>16, JobsUntouched
<1>8. ASSUME NEW t \in Tabs, PostHandled(t) PROVE Sending' /\ KeysMade' /\ OneActive'
  <2>1. posting[t] \in PostRequest /\ posting[t] # None /\ submit(posting[t]) /\ tab' = tab /\ late' = late /\ keys' = keys /\ intents' = intents
    BY <1>8 DEF PostHandled, Types
  <2> DEFINE a == IF \E j \in DOMAIN jobs' : jobs'[j].key = posting[t].key THEN "accepted" ELSE "refused"
             r == [posting[t] EXCEPT !.answer = a]
  <2>2. posting' = [posting EXCEPT ![t] = r]
    BY <1>8 DEF PostHandled
  <2> HIDE DEF a
  <2>3. r.intent = posting[t].intent /\ r.key = posting[t].key
    BY <2>1 DEF PostRequest
  <2> HIDE DEF r
  <2>4. \A s \in Tabs : posting'[s] = posting[s] \/ (s = t /\ posting'[s] = r)
    BY <2>2 DEF Types
  <2>5. \A x \in Sends' : x \in Sends
    BY <2>1, <2>3, <2>4, SubmitSends, SendsParts DEF Carries
  <2>6. \A s \in Tabs : posting'[s] # None => posting[s] # None /\ posting'[s].intent = posting[s].intent
    BY <2>1, <2>3, <2>4
  <2> QED BY <2>1, <2>5, <2>6, SubmitSends, NothingSent
<1>9. ASSUME NEW t \in Tabs, PostAnswered(t) PROVE Sending' /\ KeysMade' /\ OneActive'
  <2> DEFINE r == posting[t]
  <2>1. jobs' = jobs /\ late' = late /\ keys' = keys /\ posting' = [posting EXCEPT ![t] = None] /\ r # None
    BY <1>9 DEF PostAnswered, server
  <2>2. \A x \in Sends' : x \in Sends
    BY <2>1, SendsParts DEF Types
  <2>3. CASE r.answer = "refused"
    <3>1. tab' = [tab EXCEPT ![t].busy = None] /\ intents' = intents
      BY <1>9, <2>3 DEF PostAnswered
    <3>2. \A s \in Tabs : tab'[s].pending = tab[s].pending
      BY <3>1 DEF Types, Page
    <3>3. \A s \in Tabs : posting'[s] # None => posting'[s] = posting[s]
      BY <2>1 DEF Types
    <3> QED BY <2>1, <2>2, <3>1, <3>2, <3>3, NothingSent, JobsUntouched
  <2>4. CASE r.answer # "refused"
    <3>1. /\ tab' = [tab EXCEPT ![t] = [@ EXCEPT !.busy = None, !.pending = None, !.active = TRUE]]
          /\ intents' = [intents EXCEPT ![r.intent] = [@ EXCEPT !.open = FALSE, !.held = FALSE]]
      BY <1>9, <2>4 DEF PostAnswered
    <3>2. /\ tab'[t].pending = None
          /\ \A s \in Tabs : s # t => tab'[s] = tab[s] /\ posting'[s] = posting[s]
      BY <2>1, <3>1 DEF Types, Page
    <3>3. r.intent \in Nat
      BY <2>1 DEF Types, PostRequest
    <3>4. DOMAIN intents' = DOMAIN intents
      BY <3>1, <3>3, ClosedFields
    <3>5. ASSUME NEW n \in DOMAIN intents PROVE LetsGo(t, n)
      <4>1. CASE n = r.intent
        BY <3>1, <3>3, <4>1, ClosedFields DEF LetsGo
      <4>2. CASE n # r.intent
        <5>1. intents'[n] = intents[n]
          BY <3>1, <3>3, <4>2, ClosedFields
        <5>2. ~(intents[n].tab = t /\ intents[n].held)
          BY <2>1, <4>2 DEF Held, Has
        <5> QED BY <5>1, <5>2 DEF LetsGo
      <4> QED BY <4>1, <4>2
    <3> QED BY <2>1, <2>2, <3>2, <3>4, <3>5, LetGo, JobsUntouched
  <2> QED BY <2>3, <2>4
<1>10. ASSUME NEW t \in Tabs, PostLost(t) PROVE Sending' /\ KeysMade' /\ OneActive'
  <2>1. /\ jobs' = jobs /\ posting' = [posting EXCEPT ![t] = None] /\ posting[t] # None
        /\ keys' = keys /\ intents' = intents /\ tab' = [tab EXCEPT ![t].busy = None]
    BY <1>10 DEF PostLost, server
  <2>2. \A r \in late' : r \in late \/ r = posting[t]
    BY <1>10, AbandonOnly DEF PostLost
  <2>3. \A x \in Sends' : x \in Sends
    BY <2>1, <2>2, SendsParts DEF Types
  <2>4. \A s \in Tabs : /\ tab'[s].pending = tab[s].pending
                        /\ posting'[s] # None => posting'[s] = posting[s]
    BY <2>1 DEF Types, Page
  <2> QED BY <2>1, <2>3, <2>4, NothingSent, JobsUntouched
<1>11. ASSUME NEW t \in Tabs, Poll(t) \/ PollAnswered(t) PROVE Sending' /\ KeysMade' /\ OneActive'
  <2>1. jobs' = jobs /\ posting' = posting /\ late' = late /\ keys' = keys /\ intents' = intents
    BY <1>11 DEF Poll, PollAnswered, server
  <2>2. \A x \in Sends' : x \in Sends
    BY <2>1, SendsParts
  <2> QED BY <1>11, <2>1, <2>2, NothingSent, JobsUntouched, PollOnly
<1>12. ASSUME NEW t \in Tabs, Reload(t) PROVE Sending' /\ KeysMade' /\ OneActive'
  <2>1. /\ jobs' = jobs /\ posting' = [posting EXCEPT ![t] = None]
        /\ keys' = keys /\ tab' = [tab EXCEPT ![t] = Loaded]
        /\ intents' = [n \in DOMAIN intents |-> Forgotten(t, n)]
    BY <1>12 DEF Reload, server
  <2>2. \A r \in late' : r \in late \/ (r = saving[t] /\ r # None) \/ (r = posting[t] /\ r # None)
    BY <1>12, AbandonOnly DEF Reload
  <2>3. \A r \in late' : r \in PostRequest => r \in late \/ (r = posting[t] /\ r # None)
    BY <2>2, KindOfRequest DEF Types
  <2>4. \A x \in Sends' : x \in Sends
    BY <2>1, <2>3, SendsParts DEF Types
  <2>5. /\ tab'[t].pending = None
        /\ \A s \in Tabs : s # t => tab'[s] = tab[s] /\ posting'[s] = posting[s]
    BY <2>1 DEF Types, Loaded
  <2>6. DOMAIN intents' = DOMAIN intents /\ \A n \in DOMAIN intents : intents'[n] = Forgotten(t, n)
    BY <2>1
  <2>7. \A n \in DOMAIN intents : LetsGo(t, n)
    BY <2>6, ForgottenFields DEF LetsGo
  <2> QED BY <2>1, <2>4, <2>5, <2>6, <2>7, LetGo, JobsUntouched
<1>13. ASSUME LateHandled PROVE Sending' /\ KeysMade' /\ OneActive'
  <2>1. PICK r \in late : /\ late' = late \ {r}
                          /\ IF "mode" \in DOMAIN r THEN submit(r) ELSE save_workspace(r)
    BY <1>13 DEF LateHandled
  <2>2. tab' = tab /\ posting' = posting /\ keys' = keys /\ intents' = intents
    BY <1>13 DEF LateHandled
  <2>3. CASE r \in PostRequest
    <3>1. submit(r)
      BY <2>1, <2>3, KindOfRequest
    <3>2. \A x \in Sends' : x \in Sends
      BY <2>1, <2>2, <2>3, <3>1, SubmitSends, SendsParts
    <3> QED BY <2>2, <2>3, <3>1, <3>2, SubmitSends, NothingSent
  <2>4. CASE r \in SaveRequest
    <3>1. jobs' = jobs
      BY <2>1, <2>4, KindOfRequest DEF save_workspace
    <3>2. \A x \in Sends' : x \in Sends
      BY <2>1, <2>2, <3>1, SendsParts
    <3> QED BY <2>2, <3>1, <3>2, NothingSent, JobsUntouched
  <2> QED BY <2>3, <2>4 DEF Types
<1>14. ASSUME NEW j \in DOMAIN jobs, End(j) PROVE Sending' /\ KeysMade' /\ OneActive'
  <2>1. tab' = tab /\ posting' = posting /\ late' = late /\ keys' = keys /\ intents' = intents
    BY <1>14 DEF End
  <2> DEFINE e == [jobs[j] EXCEPT !.active = FALSE]
  <2>2. jobs' = [jobs EXCEPT ![j] = e]
    BY <1>14 DEF End
  <2>3. jobs[j] \in Submission
    BY DEF Types
  <2>4. e.key = jobs[j].key /\ e.intent = jobs[j].intent /\ e.active = FALSE
    BY <2>3 DEF Submission
  <2> HIDE DEF e
  <2>5. DOMAIN jobs' = DOMAIN jobs /\ \A i \in DOMAIN jobs : jobs'[i] = IF i = j THEN e ELSE jobs[i]
    BY <2>2 DEF Types
  <2>6. \A i \in DOMAIN jobs : jobs'[i].key = jobs[i].key /\ jobs'[i].intent = jobs[i].intent
    BY <2>4, <2>5
  <2>7. \A x \in Sends' : x \in Sends
    <3>1. \A i \in DOMAIN jobs' : i \in DOMAIN jobs /\ \A x : Carries(jobs'[i], x) => Carries(jobs[i], x)
      BY <2>5, <2>6 DEF Carries
    <3> QED BY <2>1, <3>1, SendsParts
  <2>8. OneJobPerKey'
    BY <2>5, <2>6 DEF OneJobPerKey
  <2>9. OneActive'
    <3>1. \A i \in ActiveJobs' : i \in ActiveJobs
      BY <2>4, <2>5 DEF ActiveJobs
    <3> QED BY <3>1 DEF OneActive
  <2> QED BY <2>1, <2>7, <2>8, <2>9, NothingSent
<1>15. CASE UNCHANGED vars
  <2>1. tab' = tab /\ jobs' = jobs /\ posting' = posting /\ late' = late /\ keys' = keys /\ intents' = intents
    BY <1>15 DEF vars, server
  <2>2. \A x \in Sends' : x \in Sends
    BY <2>1, SendsParts
  <2> QED BY <2>1, <2>2, NothingSent, JobsUntouched
<1> QED
  BY <1>1, <1>2, <1>3, <1>4, <1>5, <1>6, <1>7, <1>8, <1>9, <1>10, <1>11, <1>12, <1>13,
     <1>14, <1>15 DEF Next

(***************************************************************************)
(* The theorems.                                                           *)
(***************************************************************************)
LEMMA InvariantInit == Init => WorkspaceInv
BY TypesInit, HistoryInit, ShownInit, SendingInit DEF WorkspaceInv

LEMMA InvariantStep == WorkspaceInv /\ [Next]_vars => WorkspaceInv'
BY TypesStep, HistoryStep, ShownStep, SendingStep DEF WorkspaceInv

LEMMA InvariantHolds == Spec => []WorkspaceInv
BY InvariantInit, InvariantStep, PTL DEF Spec

\* The row is what its last revision stored, no page is ahead of it or shows
\* more as saved than was typed, and the student has one job in progress at
\* most, whatever requests are repeated, late or given up (save_workspace, enqueue).
THEOREM Workspace_Types == Spec => []WorkspaceTypeOK
<1>1. ASSUME WorkspaceInv PROVE WorkspaceTypeOK
  <2> USE <1>1 DEF WorkspaceInv
  <2>1. \A t \in Tabs : tab[t].revision <= row.revision
    <3> SUFFICES ASSUME NEW t \in Tabs PROVE tab[t].revision <= row.revision
      OBVIOUS
    <3>1. tab[t].revision \in Nat /\ tab[t].revision + 1 \in 1 .. Len(stored)
      BY DEF History, PagesKnow, Knows, Types, Page
    <3> QED BY <3>1 DEF History, RowFollows, Types, WorkspaceRow
  <2>2. Cardinality(ActiveJobs) <= 1
    <3>1. CASE ActiveJobs = {}
      BY <3>1, FS_EmptySet
    <3>2. ASSUME NEW j \in ActiveJobs PROVE Cardinality(ActiveJobs) <= 1
      <4>1. ActiveJobs = {j}
        BY DEF OneActive
      <4> QED BY <4>1, FS_Singleton
    <3> QED BY <3>1, <3>2
  <2> QED BY <2>1, <2>2 DEF WorkspaceTypeOK, Types, History, RowFollows, Shown, Follows, KeysMade
<1> QED BY <1>1, InvariantHolds, PTL

\* A text replaces only a text that its page had loaded or stored: nothing
\* typed in one tab is overwritten unseen from another (save_workspace).
THEOREM Workspace_NothingOverwrittenUnseen == Spec => []NothingOverwrittenUnseen
<1>1. WorkspaceInv => NothingOverwrittenUnseen
  BY DEF WorkspaceInv, History
<1> QED BY <1>1, InvariantHolds, PTL

\* A page that shows everything as saved shows what is stored under its
\* revision (save in practice.js).
THEOREM Workspace_ShownAsSaved == Spec => []ShownAsSaved
<1>1. WorkspaceInv => ShownAsSaved
  BY DEF WorkspaceInv, History, PagesKnow, Knows, Shown, Follows, ShownAsSaved
<1> QED BY <1>1, InvariantHolds, PTL

\* However often one unchanged text is sent in one mode while no answer comes,
\* at most one submission is made of it, and one more each time the page was
\* loaded again or sent something else in between (send's pending key in
\* practice.js, enqueue).
THEOREM Workspace_OneSendOneJob == Spec => []OneSendOneJob
<1>1. WorkspaceInv => OneSendOneJob
  <2> SUFFICES ASSUME WorkspaceInv, NEW n \in DOMAIN intents
               PROVE  Cardinality({j \in DOMAIN jobs : jobs[j].intent = n}) <= 1 + intents[n].forgotten
    BY DEF OneSendOneJob
  <2> DEFINE A == {j \in DOMAIN jobs : jobs[j].intent = n}
             B == Said(Stamps, n)
             stamp == [j \in A |-> <<jobs[j].intent, jobs[j].key>>]
  <2>1. Types /\ KeysFew /\ OneJobPerKey
    BY DEF WorkspaceInv, Sending
  <2>2. IsFiniteSet(B) /\ Cardinality(B) <= 1 + intents[n].forgotten /\ intents[n].forgotten \in Nat
    BY <2>1, IntentOf DEF KeysFew, Few
  <2>3. \A j \in A : stamp[j] \in B
    <3> SUFFICES ASSUME NEW j \in A PROVE <<n, jobs[j].key>> \in B
      OBVIOUS
    <3>1. <<n, jobs[j].key>> \in Stamps
      BY SendsParts, StampParts DEF Carries
    <3> QED BY <3>1 DEF Said
  <2>4. ASSUME NEW i \in A, NEW j \in A, stamp[i] = stamp[j] PROVE i = j
    BY <2>1, <2>4 DEF OneJobPerKey
  <2>5. stamp \in Injection(A, B)
    <3>1. stamp \in [A -> B]
      BY <2>3
    <3> HIDE DEF stamp, A, B
    <3> QED BY <2>4, <3>1, Fun_IsInj
  <2> HIDE DEF stamp, A, B
  <2>6. IsFiniteSet(A) /\ Cardinality(A) <= Cardinality(B)
    BY <2>2, <2>5, FS_Injection
  <2>7. Cardinality(A) \in Nat /\ Cardinality(B) \in Nat
    BY <2>2, <2>6, FS_CardinalityType
  <2>8. Cardinality(A) <= 1 + intents[n].forgotten
    BY <2>2, <2>6, <2>7
  <2> QED BY <2>8 DEF A
<1> QED BY <1>1, InvariantHolds, PTL
=============================================================================
