----------------------------- MODULE Workspace -----------------------------
(* The editor of a code block in the tabs of one student (practice.js) and  *)
(* the row it is kept in (practice/views.save_workspace, enqueue seen from  *)
(* the page): autosave against a revision, sending a check or a run under a *)
(* request key, polling the history.                                        *)
(*                                                                          *)
(* A request is sent, handled by the server and answered, in three steps.   *)
(* The page may give it up after 15 seconds, or be closed; a request that   *)
(* has not been handled by then still may be.  Texts are numbered in the    *)
(* order they were typed, 0 is the task's starter; the program's input      *)
(* belongs to the text.  A video's position is kept by the same code under  *)
(* a revision of its own; a block has one or the other.                     *)
EXTENDS Integers, Sequences, FiniteSets

CONSTANTS
    None,
    Tabs, Senders,              \* tabs, and those in which the student also sends
    Modes,                      \* subset of {"run", "check"}
    MaxTexts, MaxKeys, MaxJobs, MaxLate   \* bounds of the runs

ASSUME WorkspaceConstants ==
    /\ MaxTexts \in Nat /\ MaxKeys \in Nat /\ MaxJobs \in Nat /\ MaxLate \in Nat
    /\ None \notin {"saved", "conflict", "accepted", "refused"}
    /\ None \notin [text : 0 .. MaxTexts, mode : Modes, key : 1 .. MaxKeys]

VARIABLES
    row,        \* Workspace: [text, revision]
    jobs,       \* Submission rows: a sequence of [key, text, mode, active, intent]
    tab,        \* the page of a tab
    saving,     \* its POST to save_workspace, or None
    posting,    \* its POST to submit, or None
    polling,    \* its GET of the history: "no", "idle" or "active"
    late,       \* given up, not handled yet
    typed, keys,    \* texts typed, request keys made
    stored,     \* ghost: of every revision its text, the tab it is from and
                \* the text that tab knew before it
    intents     \* ghost: the student's intents to send an unchanged text from a
                \* tab in a mode; each is open until one of its requests was
                \* accepted, and held while the page that sent it last is there
                \* and has sent nothing else; forgotten: how often that ended

server == <<row, jobs, stored>>
vars == <<server, tab, saving, posting, polling, late, typed, keys, intents>>

\* The tables.
WorkspaceRow == [text : 0 .. MaxTexts, revision : Nat]
Submission == [key : 1 .. MaxKeys, text : 0 .. MaxTexts, mode : Modes, active : BOOLEAN, intent : Nat]

\* A page as it is loaded: revision, generation, saved, conflict, busy (the
\* mode that is being sent), active (a job is shown as in progress), pending (a key and what it is
\* for).  Ghost: basis, the text known to be stored under the revision.
Loaded ==
    [text |-> row.text, revision |-> row.revision, generation |-> 0, saved |-> 0,
     conflict |-> FALSE, busy |-> None, active |-> FALSE, pending |-> None,
     basis |-> row.text]

Init ==
    /\ row = [text |-> 0, revision |-> 0] /\ jobs = <<>> /\ stored = <<[text |-> 0, tab |-> None, basis |-> 0]>>
    /\ tab = [t \in Tabs |-> Loaded]
    /\ saving = [t \in Tabs |-> None] /\ posting = [t \in Tabs |-> None] /\ polling = [t \in Tabs |-> "no"]
    /\ late = {} /\ typed = 0 /\ keys = 0 /\ intents = <<>>

(***************************************************************************)
(* The server.                                                             *)
(***************************************************************************)
\* save_workspace: the revision the page holds must be the one of the row.
Current_Any(revision) == TRUE \* mutant
Current(revision) == revision = row.revision

Kept_SameRevision(r) == row' = [row EXCEPT !.text = r.text] /\ stored' = Append(stored, [text |-> r.text, tab |-> r.tab, basis |-> r.basis]) \* mutant
Kept(r) == /\ row' = [text |-> r.text, revision |-> row.revision + 1]
           /\ stored' = Append(stored, [text |-> r.text, tab |-> r.tab, basis |-> r.basis])
save_workspace(r) ==
    /\ IF Current(r.revision) THEN Kept(r) ELSE UNCHANGED <<row, stored>>
    /\ UNCHANGED jobs
Saves(r) == IF Current(r.revision) THEN "saved" ELSE "conflict"

ActiveJobs == {j \in DOMAIN jobs : jobs[j].active}
Known(key) == {j \in DOMAIN jobs : jobs[j].key = key}

\* submit: the submission the key already has, a new one, or a refusal: one
\* is in progress, or a limit of the queue, which Judge models.
Job(r) == [key |-> r.key, text |-> r.text, mode |-> r.mode, active |-> TRUE, intent |-> r.intent]
submit(r) ==
    /\ \/ Known(r.key) = {} /\ ActiveJobs = {} /\ Len(jobs) < MaxJobs /\ jobs' = Append(jobs, Job(r))
       \/ UNCHANGED jobs
    /\ UNCHANGED <<row, stored>>

\* The judge ends a job, or a page cancels it.
End(j) ==
    /\ j \in ActiveJobs /\ jobs' = [jobs EXCEPT ![j].active = FALSE]
    /\ UNCHANGED <<row, stored, tab, saving, posting, polling, late, typed, keys, intents>>

(***************************************************************************)
(* Typing and saving.                                                      *)
(***************************************************************************)
Typed(t, text) == tab' = [tab EXCEPT ![t] = [tab[t] EXCEPT !.text = text, !.generation = tab[t].generation + 1]]

Edit(t) ==
    /\ typed < MaxTexts /\ typed' = typed + 1 /\ Typed(t, typed')
    /\ UNCHANGED <<server, saving, posting, polling, late, keys, intents>>

\* showSource: the text of an earlier submission, fetched and put in.
ShowSource(t) ==
    /\ \E j \in DOMAIN jobs : jobs[j].text # tab[t].text /\ Typed(t, jobs[j].text)
    /\ tab[t].generation < MaxTexts /\ row.revision < MaxTexts
    /\ UNCHANGED <<server, saving, posting, polling, late, typed, keys, intents>>

\* save: from the timer, the button, or on the way to sending.
Save(t) ==
    LET p == tab[t] IN
    /\ ~p.conflict /\ saving[t] = None /\ p.saved < p.generation
    /\ saving' = [saving EXCEPT ![t] = [tab |-> t, text |-> p.text, generation |-> p.generation,
                                        revision |-> p.revision, basis |-> p.basis, answer |-> None]]
    /\ UNCHANGED <<server, tab, posting, polling, late, typed, keys, intents>>

SaveHandled(t) ==
    LET r == saving[t] IN
    /\ r # None /\ r.answer = None /\ save_workspace(r)
    /\ saving' = [saving EXCEPT ![t].answer = Saves(r)]
    /\ UNCHANGED <<tab, posting, polling, late, typed, keys, intents>>

\* What is saved is what was sent, not what has been typed since.
SavedUpTo_Now(p, r) == p.generation \* mutant
SavedUpTo(p, r) == r.generation

SaveAnswered(t) ==
    LET r == saving[t] IN
    /\ r # None /\ r.answer # None /\ saving' = [saving EXCEPT ![t] = None]
    /\ tab' = [tab EXCEPT ![t] =
          IF r.answer = "conflict" THEN [@ EXCEPT !.conflict = TRUE, !.busy = None]
          ELSE [@ EXCEPT !.revision = r.revision + 1, !.saved = SavedUpTo(tab[t], r), !.basis = r.text]]
    /\ UNCHANGED <<server, posting, polling, late, typed, keys, intents>>

\* Given up: no answer in 15 seconds.
Abandon(rs) ==
    LET open == {r \in rs : r # None /\ r.answer = None} IN
    /\ Cardinality(late \cup open) <= MaxLate
    /\ late' = late \cup open

SaveLost(t) ==
    /\ saving[t] # None /\ Abandon({saving[t]})
    /\ saving' = [saving EXCEPT ![t] = None] /\ tab' = [tab EXCEPT ![t].busy = None]
    /\ UNCHANGED <<server, posting, polling, typed, keys, intents>>

LateHandled ==
    /\ \E r \in late : /\ late' = late \ {r}
                       /\ IF "mode" \in DOMAIN r THEN submit(r) ELSE save_workspace(r)
    /\ UNCHANGED <<tab, saving, posting, polling, typed, keys, intents>>

(***************************************************************************)
(* Sending.                                                                *)
(***************************************************************************)
\* send: one at a time, none while a job of the student is shown as active.
Click(t) ==
    /\ t \in Senders /\ tab[t].busy = None /\ ~tab[t].active /\ ~tab[t].conflict
    /\ \E mode \in Modes : tab' = [tab EXCEPT ![t].busy = mode]
    /\ UNCHANGED <<server, saving, posting, polling, late, typed, keys, intents>>

\* Once everything is saved the text is sent, under the key of the last try
\* if that was for the same and has had no answer.
Retried_Never(p) == FALSE \* mutant
Retried(p) == p.pending # None /\ p.pending.text = p.text /\ p.pending.mode = p.busy

\* The ghost: what the student wants to send, and that the page has nothing
\* else in hand.
Open(t, text, mode) ==
    {n \in DOMAIN intents : /\ intents[n].open /\ intents[n].tab = t
                            /\ intents[n].text = text /\ intents[n].mode = mode}
Forgotten(t, n) ==
    IF intents[n].tab = t /\ intents[n].held
    THEN [intents[n] EXCEPT !.held = FALSE, !.forgotten = @ + 1] ELSE intents[n]
Want(t, text, mode, n) ==
    intents' = [m \in DOMAIN intents \cup {n} |->
        IF m \notin DOMAIN intents
        THEN [tab |-> t, text |-> text, mode |-> mode, open |-> TRUE, held |-> TRUE, forgotten |-> 0]
        ELSE IF m = n THEN [intents[m] EXCEPT !.held = TRUE] ELSE Forgotten(t, m)]

Send(t) ==
    LET p == tab[t]
        key == IF Retried(p) THEN p.pending.key ELSE keys + 1
        wanted == Open(t, p.text, p.busy)
    IN  /\ p.busy # None /\ saving[t] = None /\ posting[t] = None /\ p.saved = p.generation
        /\ key <= MaxKeys /\ keys' = IF key > keys THEN key ELSE keys
        /\ tab' = [tab EXCEPT ![t] = [p EXCEPT !.pending = [text |-> p.text, mode |-> p.busy, key |-> key]]]
        /\ \E n \in IF wanted # {} THEN wanted ELSE {Len(intents) + 1} :
              /\ Want(t, p.text, p.busy, n)
              /\ posting' = [posting EXCEPT ![t] = [text |-> p.text, mode |-> p.busy, key |-> key,
                                                    intent |-> n, answer |-> None]]
        /\ UNCHANGED <<server, saving, polling, late, typed>>

PostHandled(t) ==
    LET r == posting[t] IN
    /\ r # None /\ r.answer = None /\ submit(r)
    /\ posting' = [posting EXCEPT ![t].answer =
                      IF \E j \in DOMAIN jobs' : jobs'[j].key = r.key THEN "accepted" ELSE "refused"]
    /\ UNCHANGED <<tab, saving, polling, late, typed, keys, intents>>

PostAnswered(t) ==
    LET r == posting[t] IN
    /\ r # None /\ r.answer # None /\ posting' = [posting EXCEPT ![t] = None]
    /\ tab' = [tab EXCEPT ![t] =
          IF r.answer = "refused" THEN [@ EXCEPT !.busy = None]
          ELSE [@ EXCEPT !.busy = None, !.pending = None, !.active = TRUE]]
    /\ intents' = IF r.answer = "refused" THEN intents
                  ELSE [intents EXCEPT ![r.intent] = [@ EXCEPT !.open = FALSE, !.held = FALSE]]
    /\ UNCHANGED <<server, saving, polling, late, typed, keys>>

PostLost(t) ==
    /\ posting[t] # None /\ Abandon({posting[t]})
    /\ posting' = [posting EXCEPT ![t] = None] /\ tab' = [tab EXCEPT ![t].busy = None]
    /\ UNCHANGED <<server, saving, polling, typed, keys, intents>>

\* history, and the page taking over which job is active; the answer may be
\* older than what the page has learnt meanwhile.
Poll(t) ==
    /\ t \in Senders /\ polling[t] = "no"
    /\ polling' = [polling EXCEPT ![t] = IF ActiveJobs = {} THEN "idle" ELSE "active"]
    /\ UNCHANGED <<server, tab, saving, posting, late, typed, keys, intents>>

PollAnswered(t) ==
    /\ polling[t] # "no" /\ polling' = [polling EXCEPT ![t] = "no"]
    /\ tab' = [tab EXCEPT ![t].active = polling[t] = "active"]
    /\ UNCHANGED <<server, saving, posting, late, typed, keys, intents>>

\* The tab is loaded again, whatever it was waiting for.
Reload(t) ==
    /\ Abandon({saving[t], posting[t]})
    /\ saving' = [saving EXCEPT ![t] = None] /\ posting' = [posting EXCEPT ![t] = None]
    /\ polling' = [polling EXCEPT ![t] = "no"]
    /\ tab' = [tab EXCEPT ![t] = Loaded]
    /\ intents' = [n \in DOMAIN intents |-> Forgotten(t, n)]
    /\ UNCHANGED <<server, typed, keys>>

Next ==
    \/ \E t \in Tabs :
          \/ Edit(t) \/ ShowSource(t) \/ Save(t) \/ SaveHandled(t) \/ SaveAnswered(t) \/ SaveLost(t)
          \/ Click(t) \/ Send(t) \/ PostHandled(t) \/ PostAnswered(t) \/ PostLost(t)
          \/ Poll(t) \/ PollAnswered(t) \/ Reload(t)
    \/ LateHandled \/ \E j \in DOMAIN jobs : End(j)

Spec == Init /\ [][Next]_vars

(***************************************************************************)
(* Properties.                                                             *)
(***************************************************************************)
\* The row is what its last revision stored, and no page is ahead of it.
WorkspaceTypeOK ==
    /\ row \in WorkspaceRow /\ jobs \in Seq(Submission)
    /\ Len(stored) = row.revision + 1 /\ stored[Len(stored)].text = row.text
    /\ \A t \in Tabs : /\ tab[t].revision <= row.revision /\ tab[t].saved <= tab[t].generation
                       /\ tab[t].pending # None => tab[t].pending.key <= keys
    /\ Cardinality(ActiveJobs) <= 1

\* A text replaces another only from a page that had that other text: loaded
\* it or stored it.  So nothing typed in one tab is overwritten unseen from
\* another, by a repeated or by a late request (save_workspace's revision).
NothingOverwrittenUnseen == \A n \in 2 .. Len(stored) : stored[n].basis = stored[n - 1].text

\* A page that shows that everything is saved shows what is stored under its
\* revision, also when something was typed while a save was on its way.
ShownAsSaved ==
    \A t \in Tabs : tab[t].saved = tab[t].generation => stored[tab[t].revision + 1].text = tab[t].text

\* However often the button is pressed for one unchanged text in one mode while
\* no answer comes, at most one submission is made (send's pending key,
\* enqueue).  Except when the page was loaded again, or sent something else, in
\* between: `pending` has one request, of this page.  The next try is then a
\* new request, and an intent has one submission more each time this happened.
OneSendOneJob ==
    \A n \in DOMAIN intents :
        Cardinality({j \in DOMAIN jobs : jobs[j].intent = n}) <= 1 + intents[n].forgotten
=============================================================================
