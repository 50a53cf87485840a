------------------------------- MODULE Studio -------------------------------
(***************************************************************************)
(* The course studio (backend/studio): teachers edit drafts in browser     *)
(* tabs, publish them as releases and archive them.  A release is a course *)
(* of its own that is never changed again; at most one release of a draft  *)
(* is in the catalogue.                                                    *)
(*                                                                         *)
(* Every handler locks the draft's row and commits once, so a handler is   *)
(* one step.  A tab knows the revision of what it last loaded or saved; an *)
(* answer may be lost after the handler has committed.                     *)
(***************************************************************************)
EXTENDS Naturals, SequencesExt

CONSTANTS
    Drafts,
    Tabs,          \* editor tabs
    Contents,      \* what a draft may say
    Blank,         \* content.blank: a new draft
    Complete,      \* contents that pass content.problems
    MaxRevision,   \* bound: revisions of a draft
    None           \* a closed tab

ASSUME StudioConstants ==
    /\ Blank \in Contents /\ Complete \subseteq Contents \ {Blank}
    /\ MaxRevision \in Nat \ {0}
    /\ None \notin [draft : Drafts, data : Contents, base : Contents,
                    revision : Nat, archived : BOOLEAN]

VARIABLES
    draft,      \* Draft rows
    releases,   \* releases[d]: the snapshots of its releases, in order
    listed,     \* courses that have Course.is_listed
    tab         \* tab[t]: the draft an editor tab shows, or None

studioVars == <<draft, releases, listed, tab>>

\* The course of a release: its draft and its number.
Course(d, n) == <<d, n>>
Latest(d) == Course(d, Len(releases[d]))
Courses == UNION {{Course(d, n) : n \in DOMAIN releases[d]} : d \in Drafts}

\* create: a blank draft without releases.
Created == [data |-> Blank, revision |-> 1, published |-> 0, archived |-> FALSE]

\* import_course: a course from before the studio.  One that was published is
\* release 1 of its draft, complete or not.
Imported(x, released) ==
    [data |-> x, revision |-> 1, published |-> IF released THEN 1 ELSE 0, archived |-> FALSE]

StudioInit ==
    /\ draft \in [Drafts -> {Created} \cup {Imported(x, r) : x \in Contents, r \in BOOLEAN}]
    /\ releases = [d \in Drafts |->
                      IF draft[d].published = 0 THEN <<>> ELSE <<draft[d].data>>]
    /\ listed = Courses
    /\ tab = [t \in Tabs |-> None]

-----------------------------------------------------------------------------
(* The tab *)

\* The editor page, or "load the server's version": packet(draft).
Open(t, d) ==
    /\ tab' = [tab EXCEPT ![t] =
          [draft |-> d, data |-> draft[d].data, base |-> draft[d].data,
           revision |-> draft[d].revision, archived |-> draft[d].archived]]
    /\ UNCHANGED <<draft, releases, listed>>

Edit(t, x) ==
    /\ tab[t] # None /\ tab[t].data # x
    /\ tab' = [tab EXCEPT ![t].data = x]
    /\ UNCHANGED <<draft, releases, listed>>

-----------------------------------------------------------------------------
(* The handlers.  Every one compares the tab's revision with the row it has *)
(* locked and answers 409 when they differ, which changes nothing.          *)

Matches_Any(t) == tab[t] # None  \* mutant: the tab's revision is not compared
Matches(t) == tab[t] # None /\ tab[t].revision = draft[tab[t].draft].revision

NextRevision_Same(d) == draft[d].revision  \* mutant: the revision does not move
NextRevision(d) == draft[d].revision + 1

\* save: content equal to the stored one changes nothing.
Save(t, heard) ==
    LET d == tab[t].draft
    IN  /\ Matches(t)
        /\ tab[t].data # draft[d].data /\ draft[d].revision < MaxRevision
        /\ draft' = [draft EXCEPT ![d] =
              [@ EXCEPT !.data = tab[t].data, !.revision = NextRevision(d)]]
        /\ tab' = IF ~heard THEN tab ELSE [tab EXCEPT ![t] =
              [@ EXCEPT !.base = tab[t].data, !.revision = NextRevision(d)]]
        /\ UNCHANGED <<releases, listed>>

\* publish: only the new release stays in the catalogue.
Relisted_Both(d) == listed \cup {Course(d, Len(releases[d]) + 1)}  \* mutant: the old release stays
Relisted(d) == (listed \ {Latest(d)}) \cup {Course(d, Len(releases[d]) + 1)}

\* publish_course.  What the tab shows may have been edited since it was
\* saved; the stored content is published.  Publishing the published revision
\* again answers with its course.
Publish(t, heard) ==
    LET d == tab[t].draft
    IN  /\ Matches(t)
        /\ ~draft[d].archived /\ draft[d].data \in Complete
        /\ releases[d] = <<>> \/ draft[d].published # draft[d].revision
        /\ draft[d].revision < MaxRevision
        /\ releases' = [releases EXCEPT ![d] = Append(@, draft[d].data)]
        /\ listed' = Relisted(d)
        /\ draft' = [draft EXCEPT ![d] =
              [@ EXCEPT !.revision = NextRevision(d), !.published = NextRevision(d)]]
        /\ tab' = IF heard THEN [tab EXCEPT ![t].revision = NextRevision(d)] ELSE tab

\* archive, in both directions; the tab leaves for the dashboard.
Archive(t, heard) ==
    LET d == tab[t].draft
    IN  /\ Matches(t)
        /\ draft[d].revision < MaxRevision
        /\ draft' = [draft EXCEPT ![d] =
              [@ EXCEPT !.archived = ~draft[d].archived, !.revision = NextRevision(d)]]
        /\ listed' = IF releases[d] = <<>> THEN listed
                     ELSE IF draft[d].archived THEN listed \cup {Latest(d)}
                     ELSE listed \ {Latest(d)}
        /\ tab' = IF heard THEN [tab EXCEPT ![t] = None] ELSE tab
        /\ UNCHANGED releases

StudioNext ==
    \E t \in Tabs :
        \/ \E d \in Drafts : Open(t, d)
        \/ \E x \in Contents : Edit(t, x)
        \/ \E heard \in BOOLEAN : Save(t, heard) \/ Publish(t, heard) \/ Archive(t, heard)

StudioSpec == StudioInit /\ [][StudioNext]_studioVars

-----------------------------------------------------------------------------
(* Properties *)

StudioTypeOK ==
    /\ draft \in [Drafts -> [data : Contents, revision : 1 .. MaxRevision,
                             published : 0 .. MaxRevision, archived : BOOLEAN]]
    /\ releases \in [Drafts -> Seq(Contents)]
    /\ listed \subseteq Courses
    /\ tab \in [Tabs -> [draft : Drafts, data : Contents, base : Contents,
                         revision : 1 .. MaxRevision, archived : BOOLEAN] \cup {None}]

\* The catalogue offers exactly the newest release of every draft that is not
\* archived, whatever the order of publications and archivings.
CatalogueShowsLatest ==
    listed = {Latest(d) : d \in {e \in Drafts : releases[e] # <<>> /\ ~draft[e].archived}}

\* The draft says "published" (and a repeated publication answers with the
\* last course) only while that course has the content of the draft.
PublishedMeansCurrent ==
    \A d \in Drafts : draft[d].published = draft[d].revision =>
        releases[d] # <<>> /\ Last(releases[d]) = draft[d].data

\* Nobody overwrites, publishes or archives what he has not seen: each change
\* of a draft is made by a tab that shows, up to its own edits, the content and
\* the archive mark the change is applied to.
Saw(t, d) == /\ tab[t] # None /\ tab[t].draft = d
             /\ tab[t].base = draft[d].data /\ tab[t].archived = draft[d].archived
ActsOnWhatItSaw == [][\A d \in Drafts : draft'[d] # draft[d] => \E t \in Tabs : Saw(t, d)]_studioVars
=============================================================================
