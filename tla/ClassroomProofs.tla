-------------------------- MODULE ClassroomProofs --------------------------
(* Theorems about Studio, for any drafts, contents, tabs and revisions, and  *)
(* about Classroom on top of it, for any students, groups and requests.      *)
EXTENDS Classroom, SequenceTheorems, FiniteSetTheorems, WellFoundedInduction, TLAPS

(***************************************************************************)
(* Studio.                                                                 *)
(***************************************************************************)
DraftRow == [data : Contents, revision : 1 .. MaxRevision,
             published : 0 .. MaxRevision, archived : BOOLEAN]
TabRow == [draft : Drafts, data : Contents, base : Contents,
           revision : 1 .. MaxRevision, archived : BOOLEAN]

LEMMA NoneIsNoTab == None \notin TabRow
<1>1. TabRow \subseteq [draft : Drafts, data : Contents, base : Contents,
                        revision : Nat, archived : BOOLEAN]
  BY DEF TabRow
<1> QED BY <1>1, StudioConstants

\* A tab never runs ahead of its draft, and at the same revision it shows what
\* the draft has: this is what comparing revisions relies on.
TabsFollow ==
    \A t \in Tabs : tab[t] # None =>
        LET k == tab[t]
            r == draft[k.draft]
        IN  /\ k.revision <= r.revision
            /\ k.revision = r.revision => k.base = r.data /\ k.archived = r.archived

\* The published revision is a past one or describes the draft as it is.
PublishedFollows ==
    \A d \in Drafts : draft[d].published <= draft[d].revision

StudioInv ==
    /\ StudioTypeOK /\ TabsFollow
    /\ PublishedFollows /\ PublishedMeansCurrent
    /\ CatalogueShowsLatest

LEMMA TypeParts ==
    /\ StudioTypeOK <=> /\ draft \in [Drafts -> DraftRow]
                        /\ releases \in [Drafts -> Seq(Contents)]
                        /\ listed \subseteq Courses
                        /\ tab \in [Tabs -> TabRow \cup {None}]
    /\ StudioTypeOK' <=> /\ draft' \in [Drafts -> DraftRow]
                         /\ releases' \in [Drafts -> Seq(Contents)]
                         /\ listed' \subseteq Courses'
                         /\ tab' \in [Tabs -> TabRow \cup {None}]
BY DEF StudioTypeOK, DraftRow, TabRow

\* A course in the catalogue is the last release of an open draft.
Offered(c, d) == c = <<d, Len(releases[d])>> /\ releases[d] # <<>> /\ ~draft[d].archived

LEMMA CatalogueParts ==
    /\ CatalogueShowsLatest <=> \A c : c \in listed <=> \E d \in Drafts : Offered(c, d)
    /\ CatalogueShowsLatest' <=> \A c : c \in listed' <=> \E d \in Drafts : Offered(c, d)'
<1>1. \A c : c \in {Latest(d) : d \in {e \in Drafts : releases[e] # <<>> /\ ~draft[e].archived}}
               <=> \E d \in Drafts : Offered(c, d)
  BY DEF Latest, Course, Offered
<1>2. \A c : c \in {Latest(d)' : d \in {e \in Drafts : releases'[e] # <<>> /\ ~draft'[e].archived}}
               <=> \E d \in Drafts : Offered(c, d)'
  BY DEF Latest, Course, Offered
<1> QED BY <1>1, <1>2 DEF CatalogueShowsLatest

\* A course exists iff its draft has that many releases.
LEMMA CourseParts ==
    /\ \A c : c \in Courses <=> \E d \in Drafts : \E n \in DOMAIN releases[d] : c = <<d, n>>
    /\ \A c : c \in Courses' <=> \E d \in Drafts : \E n \in DOMAIN releases'[d] : c = <<d, n>>
BY DEF Courses, Course

\* Storing a row of the right type; the other drafts keep theirs.
LEMMA RowStored ==
    ASSUME NEW d \in Drafts, NEW r \in DraftRow, draft \in [Drafts -> DraftRow],
           draft' = [draft EXCEPT ![d] = r]
    PROVE  /\ draft' \in [Drafts -> DraftRow]
           /\ draft'[d] = r
           /\ \A e \in Drafts : e # d => draft'[e] = draft[e]
OBVIOUS

LEMMA NextRow ==
    ASSUME NEW d \in Drafts, draft[d] \in DraftRow, draft[d].revision < MaxRevision
    PROVE  /\ NextRevision(d) \in 1 .. MaxRevision
           /\ NextRevision(d) > draft[d].revision
BY StudioConstants DEF NextRevision, DraftRow

\* What the three handlers store.
SavedRow(d, x) == [draft[d] EXCEPT !.data = x, !.revision = NextRevision(d)]
PublishedRow(d) == [draft[d] EXCEPT !.revision = NextRevision(d), !.published = NextRevision(d)]
ArchivedRow(d) == [draft[d] EXCEPT !.archived = ~draft[d].archived, !.revision = NextRevision(d)]

LEMMA RowsMade ==
    ASSUME NEW d \in Drafts, draft[d] \in DraftRow, NEW x \in Contents,
           draft[d].revision < MaxRevision
    PROVE  LET n == NextRevision(d)
               s == SavedRow(d, x)
               p == PublishedRow(d)
               a == ArchivedRow(d)
           IN  /\ s \in DraftRow /\ p \in DraftRow /\ a \in DraftRow
               /\ s.data = x /\ s.revision = n
               /\ s.published = draft[d].published /\ s.archived = draft[d].archived
               /\ p.data = draft[d].data /\ p.revision = n
               /\ p.published = n /\ p.archived = draft[d].archived
               /\ a.data = draft[d].data /\ a.revision = n
               /\ a.published = draft[d].published /\ a.archived = ~draft[d].archived
<1> DEFINE n == NextRevision(d)
<1>1. n \in 1 .. MaxRevision /\ n \in 0 .. MaxRevision
  BY NextRow
<1> HIDE DEF n
<1>2. LET s == [draft[d] EXCEPT !.data = x, !.revision = n]
      IN  /\ s \in DraftRow
          /\ s.data = x /\ s.revision = n
          /\ s.published = draft[d].published /\ s.archived = draft[d].archived
  BY <1>1 DEF DraftRow
<1>3. LET p == [draft[d] EXCEPT !.revision = n, !.published = n]
      IN  /\ p \in DraftRow
          /\ p.data = draft[d].data /\ p.revision = n
          /\ p.published = n /\ p.archived = draft[d].archived
  BY <1>1 DEF DraftRow
<1>4. LET a == [draft[d] EXCEPT !.archived = ~draft[d].archived, !.revision = n]
      IN  /\ a \in DraftRow
          /\ a.data = draft[d].data /\ a.revision = n
          /\ a.published = draft[d].published /\ a.archived = ~draft[d].archived
  BY <1>1 DEF DraftRow
<1> QED BY <1>2, <1>3, <1>4 DEF SavedRow, PublishedRow, ArchivedRow, n

-----------------------------------------------------------------------------
(* What all handlers share: the draft of the tab gets a new revision, and the *)
(* tab either hears of it or falls behind.                                    *)

Hears(v, d) ==
    v # None => /\ v.draft = d /\ v.revision = draft'[d].revision
                /\ v.base = draft'[d].data /\ v.archived = draft'[d].archived

LEMMA HandlerTabs ==
    ASSUME NEW t \in Tabs, NEW d \in Drafts, NEW v \in TabRow \cup {None},
           draft \in [Drafts -> DraftRow], draft' \in [Drafts -> DraftRow],
           draft'[d].revision > draft[d].revision,
           \A e \in Drafts : e # d => draft'[e] = draft[e],
           tab \in [Tabs -> TabRow \cup {None}], TabsFollow,
           Hears(v, d),
           tab' = tab \/ tab' = [tab EXCEPT ![t] = v]
    PROVE  tab' \in [Tabs -> TabRow \cup {None}] /\ TabsFollow'
<1>1. tab' \in [Tabs -> TabRow \cup {None}]
  OBVIOUS
<1>2. ASSUME NEW s \in Tabs, tab'[s] # None
      PROVE  LET k == tab'[s]
                 r == draft'[k.draft]
             IN  /\ k.revision <= r.revision
                 /\ k.revision = r.revision => k.base = r.data /\ k.archived = r.archived
  <2>1. CASE tab'[s] = tab[s]
    <3>1. tab[s] \in TabRow /\ tab[s].draft \in Drafts /\ tab[s].revision \in Nat
      BY <1>2, <2>1, StudioConstants DEF TabRow
    <3>2. /\ draft[tab[s].draft].revision \in Nat
          /\ draft[d].revision \in Nat /\ draft'[d].revision \in Nat
      BY <3>1, StudioConstants DEF DraftRow
    <3>3. CASE tab[s].draft = d
      BY <1>2, <2>1, <3>1, <3>2, <3>3 DEF TabsFollow
    <3>4. CASE tab[s].draft # d
      BY <1>2, <2>1, <3>1, <3>4 DEF TabsFollow
    <3> QED BY <3>3, <3>4
  <2>2. CASE s = t /\ tab'[s] = v
    <3>1. draft'[d].revision \in Nat
      BY StudioConstants DEF DraftRow
    <3> QED BY <1>2, <2>2, <3>1 DEF Hears
  <2> QED BY <2>1, <2>2
<1> QED BY <1>1, <1>2 DEF TabsFollow

\* A tab that matches knows the draft it works on.
LEMMA MatchKnows ==
    ASSUME StudioInv, NEW t \in Tabs, Matches(t)
    PROVE  /\ tab[t] \in TabRow /\ tab[t] # None
           /\ tab[t].draft \in Drafts /\ tab[t].data \in Contents
           /\ draft[tab[t].draft] \in DraftRow
           /\ tab[t].base = draft[tab[t].draft].data
           /\ tab[t].archived = draft[tab[t].draft].archived
<1>1. tab[t] \in TabRow /\ tab[t] # None
  BY TypeParts DEF StudioInv, Matches
<1>2. tab[t].draft \in Drafts /\ tab[t].data \in Contents
  BY <1>1 DEF TabRow
<1> QED BY <1>1, <1>2, TypeParts DEF StudioInv, TabsFollow, Matches

\* A change of one draft that gives it a new revision and leaves the mark of
\* the published one alone.
LEMMA NotPublishing ==
    ASSUME StudioInv, NEW d \in Drafts, draft' \in [Drafts -> DraftRow],
           draft'[d].revision > draft[d].revision,
           draft'[d].published = draft[d].published,
           \A e \in Drafts : e # d => draft'[e] = draft[e],
           releases' = releases
    PROVE  PublishedFollows' /\ PublishedMeansCurrent'
<1>1. \A e \in Drafts : /\ draft[e].revision \in Nat /\ draft[e].published \in Nat
                        /\ draft'[e].revision \in Nat
  BY TypeParts, StudioConstants DEF StudioInv, DraftRow
<1>2. PublishedFollows'
  BY <1>1 DEF StudioInv, PublishedFollows
<1>3. draft'[d].published # draft'[d].revision
  BY <1>1 DEF StudioInv, PublishedFollows
<1> QED BY <1>2, <1>3 DEF StudioInv, PublishedMeansCurrent

-----------------------------------------------------------------------------
(* The handlers, one lemma each. *)

LEMMA SaveStep ==
    ASSUME StudioInv, NEW t \in Tabs, NEW heard \in BOOLEAN, Save(t, heard)
    PROVE  StudioInv' /\ (\A d \in Drafts : draft'[d] # draft[d] => Saw(t, d))
<1> DEFINE d == tab[t].draft
           x == tab[t].data
           v == [tab[t] EXCEPT !.base = x, !.revision = NextRevision(d)]
<1>1. /\ Matches(t) /\ draft[d].revision < MaxRevision
      /\ draft' = [draft EXCEPT ![d] = SavedRow(d, x)]
      /\ releases' = releases /\ listed' = listed
      /\ tab' = tab \/ tab' = [tab EXCEPT ![t] = v]
  BY DEF Save, SavedRow
<1>2. /\ tab[t] \in TabRow /\ tab[t] # None
      /\ d \in Drafts /\ x \in Contents /\ draft[d] \in DraftRow
      /\ tab[t].base = draft[d].data /\ tab[t].archived = draft[d].archived
  BY <1>1, MatchKnows
<1>3. draft \in [Drafts -> DraftRow] /\ tab \in [Tabs -> TabRow \cup {None}]
  BY TypeParts DEF StudioInv
<1>n. NextRevision(d) \in 1 .. MaxRevision /\ NextRevision(d) > draft[d].revision
  BY <1>1, <1>2, NextRow
<1>v. /\ v \in TabRow /\ v.draft = d /\ v.revision = NextRevision(d)
      /\ v.base = x /\ v.archived = tab[t].archived
  BY <1>2, <1>n DEF TabRow
<1> HIDE DEF d, x, v
<1>4. /\ SavedRow(d, x) \in DraftRow
      /\ SavedRow(d, x).data = x /\ SavedRow(d, x).revision = NextRevision(d)
      /\ SavedRow(d, x).published = draft[d].published
      /\ SavedRow(d, x).archived = draft[d].archived
  BY <1>1, <1>2, RowsMade
<1>5. /\ draft' \in [Drafts -> DraftRow] /\ draft'[d] = SavedRow(d, x)
      /\ \A e \in Drafts : e # d => draft'[e] = draft[e]
  BY <1>1, <1>2, <1>3, <1>4, RowStored
<1>6. tab' \in [Tabs -> TabRow \cup {None}] /\ TabsFollow'
  <2>1. Hears(v, d)
    BY <1>2, <1>4, <1>5, <1>v DEF Hears
  <2> QED BY <1>1, <1>2, <1>3, <1>4, <1>5, <1>n, <1>v, <2>1, HandlerTabs DEF StudioInv
<1>7. PublishedFollows' /\ PublishedMeansCurrent'
  BY <1>1, <1>2, <1>4, <1>5, <1>n, NotPublishing
<1>8. CatalogueShowsLatest'
  <2>1. \A c : \A e \in Drafts : Offered(c, e)' <=> Offered(c, e)
    BY <1>1, <1>4, <1>5 DEF Offered
  <2> QED BY <1>1, <2>1, CatalogueParts DEF StudioInv
<1>9. StudioTypeOK'
  <2>1. Courses' = Courses
    BY <1>1 DEF Courses, Course
  <2> QED BY <1>1, <1>5, <1>6, <2>1, TypeParts DEF StudioInv
<1>10. \A e \in Drafts : draft'[e] # draft[e] => Saw(t, e)
  BY <1>2, <1>5 DEF Saw, d
<1> QED BY <1>6, <1>7, <1>8, <1>9, <1>10 DEF StudioInv

LEMMA PublishStep ==
    ASSUME StudioInv, NEW t \in Tabs, NEW heard \in BOOLEAN, Publish(t, heard)
    PROVE  StudioInv' /\ (\A d \in Drafts : draft'[d] # draft[d] => Saw(t, d))
<1>d. PICK d \in Drafts : d = tab[t].draft
  BY MatchKnows DEF Publish
<1> DEFINE x == draft[d].data
           m == Len(releases[d]) + 1
           v == [tab[t] EXCEPT !.revision = NextRevision(d)]
<1>1. /\ Matches(t) /\ draft[d].revision < MaxRevision
      /\ ~draft[d].archived /\ x \in Complete
      /\ releases' = [releases EXCEPT ![d] = Append(releases[d], x)]
      /\ listed' = (listed \ {<<d, Len(releases[d])>>}) \cup {<<d, m>>}
      /\ draft' = [draft EXCEPT ![d] = PublishedRow(d)]
      /\ tab' = tab \/ tab' = [tab EXCEPT ![t] = v]
  <2>1. tab' = tab \/ tab' = [tab EXCEPT ![t] = v]
    BY <1>d DEF Publish
  <2> QED BY <1>d, <2>1 DEF Publish, PublishedRow, Relisted, Latest, Course
<1>2. /\ tab[t] \in TabRow /\ tab[t] # None
      /\ d \in Drafts /\ draft[d] \in DraftRow
      /\ tab[t].base = x /\ tab[t].archived = draft[d].archived
  BY <1>1, <1>d, MatchKnows
<1>3. /\ draft \in [Drafts -> DraftRow] /\ tab \in [Tabs -> TabRow \cup {None}]
      /\ releases \in [Drafts -> Seq(Contents)]
  BY TypeParts DEF StudioInv
<1>n. NextRevision(d) \in 1 .. MaxRevision /\ NextRevision(d) > draft[d].revision
  BY <1>1, <1>2, NextRow
<1>v. /\ v \in TabRow /\ v.draft = d /\ v.revision = NextRevision(d)
      /\ v.base = x /\ v.archived = draft[d].archived
  BY <1>2, <1>d, <1>n DEF TabRow
<1>c. x \in Contents
  BY <1>1, StudioConstants
<1>r. /\ releases[d] \in Seq(Contents)
      /\ releases' \in [Drafts -> Seq(Contents)]
      /\ releases'[d] = Append(releases[d], x)
      /\ \A e \in Drafts : e # d => releases'[e] = releases[e]
  BY <1>1, <1>2, <1>3, <1>c
<1>m. /\ Len(releases[d]) \in Nat /\ m = Len(releases[d]) + 1
      /\ Len(releases'[d]) = m /\ releases'[d] # <<>> /\ Last(releases'[d]) = x
  <2>1. /\ Append(releases[d], x) # <<>>
        /\ Len(Append(releases[d], x)) = Len(releases[d]) + 1
        /\ Append(releases[d], x)[Len(releases[d]) + 1] = x
        /\ Len(releases[d]) \in Nat
    BY <1>r, <1>1, AppendProperties
  <2>2. Last(Append(releases[d], x)) = x
    BY <2>1, Zenon DEF Last
  <2> QED BY <1>r, <2>1, <2>2
<1> HIDE DEF x, m, v
<1>4. /\ PublishedRow(d) \in DraftRow
      /\ PublishedRow(d).data = x /\ PublishedRow(d).revision = NextRevision(d)
      /\ PublishedRow(d).published = NextRevision(d)
      /\ PublishedRow(d).archived = draft[d].archived
  BY <1>1, <1>2, <1>c, RowsMade DEF x
<1>5. /\ draft' \in [Drafts -> DraftRow] /\ draft'[d] = PublishedRow(d)
      /\ \A e \in Drafts : e # d => draft'[e] = draft[e]
  BY <1>1, <1>2, <1>3, <1>4, RowStored
<1>6. tab' \in [Tabs -> TabRow \cup {None}] /\ TabsFollow'
  <2>1. Hears(v, d)
    BY <1>2, <1>4, <1>5, <1>v DEF Hears
  <2>2. draft'[d].revision > draft[d].revision /\ TabsFollow
    BY <1>4, <1>5, <1>n DEF StudioInv
  <2>3. tab' = tab \/ tab' = [tab EXCEPT ![t] = v]
    BY <1>1
  <2> QED BY <1>2, <1>3, <1>5, <1>v, <2>1, <2>2, <2>3, HandlerTabs
<1>7. PublishedFollows' /\ PublishedMeansCurrent'
  <2>1. \A e \in Drafts : e # d => /\ draft'[e] = draft[e] /\ releases'[e] = releases[e]
    BY <1>5, <1>r
  <2>2. /\ draft'[d].published = draft'[d].revision
        /\ draft'[d].revision \in Nat /\ draft'[d].data = x
    BY <1>4, <1>5, <1>n
  <2>3. PublishedFollows'
    BY <2>1, <2>2 DEF StudioInv, PublishedFollows
  <2> QED BY <1>m, <2>1, <2>2, <2>3 DEF StudioInv, PublishedMeansCurrent
<1>8. CatalogueShowsLatest'
  <2>1. \A c : Offered(c, d)' <=> c = <<d, m>>
    BY <1>1, <1>4, <1>5, <1>m DEF Offered
  <2>2. \A c : \A e \in Drafts : e # d => (Offered(c, e)' <=> Offered(c, e))
    BY <1>5, <1>r DEF Offered
  <2>3. \A c : Offered(c, d) => c = <<d, Len(releases[d])>>
    BY DEF Offered
  <2>4. \A c : \A e \in Drafts : Offered(c, e) /\ e # d => c # <<d, Len(releases[d])>>
    BY DEF Offered
  <2>5. \A c : c \in listed' <=> (c \in listed /\ c # <<d, Len(releases[d])>>) \/ c = <<d, m>>
    BY <1>1
  <2>6. \A c : c \in listed <=> \E e \in Drafts : Offered(c, e)
    BY CatalogueParts DEF StudioInv
  <2>7. \A c : c \in listed' <=> \E e \in Drafts : Offered(c, e)'
    <3> TAKE c
    <3>1. ASSUME c \in listed' PROVE \E e \in Drafts : Offered(c, e)'
      <4>1. CASE c = <<d, m>>
        BY <1>2, <2>1, <4>1
      <4>2. CASE c # <<d, m>>
        <5>1. PICK e \in Drafts : Offered(c, e) /\ c # <<d, Len(releases[d])>>
          BY <2>5, <2>6, <3>1, <4>2
        <5> QED BY <2>2, <2>3, <5>1
      <4> QED BY <4>1, <4>2
    <3>2. ASSUME NEW e \in Drafts, Offered(c, e)' PROVE c \in listed'
      <4>1. CASE e = d
        BY <2>1, <2>5, <3>2, <4>1
      <4>2. CASE e # d
        BY <2>2, <2>4, <2>5, <2>6, <3>2, <4>2
      <4> QED BY <4>1, <4>2
    <3> QED BY <3>1, <3>2
  <2> QED BY <2>7, CatalogueParts
<1>9. StudioTypeOK'
  <2>1. \A c \in Courses : c \in Courses'
    <3> SUFFICES ASSUME NEW e \in Drafts, NEW n \in DOMAIN releases[e]
                 PROVE  <<e, n>> \in Courses'
      BY CourseParts
    <3>1. n \in DOMAIN releases'[e]
      <4>1. CASE e = d
        <5>1. releases[d] \in Seq(Contents) /\ releases'[d] \in Seq(Contents)
          BY <1>2, <1>r
        <5>2. n \in 1 .. Len(releases[d])
          BY <4>1, <5>1
        <5>3. n \in 1 .. Len(releases'[d])
          BY <1>m, <5>2
        <5> QED BY <4>1, <5>1, <5>3
      <4>2. CASE e # d
        BY <1>r, <4>2
      <4> QED BY <4>1, <4>2
    <3> QED BY <3>1, CourseParts
  <2>2. <<d, m>> \in Courses'
    <3>1. releases'[d] \in Seq(Contents)
      BY <1>2, <1>r
    <3>2. m \in DOMAIN releases'[d]
      BY <1>m, <3>1
    <3> QED BY <1>2, <3>2, CourseParts
  <2>3. listed' \subseteq Courses'
    BY <1>1, <2>1, <2>2, TypeParts DEF StudioInv
  <2> QED BY <1>5, <1>6, <1>r, <2>3, TypeParts
<1>10. \A e \in Drafts : draft'[e] # draft[e] => Saw(t, e)
  BY <1>2, <1>5, <1>d DEF Saw, x
<1> QED BY <1>6, <1>7, <1>8, <1>9, <1>10 DEF StudioInv

LEMMA ArchiveStep ==
    ASSUME StudioInv, NEW t \in Tabs, NEW heard \in BOOLEAN, Archive(t, heard)
    PROVE  StudioInv' /\ (\A d \in Drafts : draft'[d] # draft[d] => Saw(t, d))
<1>d. PICK d \in Drafts : d = tab[t].draft
  BY MatchKnows DEF Archive
<1> DEFINE last == <<d, Len(releases[d])>>
<1>1. /\ Matches(t) /\ draft[d].revision < MaxRevision
      /\ draft' = [draft EXCEPT ![d] = ArchivedRow(d)]
      /\ releases' = releases
      /\ listed' = IF releases[d] = <<>> THEN listed
                   ELSE IF draft[d].archived THEN listed \cup {last}
                   ELSE listed \ {last}
      /\ tab' = tab \/ tab' = [tab EXCEPT ![t] = None]
  BY <1>d DEF Archive, ArchivedRow, Latest, Course
<1>2. /\ tab[t] \in TabRow /\ tab[t] # None
      /\ d \in Drafts /\ draft[d] \in DraftRow
      /\ tab[t].base = draft[d].data /\ tab[t].archived = draft[d].archived
  BY <1>1, <1>d, MatchKnows
<1>3. /\ draft \in [Drafts -> DraftRow] /\ tab \in [Tabs -> TabRow \cup {None}]
      /\ releases \in [Drafts -> Seq(Contents)]
  BY TypeParts DEF StudioInv
<1>n. NextRevision(d) \in 1 .. MaxRevision /\ NextRevision(d) > draft[d].revision
  BY <1>1, <1>2, NextRow
<1>c. draft[d].data \in Contents /\ draft[d].archived \in BOOLEAN
  BY <1>2 DEF DraftRow
<1>4. /\ ArchivedRow(d) \in DraftRow
      /\ ArchivedRow(d).data = draft[d].data /\ ArchivedRow(d).revision = NextRevision(d)
      /\ ArchivedRow(d).published = draft[d].published
      /\ ArchivedRow(d).archived = ~draft[d].archived
  BY <1>1, <1>2, <1>c, RowsMade
<1>5. /\ draft' \in [Drafts -> DraftRow] /\ draft'[d] = ArchivedRow(d)
      /\ \A e \in Drafts : e # d => draft'[e] = draft[e]
  BY <1>1, <1>2, <1>3, <1>4, RowStored
<1>6. tab' \in [Tabs -> TabRow \cup {None}] /\ TabsFollow'
  <2>1. Hears(None, d)
    BY DEF Hears
  <2> QED BY <1>1, <1>2, <1>3, <1>4, <1>5, <1>n, <2>1, HandlerTabs DEF StudioInv
<1>7. PublishedFollows' /\ PublishedMeansCurrent'
  BY <1>1, <1>2, <1>4, <1>5, <1>n, NotPublishing
<1>8. CatalogueShowsLatest'
  <2>1. \A c : \A e \in Drafts : e # d => (Offered(c, e)' <=> Offered(c, e))
    BY <1>1, <1>5 DEF Offered
  <2>2. \A c : Offered(c, d)' <=> c = last /\ releases[d] # <<>> /\ draft[d].archived
    BY <1>1, <1>4, <1>5, <1>c DEF Offered
  <2>3. \A c : Offered(c, d) <=> c = last /\ releases[d] # <<>> /\ ~draft[d].archived
    BY DEF Offered
  <2>4. \A c : \A e \in Drafts : Offered(c, e) /\ e # d => c # last
    BY DEF Offered
  <2>5. \A c : c \in listed <=> \E e \in Drafts : Offered(c, e)
    BY CatalogueParts DEF StudioInv
  <2> HIDE DEF last
  <2>6. \A c : c \in listed' <=> \E e \in Drafts : Offered(c, e)'
    <3> TAKE c
    <3>1. CASE releases[d] = <<>>
      BY <1>1, <1>2, <2>1, <2>2, <2>3, <2>5, <3>1
    <3>2. CASE releases[d] # <<>> /\ draft[d].archived
      BY <1>1, <1>2, <2>1, <2>2, <2>3, <2>5, <3>2
    <3>3. CASE releases[d] # <<>> /\ ~draft[d].archived
      BY <1>1, <1>2, <2>1, <2>2, <2>3, <2>4, <2>5, <3>3
    <3> QED BY <3>1, <3>2, <3>3
  <2> QED BY <2>6, CatalogueParts
<1>9. StudioTypeOK'
  <2>1. Courses' = Courses
    BY <1>1 DEF Courses, Course
  <2>2. releases[d] # <<>> => last \in Courses
    <3>1. releases[d] \in Seq(Contents)
      BY <1>2, <1>3
    <3>2. releases[d] # <<>> => Len(releases[d]) \in DOMAIN releases[d]
      BY <3>1
    <3> QED BY <1>2, <3>2, CourseParts
  <2>3. listed' \subseteq Courses'
    BY <1>1, <2>1, <2>2, TypeParts DEF StudioInv
  <2> QED BY <1>1, <1>3, <1>5, <1>6, <2>3, TypeParts DEF StudioInv
<1>10. \A e \in Drafts : draft'[e] # draft[e] => Saw(t, e)
  BY <1>2, <1>5, <1>d DEF Saw
<1> QED BY <1>6, <1>7, <1>8, <1>9, <1>10 DEF StudioInv

-----------------------------------------------------------------------------
(* The steps of the page. *)

LEMMA TabStep ==
    ASSUME StudioInv, NEW t \in Tabs,
           \/ \E d \in Drafts : Open(t, d)
           \/ \E x \in Contents : Edit(t, x)
    PROVE  StudioInv' /\ draft' = draft
<1>1. draft' = draft /\ releases' = releases /\ listed' = listed
  BY DEF Open, Edit
<1>2. draft \in [Drafts -> DraftRow] /\ tab \in [Tabs -> TabRow \cup {None}]
  BY TypeParts DEF StudioInv
<1>3. \E v \in TabRow :
          /\ tab' = [tab EXCEPT ![t] = v]
          /\ v.revision <= draft[v.draft].revision
          /\ v.revision = draft[v.draft].revision =>
                v.base = draft[v.draft].data /\ v.archived = draft[v.draft].archived
  <2>1. CASE \E d \in Drafts : Open(t, d)
    <3>1. PICK d \in Drafts : Open(t, d)
      BY <2>1
    <3> DEFINE v == [draft |-> d, data |-> draft[d].data, base |-> draft[d].data,
                     revision |-> draft[d].revision, archived |-> draft[d].archived]
    <3>2. draft[d] \in DraftRow
      BY <1>2
    <3>3. v \in TabRow /\ draft[d].revision <= draft[d].revision
      BY <3>2, StudioConstants DEF DraftRow, TabRow
    <3> QED BY <3>1, <3>3 DEF Open
  <2>2. CASE \E x \in Contents : Edit(t, x)
    <3>1. PICK x \in Contents : Edit(t, x)
      BY <2>2
    <3> DEFINE v == [tab[t] EXCEPT !.data = x]
    <3>2. tab[t] # None /\ tab' = [tab EXCEPT ![t] = v]
      BY <3>1 DEF Edit
    <3>3. tab[t] \in TabRow
      BY <1>2, <3>2
    <3>4. /\ v \in TabRow /\ v.draft = tab[t].draft /\ v.base = tab[t].base
          /\ v.revision = tab[t].revision /\ v.archived = tab[t].archived
      BY <3>3 DEF TabRow
    <3> QED BY <3>2, <3>4 DEF StudioInv, TabsFollow
  <2> QED BY <2>1, <2>2
<1>4. tab' \in [Tabs -> TabRow \cup {None}]
  BY <1>2, <1>3
<1>5. TabsFollow'
  BY <1>1, <1>2, <1>3 DEF StudioInv, TabsFollow
<1>6. Courses' = Courses
  BY <1>1 DEF Courses, Course
<1>7. StudioTypeOK'
  BY <1>1, <1>4, <1>6, TypeParts DEF StudioInv
<1>8. \A d : Latest(d)' = Latest(d)
  BY <1>1 DEF Latest, Course
<1>9. CatalogueShowsLatest' /\ PublishedFollows' /\ PublishedMeansCurrent'
  BY <1>1, <1>8 DEF StudioInv, CatalogueShowsLatest, PublishedFollows, PublishedMeansCurrent
<1> QED BY <1>1, <1>5, <1>7, <1>9 DEF StudioInv

LEMMA StutterStep ==
    ASSUME StudioInv, UNCHANGED studioVars
    PROVE  StudioInv' /\ draft' = draft
<1>1. draft' = draft /\ releases' = releases /\ listed' = listed /\ tab' = tab
  BY DEF studioVars
<1>2. Courses' = Courses /\ \A d : Latest(d)' = Latest(d)
  BY <1>1 DEF Courses, Latest, Course
<1> QED BY <1>1, <1>2 DEF StudioInv, StudioTypeOK, TabsFollow, PublishedFollows,
                          PublishedMeansCurrent, CatalogueShowsLatest

-----------------------------------------------------------------------------

LEMMA StudioInvInit == StudioInit => StudioInv
<1> SUFFICES ASSUME StudioInit PROVE StudioInv
  OBVIOUS
<1>1. Created \in DraftRow /\ \A x \in Contents, r \in BOOLEAN : Imported(x, r) \in DraftRow
  BY StudioConstants DEF Created, Imported, DraftRow
<1>2. draft \in [Drafts -> DraftRow]
  BY <1>1 DEF StudioInit
<1>3. ASSUME NEW d \in Drafts
      PROVE  /\ draft[d].revision = 1 /\ ~draft[d].archived
             /\ \/ draft[d].published = 0 /\ releases[d] = <<>>
                \/ /\ draft[d].published = 1 /\ draft[d].data \in Contents
                   /\ releases[d] = <<draft[d].data>>
  BY DEF StudioInit, Created, Imported
<1>4. releases \in [Drafts -> Seq(Contents)]
  <2>1. \A x \in Contents : <<x>> \in Seq(Contents)
    OBVIOUS
  <2>2. <<>> \in Seq(Contents)
    OBVIOUS
  <2>3. \A d \in Drafts : releases[d] \in Seq(Contents)
    BY <1>3, <2>1, <2>2
  <2> QED BY <2>3 DEF StudioInit
<1>5. StudioTypeOK /\ TabsFollow
  BY <1>2, <1>4, TypeParts DEF StudioInit, TabsFollow
<1>6. PublishedFollows
  BY <1>3 DEF PublishedFollows
<1>7. PublishedMeansCurrent
  <2>1. ASSUME NEW d \in Drafts, draft[d].published = draft[d].revision
        PROVE  releases[d] # <<>> /\ Last(releases[d]) = draft[d].data
    <3>1. releases[d] = <<draft[d].data>>
      BY <1>3, <2>1
    <3>2. <<draft[d].data>> # <<>> /\ Len(<<draft[d].data>>) = 1
          /\ <<draft[d].data>>[1] = draft[d].data
      OBVIOUS
    <3> QED BY <3>1, <3>2 DEF Last
  <2> QED BY <2>1 DEF PublishedMeansCurrent
<1>8. CatalogueShowsLatest
  <2>1. \A d \in Drafts : \A n : n \in DOMAIN releases[d]
            <=> n = Len(releases[d]) /\ releases[d] # <<>> /\ ~draft[d].archived
    <3> TAKE d \in Drafts
    <3> TAKE n
    <3>1. CASE releases[d] = <<>>
      BY <1>3, <3>1
    <3>2. CASE releases[d] = <<draft[d].data>>
      <4>1. DOMAIN <<draft[d].data>> = {1} /\ Len(<<draft[d].data>>) = 1
            /\ <<draft[d].data>> # <<>>
        OBVIOUS
      <4> QED BY <1>3, <3>2, <4>1
    <3> QED BY <1>3, <3>1, <3>2
  <2>2. \A c : c \in Courses <=> \E d \in Drafts : Offered(c, d)
    BY <2>1, CourseParts DEF Offered
  <2> QED BY <2>2, CatalogueParts DEF StudioInit
<1> QED BY <1>5, <1>6, <1>7, <1>8 DEF StudioInv

LEMMA StudioInvNext ==
    ASSUME StudioInv, [StudioNext]_studioVars
    PROVE  /\ StudioInv'
           /\ \A d \in Drafts : draft'[d] # draft[d] => \E t \in Tabs : Saw(t, d)
<1>1. CASE UNCHANGED studioVars
  BY <1>1, StutterStep
<1>2. ASSUME NEW t \in Tabs, (\E d \in Drafts : Open(t, d)) \/ (\E x \in Contents : Edit(t, x))
      PROVE  StudioInv' /\ draft' = draft
  BY <1>2, TabStep
<1>3. ASSUME NEW t \in Tabs, NEW heard \in BOOLEAN,
             Save(t, heard) \/ Publish(t, heard) \/ Archive(t, heard)
      PROVE  StudioInv' /\ (\A d \in Drafts : draft'[d] # draft[d] => Saw(t, d))
  BY <1>3, SaveStep, PublishStep, ArchiveStep
<1> QED BY <1>1, <1>2, <1>3 DEF StudioNext

\* The rows and tabs of the studio are what the schema and the page allow.
THEOREM StudioTypes == StudioSpec => []StudioTypeOK
<1>1. StudioInv /\ [StudioNext]_studioVars => StudioInv'
  BY StudioInvNext
<1>2. StudioInv => StudioTypeOK
  BY DEF StudioInv
<1> QED BY <1>1, <1>2, StudioInvInit, PTL DEF StudioSpec

\* The catalogue offers exactly the newest release of each draft that is not
\* archived (publish, archive).
THEOREM CatalogueIsRight == StudioSpec => []CatalogueShowsLatest
<1>1. StudioInv /\ [StudioNext]_studioVars => StudioInv'
  BY StudioInvNext
<1>2. StudioInv => CatalogueShowsLatest
  BY DEF StudioInv
<1> QED BY <1>1, <1>2, StudioInvInit, PTL DEF StudioSpec

\* A draft marked as published has the content of its last release, so that
\* publish_course may answer a repeated request with that course.
THEOREM PublishedIsCurrent == StudioSpec => []PublishedMeansCurrent
<1>1. StudioInv /\ [StudioNext]_studioVars => StudioInv'
  BY StudioInvNext
<1>2. StudioInv => PublishedMeansCurrent
  BY DEF StudioInv
<1> QED BY <1>1, <1>2, StudioInvInit, PTL DEF StudioSpec

\* Each change of a draft is made by a tab that showed what it changes.
THEOREM NobodyOverwritesUnseen == StudioSpec => ActsOnWhatItSaw
<1>1. StudioInv /\ [StudioNext]_studioVars => StudioInv'
  BY StudioInvNext
<1>2. StudioInv /\ [StudioNext]_studioVars =>
         [\A d \in Drafts : draft'[d] # draft[d] => \E t \in Tabs : Saw(t, d)]_studioVars
  BY StudioInvNext
<1> QED BY <1>1, <1>2, StudioInvInit, PTL DEF StudioSpec, ActsOnWhatItSaw

(***************************************************************************)
(* Classroom: the inductive invariant.                                     *)
(***************************************************************************)
ChangeRow == [group : Groups, joining : SUBSET Users, courses : SUBSET Courses,
              todo : Seq(Users), given : SUBSET Target]
EnrolRow == [course : Courses, listed : BOOLEAN]

Types ==
    /\ enrolled \subseteq Users \X Courses
    /\ blocked \subseteq Users /\ closed \subseteq Groups
    /\ members \in [Groups -> SUBSET Users]
    /\ assigned \in [Groups -> SUBSET Courses]
    /\ targets \subseteq Target
    /\ change \in [Handlers -> ChangeRow \cup {None}]
    /\ enrolling \in [Users -> EnrolRow \cup {None}]
    /\ holder \in [Users -> Handlers \cup {Self, None}]
    /\ leftOut \subseteq Groups \X Courses \X Users

\* One request at a time changes a group.
Alone ==
    \A h, k \in Handlers :
        change[h] # None /\ change[k] # None /\ change[h].group = change[k].group => h = k

\* No group has two releases of one course, nor will it when a change of it is
\* through.
OneEach(S) == \A a, b \in S : a[1] = b[1] => a = b
Distinct ==
    /\ \A g \in Groups : OneEach(assigned[g])
    /\ \A h \in Handlers : change[h] # None => OneEach(assigned[change[h].group] \cup change[h].courses)

\* A request asks for the accounts in rising order and holds those it has
\* given something, until it is through.
Rising(q) == \A i, j \in DOMAIN q : i < j => q[i] < q[j]
Before(u, q) == \A i \in DOMAIN q : u < q[i]
Locks ==
    /\ \A u \in Users : enrolling[u] # None => holder[u] = Self
    /\ \A u \in Users, h \in Handlers :
          holder[u] = h => change[h] # None /\ Before(u, change[h].todo)
    /\ \A h \in Handlers : change[h] # None =>
          Rising(change[h].todo) /\ \A t \in change[h].given : holder[t.user] = h

\* What a request is about to give fits what its student studies, and one
\* course of it.
Agree(e, f) == e[1] = f[1] /\ e[2][1] = f[2][1] => e[2] = f[2]
Fits(t, E) == t.course[1] = t.assigned[1] /\ \A e \in E : Agree(e, <<t.user, t.course>>)
Proper(k, E) ==
    /\ \A t \in k.given : t.group = k.group /\ t.assigned \in k.courses /\ Fits(t, E)
    /\ \A s, t \in k.given : s.user = t.user /\ s.assigned[1] = t.assigned[1] => s.course = t.course
Giving == \A h \in Handlers : change[h] # None => Proper(change[h], enrolled)

\* A student has one release of a course and studies what his groups gave him.
Studies ==
    /\ \A e, f \in enrolled : Agree(e, f)
    /\ \A t \in targets : <<t.user, t.course>> \in enrolled /\ t.course[1] = t.assigned[1]

\* A change k under way has given, or has yet to give, what its group will owe
\* its members M for its courses A; T are the rows of targets, L is leftOut.
Covers(T, g, c, u) == \E t \in T : t.group = g /\ t.assigned = c /\ t.user = u
Pending(k, u, c, T, L) ==
    \/ Covers(T, k.group, c, u)
    \/ c \in k.courses /\ \E i \in DOMAIN k.todo : k.todo[i] = u
    \/ \E t \in k.given : t.user = u /\ t.assigned = c
    \/ <<k.group, c, u>> \in L /\ u \notin k.joining
Owes(k, M, A, T, L) ==
    \A u \in M \cup k.joining, c \in A \cup k.courses : Pending(k, u, c, T, L)
Owed ==
    \A h \in Handlers : change[h] # None =>
        Owes(change[h], members[change[h].group], assigned[change[h].group], targets, leftOut)

ClassroomInv ==
    /\ StudioInv /\ Types /\ Alone /\ Distinct /\ Locks /\ Giving /\ Studies
    /\ MembersAreAssigned /\ Owed

-----------------------------------------------------------------------------
(* Courses, rows and locks. *)

LEMMA CoursesStay == ASSUME UNCHANGED studioVars PROVE Courses' = Courses
BY DEF studioVars, Courses, Course

\* A release is never taken back.
LEMMA CoursesGrow == ASSUME StudioInv, [StudioNext]_studioVars PROVE Courses \subseteq Courses'
<1>1. releases \in [Drafts -> Seq(Contents)] /\ tab \in [Tabs -> TabRow \cup {None}]
  BY TypeParts DEF StudioInv
<1>2. releases' = releases \/ \E d \in Drafts : \E x : releases' = [releases EXCEPT ![d] = Append(@, x)]
  <2>1. CASE UNCHANGED studioVars
    BY <2>1 DEF studioVars
  <2>2. ASSUME NEW t \in Tabs, NEW heard \in BOOLEAN, Publish(t, heard)
        PROVE  \E d \in Drafts : \E x : releases' = [releases EXCEPT ![d] = Append(@, x)]
    <3>1. tab[t].draft \in Drafts
      BY <1>1, <2>2 DEF Publish, Matches, TabRow
    <3> QED BY <2>2, <3>1 DEF Publish
  <2>3. ASSUME NEW t \in Tabs,
               \/ \E d \in Drafts : Open(t, d)
               \/ \E x \in Contents : Edit(t, x)
               \/ \E heard \in BOOLEAN : Save(t, heard) \/ Archive(t, heard)
        PROVE  releases' = releases
    BY <2>3 DEF Open, Edit, Save, Archive
  <2> QED BY <2>1, <2>2, <2>3 DEF StudioNext
<1>3. ASSUME NEW d \in Drafts, NEW n \in DOMAIN releases[d]
      PROVE  n \in DOMAIN releases'[d]
  <2>1. CASE releases' = releases
    BY <2>1
  <2>2. ASSUME NEW b \in Drafts, NEW x, releases' = [releases EXCEPT ![b] = Append(@, x)]
        PROVE  n \in DOMAIN releases'[d]
    <3>1. CASE b # d
      BY <1>1, <2>2, <3>1
    <3>2. CASE b = d
      <4>1. releases'[d] = Append(releases[d], x) /\ releases[d] \in Seq(Contents)
        BY <1>1, <2>2, <3>2
      <4>2. DOMAIN releases[d] = 1 .. Len(releases[d]) /\ Len(releases[d]) \in Nat
        BY <4>1
      <4>3. DOMAIN Append(releases[d], x) = 1 .. (Len(releases[d]) + 1)
        BY <4>1, <4>2
      <4>4. n \in 1 .. (Len(releases[d]) + 1)
        BY <4>2
      <4> QED BY <4>1, <4>3, <4>4
    <3> QED BY <3>1, <3>2
  <2> QED BY <1>2, <2>1, <2>2
<1> QED BY <1>3, CourseParts

LEMMA NoneIsNoRow == ASSUME StudioInv PROVE None \notin ChangeRow
<1>1. releases \in [Drafts -> Seq(Contents)]
  BY TypeParts DEF StudioInv
<1>2. Courses \subseteq Drafts \X Nat
  <2> SUFFICES ASSUME NEW d \in Drafts, NEW n \in DOMAIN releases[d] PROVE <<d, n>> \in Drafts \X Nat
    BY CourseParts
  <2>1. releases[d] \in Seq(Contents)
    BY <1>1
  <2>2. n \in Nat
    BY <2>1
  <2> QED BY <2>2
<1> DEFINE all == [group : Groups, assigned : Drafts \X Nat, user : Users, course : Drafts \X Nat]
<1>3. Target \subseteq all
  BY <1>2 DEF Target
<1> HIDE DEF all
<1>4. ChangeRow \subseteq [group : Groups, joining : SUBSET Users, courses : SUBSET (Drafts \X Nat),
                           todo : Seq(Users), given : SUBSET all]
  BY <1>2, <1>3 DEF ChangeRow
<1> QED BY <1>4, ClassroomConstants DEF all

\* What the type of a change says of its fields.
Fields(k) ==
    /\ k.group \in Groups /\ k.joining \subseteq Users /\ k.courses \subseteq Courses
    /\ k.todo \in Seq(Users) /\ k.given \subseteq Target

LEMMA RowFields ==
    /\ \A k \in ChangeRow : Fields(k)
    /\ \A t \in Target : /\ t.group \in Groups /\ t.assigned \in Courses
                         /\ t.user \in Users /\ t.course \in Courses
BY DEF ChangeRow, Target, Fields

LEMMA UnderWay ==
    ASSUME Types, NEW h \in Handlers, change[h] # None
    PROVE  change[h] \in ChangeRow /\ Fields(change[h])
BY RowFields DEF Types

\* The types after a step of somebody else than the studio.
LEMMA TypesAfter ==
    ASSUME Courses' = Courses,
           enrolled' \subseteq Users \X Courses,
           blocked' \subseteq Users, closed' \subseteq Groups,
           members' \in [Groups -> SUBSET Users],
           assigned' \in [Groups -> SUBSET Courses],
           targets' \subseteq Target,
           change' \in [Handlers -> ChangeRow \cup {None}],
           enrolling' \in [Users -> EnrolRow \cup {None}],
           holder' \in [Users -> Handlers \cup {Self, None}],
           leftOut' \subseteq Groups \X Courses \X Users
    PROVE  Types'
<1>1. Target' = Target /\ EnrolRow' = EnrolRow
  BY DEF Target, EnrolRow
<1>2. ChangeRow' = ChangeRow
  BY <1>1 DEF ChangeRow
<1> QED BY <1>1, <1>2 DEF Types

\* A step of somebody else leaves the studio as it is.
LEMMA StudioStays ==
    ASSUME StudioInv, UNCHANGED studioVars
    PROVE  StudioInv' /\ Courses' = Courses
BY CoursesStay, StutterStep

\* The course of an assignment that a student is given is of the draft that is
\* assigned, and goes with everything he studies.
LEMMA FollowedFits ==
    ASSUME Types, Studies, NEW u \in Users, NEW c \in Courses
    PROVE  /\ Followed(u, c) \in Courses /\ Followed(u, c)[1] = c[1]
           /\ \A e \in enrolled : Agree(e, <<u, Followed(u, c)>>)
<1>1. \A e \in enrolled : e = <<e[1], e[2]>> /\ e[1] \in Users /\ e[2] \in Courses
  BY DEF Types
<1>2. CASE EnrolledIn(u, c[1]) = {}
  <2>1. \A e \in enrolled : ~(e[1] = u /\ e[2][1] = c[1])
    BY <1>1, <1>2 DEF EnrolledIn
  <2> QED BY <1>2, <2>1 DEF Followed, Agree
<1>3. CASE EnrolledIn(u, c[1]) # {}
  <2>1. Followed(u, c) \in EnrolledIn(u, c[1])
    BY <1>3 DEF Followed
  <2>2. /\ Followed(u, c) \in Courses /\ Followed(u, c)[1] = c[1]
        /\ <<u, Followed(u, c)>> \in enrolled
    BY <2>1 DEF EnrolledIn
  <2> QED BY <2>2 DEF Studies
<1> QED BY <1>2, <1>3

-----------------------------------------------------------------------------
(* A student enrols. *)

LEMMA StartEnrolStep ==
    ASSUME ClassroomInv, NEW u \in Users, NEW c \in Courses, StartEnrol(u, c)
    PROVE  ClassroomInv'
<1>1. /\ holder[u] = None
      /\ holder' = [holder EXCEPT ![u] = Self]
      /\ enrolling' = [enrolling EXCEPT ![u] = [course |-> c, listed |-> c \in listed]]
      /\ enrolled' = enrolled /\ blocked' = blocked
      /\ members' = members /\ closed' = closed /\ assigned' = assigned
      /\ targets' = targets /\ change' = change /\ leftOut' = leftOut
      /\ UNCHANGED studioVars
  BY DEF StartEnrol, Lockable, groupVars
<1>2. Types
  BY DEF ClassroomInv
<1>3. StudioInv' /\ Courses' = Courses
  BY <1>1, StudioStays DEF ClassroomInv
<1>4. Types'
  <2>1. enrolling' \in [Users -> EnrolRow \cup {None}]
    BY <1>1, <1>2 DEF Types, EnrolRow
  <2>2. holder' \in [Users -> Handlers \cup {Self, None}]
    BY <1>1, <1>2 DEF Types
  <2>3. /\ enrolled' \subseteq Users \X Courses
        /\ blocked' \subseteq Users /\ closed' \subseteq Groups
        /\ members' \in [Groups -> SUBSET Users]
        /\ assigned' \in [Groups -> SUBSET Courses]
        /\ targets' \subseteq Target
        /\ change' \in [Handlers -> ChangeRow \cup {None}]
        /\ leftOut' \subseteq Groups \X Courses \X Users
    BY <1>1, <1>2 DEF Types
  <2> QED BY <1>3, <2>1, <2>2, <2>3, TypesAfter
<1>5. \A v \in Users : v # u => holder'[v] = holder[v] /\ enrolling'[v] = enrolling[v]
  BY <1>1, <1>2 DEF Types
<1>6. holder'[u] = Self
  BY <1>1, <1>2 DEF Types
<1>7. Locks'
  <2>1. \A v \in Users : enrolling'[v] # None => holder'[v] = Self
    BY <1>5, <1>6 DEF ClassroomInv, Locks
  <2>2. ASSUME NEW v \in Users, NEW h \in Handlers, holder'[v] = h
        PROVE  change'[h] # None /\ Before(v, change'[h].todo)
    <3>1. v # u
      BY <1>6, <2>2, ClassroomConstants
    <3> QED BY <1>1, <1>5, <2>2, <3>1 DEF ClassroomInv, Locks
  <2>3. ASSUME NEW h \in Handlers, change'[h] # None
        PROVE  Rising(change'[h].todo) /\ \A t \in change'[h].given : holder'[t.user] = h
    <3>1. change'[h] = change[h] /\ change[h].given \subseteq Target
      BY <1>1, <1>2, <2>3, UnderWay DEF Fields
    <3>2. \A t \in change[h].given : holder[t.user] = h /\ t.user \in Users
      BY <2>3, <3>1, RowFields DEF ClassroomInv, Locks
    <3>3. \A t \in change[h].given : holder'[t.user] = h
      BY <1>1, <1>5, <3>2, ClassroomConstants
    <3> QED BY <2>3, <3>1, <3>3 DEF ClassroomInv, Locks
  <2> QED BY <2>1, <2>2, <2>3 DEF Locks
<1>8. Alone' /\ Distinct' /\ Giving' /\ Studies'
  BY <1>1 DEF ClassroomInv, Alone, Distinct, Giving, Studies
<1>9. MembersAreAssigned' /\ Owed'
  BY <1>1 DEF ClassroomInv, MembersAreAssigned, HasTarget, Owed
<1> QED BY <1>3, <1>4, <1>7, <1>8, <1>9 DEF ClassroomInv

\* Enrolling a student who has no release of the course.
LEMMA EnrolmentAdded ==
    ASSUME ClassroomInv, NEW u \in Users, NEW c \in Courses,
           \/ enrolled' = enrolled
           \/ enrolled' = enrolled \cup {<<u, c>>} /\ EnrolledIn(u, c[1]) = {},
           holder[u] = Self
    PROVE  /\ enrolled \subseteq enrolled' /\ enrolled' \subseteq Users \X Courses
           /\ \A e, f \in enrolled' : Agree(e, f)
           /\ \A h \in Handlers : change[h] # None => Proper(change[h], enrolled')
<1>t. Types
  BY DEF ClassroomInv
<1>1. enrolled \subseteq enrolled' /\ enrolled' \subseteq Users \X Courses
  BY <1>t DEF Types
<1>2. CASE enrolled' = enrolled
  BY <1>1, <1>2 DEF ClassroomInv, Studies, Giving
<1>3. CASE enrolled' = enrolled \cup {<<u, c>>} /\ EnrolledIn(u, c[1]) = {}
  <2>1. \A e \in enrolled : e = <<e[1], e[2]>> /\ e[1] \in Users /\ e[2] \in Courses
    BY <1>t DEF Types
  <2>2. \A e \in enrolled : ~(e[1] = u /\ e[2][1] = c[1])
    BY <1>3, <2>1 DEF EnrolledIn
  <2>3. \A e, f \in enrolled' : Agree(e, f)
    BY <1>3, <2>2 DEF ClassroomInv, Studies, Agree
  <2>4. ASSUME NEW h \in Handlers, change[h] # None
        PROVE  Proper(change[h], enrolled')
    <3>1. Proper(change[h], enrolled)
      BY <2>4 DEF ClassroomInv, Giving
    <3>2. \A t \in change[h].given : t.user # u
      BY <2>4, ClassroomConstants DEF ClassroomInv, Locks
    <3>3. \A t \in change[h].given : Agree(<<u, c>>, <<t.user, t.course>>)
      BY <3>2 DEF Agree
    <3>4. \A t \in change[h].given : Fits(t, enrolled) => Fits(t, enrolled')
      BY <1>3, <3>3 DEF Fits
    <3> QED BY <3>1, <3>4 DEF Proper
  <2> QED BY <1>1, <2>3, <2>4
<1> QED BY <1>2, <1>3

LEMMA FinishEnrolStep ==
    ASSUME ClassroomInv, NEW u \in Users, FinishEnrol(u)
    PROVE  ClassroomInv'
<1>t. Types
  BY DEF ClassroomInv
<1>1. /\ enrolling[u] # None
      /\ enrolling' = [enrolling EXCEPT ![u] = None]
      /\ holder' = [holder EXCEPT ![u] = None]
      /\ blocked' = blocked
      /\ members' = members /\ closed' = closed /\ assigned' = assigned
      /\ targets' = targets /\ change' = change /\ leftOut' = leftOut
      /\ UNCHANGED studioVars
  BY DEF FinishEnrol, groupVars
<1>2. enrolling[u].course \in Courses
  BY <1>t, <1>1 DEF Types, EnrolRow
<1>3. /\ \/ enrolled' = enrolled
         \/ /\ enrolled' = enrolled \cup {<<u, enrolling[u].course>>}
            /\ EnrolledIn(u, enrolling[u].course[1]) = {}
      /\ holder[u] = Self
  BY <1>1 DEF FinishEnrol, ClassroomInv, Locks
<1>4. /\ enrolled \subseteq enrolled' /\ enrolled' \subseteq Users \X Courses
      /\ \A e, f \in enrolled' : Agree(e, f)
      /\ \A h \in Handlers : change[h] # None => Proper(change[h], enrolled')
  BY <1>2, <1>3, EnrolmentAdded
<1>5. StudioInv' /\ Courses' = Courses
  BY <1>1, StudioStays DEF ClassroomInv
<1>6. Types'
  <2>1. enrolling' \in [Users -> EnrolRow \cup {None}]
    BY <1>1, <1>t DEF Types
  <2>2. holder' \in [Users -> Handlers \cup {Self, None}]
    BY <1>1, <1>t DEF Types
  <2>3. /\ blocked' \subseteq Users /\ closed' \subseteq Groups
        /\ members' \in [Groups -> SUBSET Users]
        /\ assigned' \in [Groups -> SUBSET Courses]
        /\ targets' \subseteq Target
        /\ change' \in [Handlers -> ChangeRow \cup {None}]
        /\ leftOut' \subseteq Groups \X Courses \X Users
    BY <1>1, <1>t DEF Types
  <2> QED BY <1>4, <1>5, <2>1, <2>2, <2>3, TypesAfter
<1>7. /\ \A v \in Users : v # u => holder'[v] = holder[v] /\ enrolling'[v] = enrolling[v]
      /\ holder'[u] = None /\ enrolling'[u] = None
  BY <1>1, <1>t DEF Types
<1>8. Locks'
  <2>1. \A v \in Users : enrolling'[v] # None => holder'[v] = Self
    BY <1>7 DEF ClassroomInv, Locks
  <2>2. ASSUME NEW v \in Users, NEW h \in Handlers, holder'[v] = h
        PROVE  change'[h] # None /\ Before(v, change'[h].todo)
    <3>1. v # u
      BY <1>7, <2>2, ClassroomConstants
    <3> QED BY <1>1, <1>7, <2>2, <3>1 DEF ClassroomInv, Locks
  <2>3. ASSUME NEW h \in Handlers, change'[h] # None
        PROVE  Rising(change'[h].todo) /\ \A t \in change'[h].given : holder'[t.user] = h
    <3>1. change'[h] = change[h] /\ change[h].given \subseteq Target
      BY <1>1, <1>t, <2>3, UnderWay DEF Fields
    <3>2. \A t \in change[h].given : holder[t.user] = h /\ t.user \in Users
      BY <2>3, <3>1, RowFields DEF ClassroomInv, Locks
    <3>3. \A t \in change[h].given : holder'[t.user] = h
      <4> SUFFICES ASSUME NEW t \in change[h].given PROVE holder'[t.user] = h
        OBVIOUS
      <4>1. t.user \in Users /\ holder[t.user] = h /\ h # Self
        BY <3>2, ClassroomConstants
      <4>2. t.user # u
        BY <1>3, <4>1
      <4> QED BY <1>7, <4>1, <4>2
    <3> QED BY <2>3, <3>1, <3>3 DEF ClassroomInv, Locks
  <2> QED BY <2>1, <2>2, <2>3 DEF Locks
<1>9. Alone' /\ Distinct' /\ MembersAreAssigned' /\ Owed'
  BY <1>1 DEF ClassroomInv, Alone, Distinct, MembersAreAssigned, HasTarget, Owed
<1>10. Giving'
  BY <1>1, <1>4 DEF Giving
<1>11. Studies'
  BY <1>1, <1>4 DEF ClassroomInv, Studies
<1> QED BY <1>5, <1>6, <1>8, <1>9, <1>10, <1>11 DEF ClassroomInv

-----------------------------------------------------------------------------
(* Steps that leave the changes under way, the rows of targets and what the   *)
(* students study as they are, and the groups at most smaller.                *)
LEMMA QuietStep ==
    ASSUME ClassroomInv,
           UNCHANGED <<studioVars, enrolled, assigned, targets, change, enrolling, holder, leftOut>>,
           blocked' \subseteq Users, closed' \subseteq Groups,
           members' \in [Groups -> SUBSET Users],
           \A g \in Groups : members'[g] \subseteq members[g]
    PROVE  ClassroomInv'
<1>1. StudioInv' /\ Courses' = Courses
  BY StudioStays DEF ClassroomInv
<1>2. Types'
  BY <1>1, TypesAfter DEF ClassroomInv, Types
<1>3. Alone' /\ Distinct' /\ Locks' /\ Giving' /\ Studies'
  BY DEF ClassroomInv, Alone, Distinct, Locks, Giving, Studies
<1>4. MembersAreAssigned'
  BY DEF ClassroomInv, MembersAreAssigned, HasTarget
<1>5. Owed'
  <2> SUFFICES ASSUME NEW h \in Handlers, change[h] # None
               PROVE  Owes(change[h], members'[change[h].group], assigned[change[h].group],
                           targets, leftOut)
    BY DEF Owed
  <2>1. Owes(change[h], members[change[h].group], assigned[change[h].group], targets, leftOut)
    BY DEF ClassroomInv, Owed
  <2>2. members'[change[h].group] \subseteq members[change[h].group]
    BY UnderWay DEF ClassroomInv, Fields
  <2> QED BY <2>1, <2>2 DEF Owes
<1> QED BY <1>1, <1>2, <1>3, <1>4, <1>5 DEF ClassroomInv

LEMMA ToggleStep ==
    ASSUME ClassroomInv, NEW u \in Users, Toggle(u)
    PROVE  ClassroomInv'
<1>1. blocked' \subseteq Users
  BY DEF ClassroomInv, Types, Toggle
<1>2. closed' \subseteq Groups /\ members' \in [Groups -> SUBSET Users] /\ members' = members
  BY DEF ClassroomInv, Types, Toggle, groupVars
<1> QED BY <1>1, <1>2, QuietStep DEF Toggle, groupVars

LEMMA ArchiveGroupStep ==
    ASSUME ClassroomInv, NEW g \in Groups, ArchiveGroup(g)
    PROVE  ClassroomInv'
<1>1. closed' \subseteq Groups
  BY DEF ClassroomInv, Types, ArchiveGroup
<1>2. blocked' \subseteq Users /\ members' \in [Groups -> SUBSET Users] /\ members' = members
  BY DEF ClassroomInv, Types, ArchiveGroup, enrolVars
<1> QED BY <1>1, <1>2, QuietStep DEF ArchiveGroup, enrolVars

LEMMA RemoveMemberStep ==
    ASSUME ClassroomInv, NEW g \in Groups, NEW u \in Users, RemoveMember(g, u)
    PROVE  ClassroomInv'
<1>1. /\ members' \in [Groups -> SUBSET Users]
      /\ \A b \in Groups : members'[b] \subseteq members[b]
  BY DEF ClassroomInv, Types, RemoveMember
<1>2. blocked' \subseteq Users /\ closed' \subseteq Groups
  BY DEF ClassroomInv, Types, RemoveMember, enrolVars
<1> QED BY <1>1, <1>2, QuietStep DEF RemoveMember, enrolVars

-----------------------------------------------------------------------------
(* A teacher begins a change of a group. *)

NewRow(g, joining, courses, people) ==
    [group |-> g, joining |-> joining, courses |-> courses, todo |-> people, given |-> {}]

LEMMA BeginStep ==
    ASSUME ClassroomInv, NEW h \in Handlers, NEW g \in Groups, NEW joining \in SUBSET Users,
           NEW courses \in SUBSET Courses, NEW people \in Seq(Users),
           Begin(h, g, joining, courses, people),
           Rising(people), OneEach(assigned[g] \cup courses),
           leftOut' \subseteq Groups \X Courses \X Users, leftOut \subseteq leftOut',
           \A u \in members[g] \cup joining, c \in assigned[g] \cup courses :
              \/ HasTarget(g, c, u)
              \/ c \in courses /\ \E i \in DOMAIN people : people[i] = u
              \/ <<g, c, u>> \in leftOut' /\ u \notin joining
    PROVE  ClassroomInv'
<1> DEFINE n == NewRow(g, joining, courses, people)
<1>t. Types
  BY DEF ClassroomInv
<1>1. /\ change[h] = None
      /\ change' = [change EXCEPT ![h] = n]
      /\ enrolled' = enrolled /\ blocked' = blocked /\ enrolling' = enrolling /\ holder' = holder
      /\ members' = members /\ closed' = closed /\ assigned' = assigned
      /\ targets' = targets /\ UNCHANGED studioVars
  BY DEF Begin, NewRow, enrolVars
<1>g. \A k \in Handlers : change[k] # None => change[k].group # g
  BY DEF Begin, GroupFree
<1>2. /\ n.group = g /\ n.joining = joining /\ n.courses = courses /\ n.todo = people
      /\ n.given = {}
  BY DEF NewRow
<1>3. n \in ChangeRow
  BY DEF NewRow, ChangeRow
<1> HIDE DEF n
<1>4. /\ change'[h] = n /\ n # None
      /\ \A k \in Handlers : k # h => change'[k] = change[k]
  BY <1>1, <1>3, <1>t, NoneIsNoRow DEF ClassroomInv, Types
<1>5. StudioInv' /\ Courses' = Courses
  BY <1>1, StudioStays DEF ClassroomInv
<1>6. Types'
  <2>1. change' \in [Handlers -> ChangeRow \cup {None}]
    BY <1>1, <1>3, <1>t DEF Types
  <2>2. /\ enrolled' \subseteq Users \X Courses
        /\ blocked' \subseteq Users /\ closed' \subseteq Groups
        /\ members' \in [Groups -> SUBSET Users]
        /\ assigned' \in [Groups -> SUBSET Courses]
        /\ targets' \subseteq Target
        /\ enrolling' \in [Users -> EnrolRow \cup {None}]
        /\ holder' \in [Users -> Handlers \cup {Self, None}]
    BY <1>1, <1>t DEF Types
  <2> QED BY <1>5, <2>1, <2>2, TypesAfter
<1>7. Alone'
  BY <1>2, <1>4, <1>g DEF ClassroomInv, Alone
<1>8. Distinct'
  BY <1>1, <1>2, <1>4 DEF ClassroomInv, Distinct
<1>9. Locks'
  <2>1. \A u \in Users : holder[u] # h
    BY <1>1 DEF ClassroomInv, Locks
  <2>2. \A u \in Users : enrolling'[u] # None => holder'[u] = Self
    BY <1>1 DEF ClassroomInv, Locks
  <2>3. \A u \in Users, k \in Handlers :
           holder'[u] = k => change'[k] # None /\ Before(u, change'[k].todo)
    BY <1>1, <1>4, <2>1 DEF ClassroomInv, Locks
  <2>4. \A k \in Handlers : change'[k] # None =>
           Rising(change'[k].todo) /\ \A t \in change'[k].given : holder'[t.user] = k
    BY <1>1, <1>2, <1>4 DEF ClassroomInv, Locks
  <2> QED BY <2>2, <2>3, <2>4 DEF Locks
<1>10. Giving'
  BY <1>1, <1>2, <1>4 DEF ClassroomInv, Giving, Proper
<1>11. Studies' /\ MembersAreAssigned'
  <2>1. Studies'
    BY <1>1 DEF ClassroomInv, Studies
  <2>2. MembersAreAssigned'
    BY <1>1 DEF ClassroomInv, MembersAreAssigned, HasTarget
  <2> QED BY <2>1, <2>2
<1>12. Owed'
  <2>1. Owes(n, members[g], assigned[g], targets, leftOut')
    BY <1>2 DEF Owes, Pending, Covers, HasTarget
  <2>2. ASSUME NEW k \in Handlers, change'[k] # None
        PROVE  Owes(change'[k], members'[change'[k].group], assigned'[change'[k].group],
                    targets', leftOut')
    <3>1. CASE k = h
      BY <1>1, <1>2, <1>4, <2>1, <3>1
    <3>2. CASE k # h
      <4>1. Owes(change[k], members[change[k].group], assigned[change[k].group], targets, leftOut)
        BY <1>4, <2>2, <3>2 DEF ClassroomInv, Owed
      <4>2. Owes(change[k], members[change[k].group], assigned[change[k].group], targets, leftOut')
        BY <4>1 DEF Owes, Pending
      <4> QED BY <1>1, <1>4, <3>2, <4>2
    <3> QED BY <3>1, <3>2
  <2> QED BY <2>2 DEF Owed
<1> QED BY <1>5, <1>6, <1>7, <1>8, <1>9, <1>10, <1>11, <1>12 DEF ClassroomInv

LEMMA AddMemberStep ==
    ASSUME ClassroomInv, NEW h \in Handlers, NEW g \in Groups, NEW u \in Users, AddMember(h, g, u)
    PROVE  ClassroomInv'
<1>t. Types
  BY DEF ClassroomInv
<1>1. /\ Begin(h, g, {u}, assigned[g], <<u>>) /\ leftOut' = leftOut
      /\ assigned[g] \in SUBSET Courses /\ {u} \in SUBSET Users
      /\ leftOut' \subseteq Groups \X Courses \X Users
  BY <1>t DEF AddMember, Types
<1>2. /\ <<u>> \in Seq(Users) /\ DOMAIN <<u>> = {1} /\ <<u>>[1] = u
  OBVIOUS
<1>3. Rising(<<u>>)
  BY <1>2 DEF Rising
<1>4. OneEach(assigned[g] \cup assigned[g])
  BY DEF ClassroomInv, Distinct, OneEach
<1>5. ASSUME NEW v \in members[g] \cup {u}, NEW c \in assigned[g] \cup assigned[g]
      PROVE  \/ HasTarget(g, c, v)
             \/ c \in assigned[g] /\ \E i \in DOMAIN <<u>> : <<u>>[i] = v
             \/ <<g, c, v>> \in leftOut' /\ v \notin {u}
  <2>1. CASE v = u
    BY <1>2, <2>1
  <2>2. CASE v # u
    <3>1. HasTarget(g, c, v) \/ <<g, c, v>> \in leftOut
      BY <2>2 DEF ClassroomInv, MembersAreAssigned
    <3> QED BY <1>1, <2>2, <3>1
  <2> QED BY <2>1, <2>2
<1>6. leftOut \subseteq leftOut'
  BY <1>1
<1> QED BY <1>1, <1>2, <1>3, <1>4, <1>5, <1>6, BeginStep

\* An order of the people of a finite set has all of them.
LEMMA OrdersAreComplete ==
    ASSUME NEW S, IsFiniteSet(S), NEW people \in Orders(S)
    PROVE  /\ people \in Seq(S)
           /\ \A u \in S : \E i \in DOMAIN people : people[i] = u
           /\ Rising(people)
<1> DEFINE D == 1 .. Cardinality(S)
<1>1. Cardinality(S) \in Nat
  BY FS_CardinalityType
<1>2. /\ people \in [D -> S] /\ \A i, j \in D : i # j => people[i] # people[j]
      /\ \A i, j \in DOMAIN people : i < j => people[i] < people[j]
  BY DEF Orders, SetToSeqs
<1>3. IsFiniteSet(D) /\ Cardinality(D) = Cardinality(S)
  BY <1>1, FS_Interval
<1>4. people \in Injection(D, S)
  BY <1>2 DEF Injection, IsInjective
<1>5. people \in Surjection(D, S)
  BY <1>3, <1>4, FS_Injection
<1>6. \A u \in S : \E i \in D : people[i] = u
  BY <1>5 DEF Surjection
<1>7. people \in Seq(S)
  BY <1>1, <1>2
<1> QED BY <1>2, <1>6, <1>7 DEF Rising

LEMMA AssignStep ==
    ASSUME ClassroomInv, NEW h \in Handlers, NEW g \in Groups, NEW c \in Courses, Assign(h, g, c)
    PROVE  ClassroomInv'
<1>t. Types
  BY DEF ClassroomInv
<1> DEFINE S == members[g] \ blocked
<1>1. S \subseteq Users /\ members[g] \subseteq Users /\ assigned[g] \subseteq Courses
  BY <1>t DEF Types
<1>2. IsFiniteSet(S)
  BY <1>1, ClassroomConstants, FS_Subset
<1>3. PICK people \in Orders(S) : Begin(h, g, {}, {c}, people)
  BY DEF Assign
<1>4. /\ people \in Seq(S) /\ Rising(people)
      /\ \A u \in S : \E i \in DOMAIN people : people[i] = u
  <2> HIDE DEF S
  <2> QED BY <1>2, <1>3, OrdersAreComplete
<1>5. people \in Seq(Users)
  BY <1>1, <1>4
<1>6. leftOut' = leftOut \cup {<<g, c, u>> : u \in members[g] \cap blocked}
  BY DEF Assign
<1>7. leftOut' \subseteq Groups \X Courses \X Users /\ leftOut \subseteq leftOut'
  BY <1>1, <1>6, <1>t DEF Types
<1>8. OneEach(assigned[g] \cup {c})
  BY DEF Assign, ClassroomInv, Distinct, OneEach
<1>9. ASSUME NEW u \in members[g] \cup {}, NEW b \in assigned[g] \cup {c}
      PROVE  \/ HasTarget(g, b, u)
             \/ b \in {c} /\ \E i \in DOMAIN people : people[i] = u
             \/ <<g, b, u>> \in leftOut' /\ u \notin {}
  <2>1. CASE b \in assigned[g]
    BY <1>7, <2>1 DEF ClassroomInv, MembersAreAssigned
  <2>2. CASE b = c /\ u \in blocked
    BY <1>6, <2>2
  <2>3. CASE b = c /\ u \notin blocked
    BY <1>4, <2>3
  <2> QED BY <2>1, <2>2, <2>3
<1>10. {c} \in SUBSET Courses /\ {} \in SUBSET Users
  OBVIOUS
<1> HIDE DEF S
<1> QED BY <1>3, <1>4, <1>5, <1>7, <1>8, <1>9, <1>10, BeginStep

-----------------------------------------------------------------------------
(* A change gives the next person the courses. *)

Gifts(k, u) ==
    {[group |-> k.group, assigned |-> c, user |-> u, course |-> Followed(u, c)] :
        c \in {a \in k.courses : ~HasTarget(k.group, a, u)}}
Given(k, G) == [k EXCEPT !.todo = Tail(k.todo), !.given = k.given \cup G]

LEMMA GiftParts ==
    ASSUME Types, Studies, NEW k \in ChangeRow, NEW u \in Users
    PROVE  /\ \A t \in Gifts(k, u) :
                 /\ t \in Target /\ t.group = k.group /\ t.assigned \in k.courses /\ t.user = u
                 /\ t.course = Followed(u, t.assigned)
                 /\ Fits(t, enrolled)
           /\ \A c \in k.courses : HasTarget(k.group, c, u)
                                   \/ \E t \in Gifts(k, u) : t.user = u /\ t.assigned = c
<1>k. Fields(k)
  BY RowFields
<1>1. ASSUME NEW t \in Gifts(k, u)
      PROVE  /\ t \in Target /\ t.group = k.group /\ t.assigned \in k.courses /\ t.user = u
             /\ t.course = Followed(u, t.assigned)
             /\ Fits(t, enrolled)
  <2>1. PICK c \in k.courses :
           t = [group |-> k.group, assigned |-> c, user |-> u, course |-> Followed(u, c)]
    BY DEF Gifts
  <2>2. c \in Courses
    BY <1>k DEF Fields
  <2>3. /\ Followed(u, c) \in Courses /\ Followed(u, c)[1] = c[1]
        /\ \A e \in enrolled : Agree(e, <<u, Followed(u, c)>>)
    BY <2>2, FollowedFits
  <2>4. t \in Target
    BY <1>k, <2>1, <2>2, <2>3 DEF Target, Fields
  <2> QED BY <2>1, <2>3, <2>4 DEF Fits
<1>2. ASSUME NEW c \in k.courses, ~HasTarget(k.group, c, u)
      PROVE  \E t \in Gifts(k, u) : t.user = u /\ t.assigned = c
  <2> DEFINE t == [group |-> k.group, assigned |-> c, user |-> u, course |-> Followed(u, c)]
  <2>1. t \in Gifts(k, u)
    BY <1>2 DEF Gifts
  <2> QED BY <2>1
<1> QED BY <1>1, <1>2

LEMMA GivenRow ==
    ASSUME NEW k \in ChangeRow, NEW G \in SUBSET Target, k.todo # <<>>
    PROVE  LET n == Given(k, G)
           IN  /\ n \in ChangeRow
               /\ n.group = k.group /\ n.joining = k.joining /\ n.courses = k.courses
               /\ n.todo = Tail(k.todo) /\ n.given = k.given \cup G
<1>1. Tail(k.todo) \in Seq(Users)
  <2>1. k.todo \in Seq(Users)
    BY RowFields DEF Fields
  <2> QED BY <2>1
<1>2. Tail(k.todo) \in Seq(Users) /\ k.given \cup G \in SUBSET Target
  BY <1>1, RowFields DEF Fields
<1> QED BY <1>2 DEF Given, ChangeRow

\* What is left of a rising order is rising and after its head.
LEMMA TailRises ==
    ASSUME NEW q \in Seq(Users), q # <<>>, Rising(q)
    PROVE  /\ Head(q) \in Users /\ Rising(Tail(q)) /\ Before(Head(q), Tail(q))
           /\ \A u : (\E i \in DOMAIN q : q[i] = u)
                 => u = Head(q) \/ \E i \in DOMAIN Tail(q) : Tail(q)[i] = u
           /\ \A u \in Users : Before(u, q) => Before(u, Tail(q))
<1>1. /\ Len(q) \in Nat \ {0} /\ DOMAIN q = 1 .. Len(q)
      /\ Head(q) = q[1] /\ Head(q) \in Users
      /\ DOMAIN Tail(q) = 1 .. (Len(q) - 1)
      /\ \A i \in DOMAIN Tail(q) : Tail(q)[i] = q[i + 1]
  OBVIOUS
<1>2. \A i \in DOMAIN Tail(q) : i + 1 \in DOMAIN q
  BY <1>1
<1>3. Rising(Tail(q))
  BY <1>1, <1>2 DEF Rising
<1>4. Before(Head(q), Tail(q))
  BY <1>1, <1>2 DEF Rising, Before
<1>5. \A u \in Users : Before(u, q) => Before(u, Tail(q))
  BY <1>1, <1>2 DEF Before
<1>6. ASSUME NEW i \in DOMAIN q, i # 1
      PROVE  \E j \in DOMAIN Tail(q) : Tail(q)[j] = q[i]
  <2>1. i - 1 \in DOMAIN Tail(q) /\ Tail(q)[i - 1] = q[i]
    BY <1>1, <1>6
  <2> QED BY <2>1
<1> QED BY <1>1, <1>3, <1>4, <1>5, <1>6

LEMMA GiveStep ==
    ASSUME ClassroomInv, NEW h \in Handlers, Give(h)
    PROVE  ClassroomInv'
<1> DEFINE k == change[h]
           u == Head(k.todo)
           G == Gifts(k, u)
           n == Given(k, G)
<1>t. Types
  BY DEF ClassroomInv
<1>1. /\ k # None /\ k.todo # <<>> /\ holder[u] = None
      /\ holder' = [holder EXCEPT ![u] = h]
      /\ enrolled' = enrolled /\ blocked' = blocked /\ enrolling' = enrolling
      /\ members' = members /\ closed' = closed /\ assigned' = assigned
      /\ targets' = targets /\ leftOut' = leftOut /\ UNCHANGED studioVars
  BY DEF Give, Lockable
<1>2. k \in ChangeRow /\ Fields(k)
  BY <1>1, <1>t, UnderWay
<1>3. k.todo \in Seq(Users) /\ Rising(k.todo)
  BY <1>1, <1>2 DEF Fields, ClassroomInv, Locks
<1>4. /\ u \in Users /\ Rising(Tail(k.todo)) /\ Before(u, Tail(k.todo))
      /\ \A v : (\E i \in DOMAIN k.todo : k.todo[i] = v)
            => v = u \/ \E i \in DOMAIN Tail(k.todo) : Tail(k.todo)[i] = v
      /\ \A v \in Users : Before(v, k.todo) => Before(v, Tail(k.todo))
  BY <1>1, <1>3, TailRises
<1>5. /\ \A t \in G : /\ t \in Target /\ t.group = k.group /\ t.assigned \in k.courses /\ t.user = u
                      /\ t.course = Followed(u, t.assigned)
                      /\ Fits(t, enrolled)
      /\ \A c \in k.courses : HasTarget(k.group, c, u) \/ \E t \in G : t.user = u /\ t.assigned = c
  BY <1>2, <1>4, <1>t, GiftParts DEF ClassroomInv
<1>6. /\ n \in ChangeRow
      /\ n.group = k.group /\ n.joining = k.joining /\ n.courses = k.courses
      /\ n.todo = Tail(k.todo) /\ n.given = k.given \cup G
  BY <1>1, <1>2, <1>5, GivenRow
<1>7. change' = [change EXCEPT ![h] = n]
  <2>1. change' = [change EXCEPT
           ![h].todo = Tail(@),
           ![h].given = @ \cup
              {[group |-> k.group, assigned |-> c, user |-> u, course |-> Followed(u, c)] :
                  c \in {a \in k.courses : ~HasTarget(k.group, a, u)}}]
    BY DEF Give
  <2>2. change' = [change EXCEPT ![h].todo = Tail(@), ![h].given = @ \cup G]
    BY <2>1 DEF Gifts
  <2> HIDE DEF G
  <2> QED BY <1>2, <1>t, <2>2 DEF Given, Types, ChangeRow
<1>f. \A t \in k.given : holder[t.user] = h /\ t.user \in Users
  BY <1>1, <1>2, RowFields DEF Fields, ClassroomInv, Locks
<1>e. OneEach(k.courses)
  BY <1>1 DEF ClassroomInv, Distinct, OneEach
<1>p. Proper(k, enrolled)
  BY <1>1 DEF ClassroomInv, Giving
<1>o. Owes(k, members[k.group], assigned[k.group], targets, leftOut)
  BY <1>1 DEF ClassroomInv, Owed
<1>l. \A v \in Users : holder[v] = h => Before(v, k.todo)
  BY DEF ClassroomInv, Locks
<1> HIDE DEF n, G, u
<1>8. /\ change'[h] = n /\ n # None
      /\ \A b \in Handlers : b # h => change'[b] = change[b]
  BY <1>6, <1>7, <1>t, NoneIsNoRow DEF ClassroomInv, Types
<1>9. holder'[u] = h /\ \A v \in Users : v # u => holder'[v] = holder[v]
  BY <1>1, <1>4, <1>t DEF Types
<1>10. StudioInv' /\ Courses' = Courses
  BY <1>1, StudioStays DEF ClassroomInv
<1>11. Types'
  <2>1. change' \in [Handlers -> ChangeRow \cup {None}]
    BY <1>6, <1>7, <1>t DEF Types
  <2>2. holder' \in [Users -> Handlers \cup {Self, None}]
    BY <1>1, <1>t DEF Types
  <2>3. /\ enrolled' \subseteq Users \X Courses
        /\ blocked' \subseteq Users /\ closed' \subseteq Groups
        /\ members' \in [Groups -> SUBSET Users]
        /\ assigned' \in [Groups -> SUBSET Courses]
        /\ targets' \subseteq Target
        /\ enrolling' \in [Users -> EnrolRow \cup {None}]
        /\ leftOut' \subseteq Groups \X Courses \X Users
    BY <1>1, <1>t DEF Types
  <2> QED BY <1>10, <2>1, <2>2, <2>3, TypesAfter
<1>12. Alone'
  BY <1>1, <1>6, <1>8 DEF ClassroomInv, Alone
<1>13. Distinct'
  BY <1>1, <1>6, <1>8 DEF ClassroomInv, Distinct
<1>14. Locks'
  <2>1. \A v \in Users : enrolling'[v] # None => holder'[v] = Self
    BY <1>1, <1>9, ClassroomConstants DEF ClassroomInv, Locks
  <2>2. ASSUME NEW v \in Users, NEW b \in Handlers, holder'[v] = b
        PROVE  change'[b] # None /\ Before(v, change'[b].todo)
    <3>1. CASE b = h /\ v = u
      BY <1>4, <1>6, <1>8, <3>1
    <3>2. CASE b = h /\ v # u
      BY <1>4, <1>6, <1>8, <1>9, <1>l, <2>2, <3>2
    <3>3. CASE b # h
      BY <1>8, <1>9, <2>2, <3>3 DEF ClassroomInv, Locks
    <3> QED BY <3>1, <3>2, <3>3
  <2>3. ASSUME NEW b \in Handlers, change'[b] # None
        PROVE  Rising(change'[b].todo) /\ \A t \in change'[b].given : holder'[t.user] = b
    <3>1. CASE b = h
      <4>1. \A t \in k.given : holder'[t.user] = h
        BY <1>9, <1>f
      <4>2. \A t \in G : holder'[t.user] = h
        BY <1>5, <1>9
      <4> QED BY <1>4, <1>6, <1>8, <3>1, <4>1, <4>2
    <3>2. CASE b # h
      <4>1. change'[b] = change[b] /\ change[b] # None /\ change[b].given \subseteq Target
        BY <1>8, <1>t, <2>3, <3>2, UnderWay DEF Fields
      <4>2. Rising(change[b].todo) /\ \A t \in change[b].given : holder[t.user] = b
        BY <4>1 DEF ClassroomInv, Locks
      <4>3. \A t \in change[b].given : t.user \in Users /\ t.user # u
        BY <1>1, <4>1, <4>2, RowFields, ClassroomConstants
      <4> QED BY <1>9, <4>1, <4>2, <4>3
    <3> QED BY <3>1, <3>2
  <2> QED BY <2>1, <2>2, <2>3 DEF Locks
<1>15. Giving'
  <2>1. Proper(n, enrolled)
    <3>1. \A t \in n.given : t.group = n.group /\ t.assigned \in n.courses /\ Fits(t, enrolled)
      BY <1>5, <1>6, <1>p DEF Proper
    <3>2. \A t \in k.given : t.user # u
      BY <1>1, <1>f, ClassroomConstants
    <3>3. ASSUME NEW s \in G, NEW t \in G, s.assigned[1] = t.assigned[1]
          PROVE  s.course = t.course
      <4>1. s.assigned = t.assigned
        BY <1>5, <1>e, <3>3 DEF OneEach
      <4> QED BY <1>5, <4>1
    <3>4. \A s, t \in n.given :
             s.user = t.user /\ s.assigned[1] = t.assigned[1] => s.course = t.course
      BY <1>5, <1>6, <1>p, <3>2, <3>3 DEF Proper
    <3> QED BY <3>1, <3>4 DEF Proper
  <2> QED BY <1>1, <1>8, <2>1 DEF ClassroomInv, Giving
<1>16. Studies' /\ MembersAreAssigned'
  <2>1. Studies'
    BY <1>1 DEF ClassroomInv, Studies
  <2>2. MembersAreAssigned'
    BY <1>1 DEF ClassroomInv, MembersAreAssigned, HasTarget
  <2> QED BY <2>1, <2>2
<1>17. Owed'
  <2>1. ASSUME NEW v, NEW c, Pending(k, v, c, targets, leftOut)
        PROVE  Pending(n, v, c, targets, leftOut)
    <3>1. CASE c \in k.courses /\ \E i \in DOMAIN k.todo : k.todo[i] = v
      <4>1. CASE v = u
        BY <1>5, <1>6, <3>1, <4>1 DEF Pending, Covers, HasTarget
      <4>2. CASE v # u
        BY <1>4, <1>6, <3>1, <4>2 DEF Pending
      <4> QED BY <4>1, <4>2
    <3>2. CASE ~(c \in k.courses /\ \E i \in DOMAIN k.todo : k.todo[i] = v)
      BY <1>6, <2>1, <3>2 DEF Pending
    <3> QED BY <3>1, <3>2
  <2>2. Owes(n, members[n.group], assigned[n.group], targets, leftOut)
    BY <1>6, <1>o, <2>1 DEF Owes
  <2> QED BY <1>1, <1>8, <2>2 DEF ClassroomInv, Owed
<1> QED BY <1>10, <1>11, <1>12, <1>13, <1>14, <1>15, <1>16, <1>17 DEF ClassroomInv

-----------------------------------------------------------------------------
(* The commit of a change. *)

LEMMA CommitStep ==
    ASSUME ClassroomInv, NEW h \in Handlers, Commit(h)
    PROVE  ClassroomInv'
<1> DEFINE k == change[h]
           g == k.group
           new == {<<t.user, t.course>> : t \in k.given}
<1>t. Types
  BY DEF ClassroomInv
<1>1. /\ k # None /\ k.todo = <<>>
      /\ members' = [members EXCEPT ![g] = members[g] \cup k.joining]
      /\ assigned' = [assigned EXCEPT ![g] = assigned[g] \cup k.courses]
      /\ targets' = targets \cup k.given
      /\ enrolled' = enrolled \cup new
      /\ leftOut' = {l \in leftOut : ~(l[1] = g /\ l[3] \in k.joining)}
      /\ holder' = [u \in Users |-> IF holder[u] = h THEN None ELSE holder[u]]
      /\ change' = [change EXCEPT ![h] = None]
      /\ UNCHANGED studioVars /\ closed' = closed /\ blocked' = blocked /\ enrolling' = enrolling
  BY DEF Commit
<1>2. Fields(k)
  BY <1>1, <1>t, UnderWay
<1>3. /\ g \in Groups /\ k.joining \subseteq Users /\ k.courses \subseteq Courses
      /\ k.given \subseteq Target
  BY <1>2 DEF Fields
<1>4. \A t \in k.given : /\ t.user \in Users /\ t.course \in Courses /\ t.assigned \in k.courses
                         /\ t.group = g /\ holder[t.user] = h /\ Fits(t, enrolled)
  BY <1>1, <1>3, RowFields DEF ClassroomInv, Giving, Proper, Locks
<1>5. \A s, t \in k.given : s.user = t.user /\ s.assigned[1] = t.assigned[1] => s.course = t.course
  BY <1>1 DEF ClassroomInv, Giving, Proper
<1>6. \A e \in new : \E t \in k.given : e = <<t.user, t.course>>
  OBVIOUS
<1>7. \A t \in k.given : <<t.user, t.course>> \in new
  OBVIOUS
<1>o. Owes(k, members[g], assigned[g], targets, leftOut)
  BY <1>1 DEF ClassroomInv, Owed
<1>d. OneEach(assigned[g] \cup k.courses)
  BY <1>1 DEF ClassroomInv, Distinct
<1>a. \A b \in Handlers : b # h /\ change[b] # None => change[b].group # g
  BY <1>1 DEF ClassroomInv, Alone
<1> HIDE DEF new, g
<1>8. /\ change'[h] = None
      /\ \A b \in Handlers : b # h => change'[b] = change[b]
  BY <1>1, <1>t DEF Types
<1>9. /\ members'[g] = members[g] \cup k.joining
      /\ assigned'[g] = assigned[g] \cup k.courses
      /\ \A b \in Groups : b # g => members'[b] = members[b] /\ assigned'[b] = assigned[b]
  BY <1>1, <1>3, <1>t DEF Types
<1>10. StudioInv' /\ Courses' = Courses
  BY <1>1, StudioStays DEF ClassroomInv
<1>11. Types'
  <2>1. enrolled' \subseteq Users \X Courses
    BY <1>1, <1>4, <1>6, <1>t DEF Types
  <2>2. members' \in [Groups -> SUBSET Users]
    BY <1>1, <1>3, <1>t DEF Types
  <2>3. assigned' \in [Groups -> SUBSET Courses]
    BY <1>1, <1>3, <1>t DEF Types
  <2>4. targets' \subseteq Target
    BY <1>1, <1>3, <1>t DEF Types
  <2>5. change' \in [Handlers -> ChangeRow \cup {None}]
    BY <1>1, <1>t DEF Types
  <2>6. holder' \in [Users -> Handlers \cup {Self, None}]
    BY <1>1, <1>t DEF Types
  <2>7. /\ blocked' \subseteq Users /\ closed' \subseteq Groups
        /\ enrolling' \in [Users -> EnrolRow \cup {None}]
        /\ leftOut' \subseteq Groups \X Courses \X Users
    BY <1>1, <1>t DEF Types
  <2> QED BY <1>10, <2>1, <2>2, <2>3, <2>4, <2>5, <2>6, <2>7, TypesAfter
<1>12. Alone'
  BY <1>8 DEF ClassroomInv, Alone
<1>13. Distinct'
  <2>1. \A b \in Groups : OneEach(assigned'[b])
    BY <1>9, <1>d DEF ClassroomInv, Distinct
  <2>2. ASSUME NEW b \in Handlers, change'[b] # None
        PROVE  OneEach(assigned'[change'[b].group] \cup change'[b].courses)
    <3>1. b # h /\ change'[b] = change[b] /\ change[b].group \in Groups
      BY <1>8, <1>t, <2>2, UnderWay DEF Fields
    <3>2. OneEach(assigned[change[b].group] \cup change[b].courses)
      BY <2>2, <3>1 DEF ClassroomInv, Distinct
    <3> QED BY <1>9, <1>a, <2>2, <3>1, <3>2
  <2> QED BY <2>1, <2>2 DEF Distinct
<1>14. Locks'
  <2>1. \A u \in Users : holder'[u] = IF holder[u] = h THEN None ELSE holder[u]
    BY <1>1
  <2>2. \A u \in Users : enrolling'[u] # None => holder'[u] = Self
    BY <1>1, <2>1, ClassroomConstants DEF ClassroomInv, Locks
  <2>3. \A u \in Users, b \in Handlers :
           holder'[u] = b => change'[b] # None /\ Before(u, change'[b].todo)
    BY <1>8, <2>1, ClassroomConstants DEF ClassroomInv, Locks
  <2>4. ASSUME NEW b \in Handlers, change'[b] # None
        PROVE  Rising(change'[b].todo) /\ \A t \in change'[b].given : holder'[t.user] = b
    <3>1. b # h /\ change'[b] = change[b] /\ change[b].given \subseteq Target
      BY <1>8, <1>t, <2>4, UnderWay DEF Fields
    <3>2. Rising(change[b].todo) /\ \A t \in change[b].given : holder[t.user] = b /\ t.user \in Users
      BY <2>4, <3>1, RowFields DEF ClassroomInv, Locks
    <3> QED BY <2>1, <3>1, <3>2
  <2> QED BY <2>2, <2>3, <2>4 DEF Locks
<1>15. Studies'
  <2>1. ASSUME NEW e \in enrolled, NEW f \in new
        PROVE  Agree(e, f) /\ Agree(f, e)
    <3>1. Agree(e, f)
      BY <1>4, <1>6 DEF Fits
    <3> QED BY <3>1 DEF Agree
  <2>2. ASSUME NEW e \in new, NEW f \in new
        PROVE  Agree(e, f)
    <3>1. PICK s \in k.given : e = <<s.user, s.course>>
      BY <1>6
    <3>2. PICK t \in k.given : f = <<t.user, t.course>>
      BY <1>6
    <3>3. s.course[1] = s.assigned[1] /\ t.course[1] = t.assigned[1]
      BY <1>4 DEF Fits
    <3> QED BY <1>5, <3>1, <3>2, <3>3 DEF Agree
  <2>3. \A e, f \in enrolled' : Agree(e, f)
    BY <1>1, <2>1, <2>2 DEF ClassroomInv, Studies
  <2>4. \A t \in targets' : <<t.user, t.course>> \in enrolled' /\ t.course[1] = t.assigned[1]
    <3>1. \A t \in targets : <<t.user, t.course>> \in enrolled' /\ t.course[1] = t.assigned[1]
      BY <1>1 DEF ClassroomInv, Studies
    <3>2. \A t \in k.given : <<t.user, t.course>> \in enrolled' /\ t.course[1] = t.assigned[1]
      BY <1>1, <1>4, <1>7 DEF Fits
    <3> QED BY <1>1, <3>1, <3>2
  <2> QED BY <2>3, <2>4 DEF Studies
<1>16. Giving'
  <2>1. ASSUME NEW b \in Handlers, change'[b] # None
        PROVE  Proper(change'[b], enrolled')
    <3>1. /\ b # h /\ change'[b] = change[b] /\ change[b] # None
          /\ change[b].given \subseteq Target
      BY <1>8, <1>t, <2>1, UnderWay DEF Fields
    <3>2. Proper(change[b], enrolled)
      BY <3>1 DEF ClassroomInv, Giving
    <3>3. \A t \in change[b].given : holder[t.user] = b
      BY <3>1 DEF ClassroomInv, Locks
    <3>4. ASSUME NEW t \in change[b].given, NEW f \in new
          PROVE  Agree(f, <<t.user, t.course>>)
      <4>1. PICK s \in k.given : f = <<s.user, s.course>>
        BY <1>6
      <4>2. holder[s.user] = h /\ holder[t.user] = b
        BY <1>4, <3>3
      <4>3. s.user # t.user
        BY <3>1, <4>2
      <4> QED BY <4>1, <4>3 DEF Agree
    <3>5. \A t \in change[b].given : Fits(t, enrolled) => Fits(t, enrolled')
      BY <1>1, <3>4 DEF Fits
    <3> QED BY <3>1, <3>2, <3>5 DEF Proper
  <2> QED BY <2>1 DEF Giving
<1>17. MembersAreAssigned'
  <2>1. ASSUME NEW b \in Groups, NEW u \in members'[b], NEW c \in assigned'[b]
        PROVE  (\E t \in targets' : t.group = b /\ t.assigned = c /\ t.user = u)
               \/ <<b, c, u>> \in leftOut'
    <3>1. CASE b # g
      <4>1. (\E t \in targets : t.group = b /\ t.assigned = c /\ t.user = u) \/ <<b, c, u>> \in leftOut
        BY <1>9, <3>1 DEF ClassroomInv, MembersAreAssigned, HasTarget
      <4> QED BY <1>1, <3>1, <4>1
    <3>2. CASE b = g
      <4>1. Pending(k, u, c, targets, leftOut)
        BY <1>9, <1>o, <3>2 DEF Owes
      <4>2. k.group = g /\ ~ \E i \in DOMAIN k.todo : k.todo[i] = u
        BY <1>1 DEF g
      <4>3. CASE Covers(targets, g, c, u)
        BY <1>1, <3>2, <4>3 DEF Covers
      <4>4. CASE \E t \in k.given : t.user = u /\ t.assigned = c
        BY <1>1, <1>4, <3>2, <4>4
      <4>5. CASE <<g, c, u>> \in leftOut /\ u \notin k.joining
        BY <1>1, <3>2, <4>5
      <4> QED BY <4>1, <4>2, <4>3, <4>4, <4>5 DEF Pending
    <3> QED BY <3>1, <3>2
  <2> QED BY <2>1 DEF MembersAreAssigned, HasTarget
<1>18. Owed'
  <2>1. ASSUME NEW b \in Handlers, change'[b] # None
        PROVE  Owes(change'[b], members'[change'[b].group], assigned'[change'[b].group],
                    targets', leftOut')
    <3>1. /\ b # h /\ change'[b] = change[b] /\ change[b].group \in Groups /\ change[b].group # g
      BY <1>8, <1>a, <1>t, <2>1, UnderWay DEF Fields
    <3>2. Owes(change[b], members[change[b].group], assigned[change[b].group], targets, leftOut)
      BY <2>1, <3>1 DEF ClassroomInv, Owed
    <3>3. ASSUME NEW u, NEW c, Pending(change[b], u, c, targets, leftOut)
          PROVE  Pending(change[b], u, c, targets', leftOut')
      BY <1>1, <3>1, <3>3 DEF Pending, Covers
    <3> QED BY <1>9, <3>1, <3>2, <3>3 DEF Owes
  <2> QED BY <2>1 DEF Owed
<1> QED BY <1>10, <1>11, <1>12, <1>13, <1>14, <1>15, <1>16, <1>17, <1>18 DEF ClassroomInv

-----------------------------------------------------------------------------
(* The studio, and steps that change nothing. *)

LEMMA StudioStep ==
    ASSUME ClassroomInv, [StudioNext]_studioVars, UNCHANGED <<groupVars, enrolVars>>
    PROVE  ClassroomInv'
<1>t. Types
  BY DEF ClassroomInv
<1>1. StudioInv' /\ Courses \subseteq Courses'
  BY StudioInvNext, CoursesGrow DEF ClassroomInv
<1>2. /\ enrolled' = enrolled /\ blocked' = blocked /\ enrolling' = enrolling /\ holder' = holder
      /\ members' = members /\ closed' = closed /\ assigned' = assigned
      /\ targets' = targets /\ change' = change /\ leftOut' = leftOut
  BY DEF groupVars, enrolVars
<1>3. Target \subseteq Target' /\ EnrolRow \subseteq EnrolRow'
  BY <1>1 DEF Target, EnrolRow
<1>4. ChangeRow \subseteq ChangeRow'
  <2>1. ASSUME NEW k \in ChangeRow PROVE k \in ChangeRow'
    <3>1. k.courses \in SUBSET Courses' /\ k.given \in SUBSET Target'
      BY <1>1, <1>3, RowFields DEF Fields
    <3> QED BY <3>1 DEF ChangeRow
  <2> QED BY <2>1
<1>5. Types'
  <2>1. /\ enrolled \subseteq Users \X Courses' /\ targets \subseteq Target'
        /\ leftOut \subseteq Groups \X Courses' \X Users
    BY <1>1, <1>3, <1>t DEF Types
  <2>2. assigned \in [Groups -> SUBSET Courses']
    BY <1>1, <1>t DEF Types
  <2>3. change \in [Handlers -> ChangeRow' \cup {None}]
    BY <1>4, <1>t DEF Types
  <2>4. enrolling \in [Users -> EnrolRow' \cup {None}]
    BY <1>3, <1>t DEF Types
  <2>5. /\ blocked \subseteq Users /\ closed \subseteq Groups
        /\ members \in [Groups -> SUBSET Users]
        /\ holder \in [Users -> Handlers \cup {Self, None}]
    BY <1>t DEF Types
  <2> QED BY <1>2, <2>1, <2>2, <2>3, <2>4, <2>5 DEF Types
<1>6. Alone' /\ Distinct' /\ Locks' /\ Giving' /\ Studies'
  BY <1>2 DEF ClassroomInv, Alone, Distinct, Locks, Giving, Studies
<1>7. MembersAreAssigned' /\ Owed'
  BY <1>2 DEF ClassroomInv, MembersAreAssigned, HasTarget, Owed
<1> QED BY <1>1, <1>5, <1>6, <1>7 DEF ClassroomInv

-----------------------------------------------------------------------------

LEMMA ClassroomInvInit == Init => ClassroomInv
<1> SUFFICES ASSUME Init PROVE ClassroomInv
  OBVIOUS
<1>1. StudioInv
  BY StudioInvInit DEF Init
<1>2. Types
  BY DEF Init, Types
<1>3. Alone /\ Distinct /\ Locks /\ Giving /\ Studies
  BY ClassroomConstants DEF Init, Alone, Distinct, OneEach, Locks, Giving, Studies
<1>4. MembersAreAssigned /\ Owed
  BY DEF Init, MembersAreAssigned, Owed
<1> QED BY <1>1, <1>2, <1>3, <1>4 DEF ClassroomInv

LEMMA ClassroomInvNext == ClassroomInv /\ [Next]_vars => ClassroomInv'
<1> SUFFICES ASSUME ClassroomInv, [Next]_vars PROVE ClassroomInv'
  OBVIOUS
<1>1. CASE UNCHANGED vars
  BY <1>1, StudioStep DEF vars
<1>2. CASE StudioNext /\ UNCHANGED <<groupVars, enrolVars>>
  BY <1>2, StudioStep
<1>3. ASSUME NEW u \in Users, EnrolStep(u) PROVE ClassroomInv'
  BY <1>3, StartEnrolStep, FinishEnrolStep, ToggleStep DEF EnrolStep
<1>4. ASSUME NEW g \in Groups, GroupStep(g) PROVE ClassroomInv'
  BY <1>4, ArchiveGroupStep, RemoveMemberStep, AddMemberStep, AssignStep DEF GroupStep
<1>5. ASSUME NEW h \in Handlers, Give(h) \/ Commit(h) PROVE ClassroomInv'
  BY <1>5, GiveStep, CommitStep
<1> QED BY <1>1, <1>2, <1>3, <1>4, <1>5 DEF Next

LEMMA ClassroomInvariant == Spec => []ClassroomInv
BY ClassroomInvInit, ClassroomInvNext, PTL DEF Spec

-----------------------------------------------------------------------------
(* Students and groups never touch the studio: seen from there, every         *)
(* behaviour is one of Studio, so what is shown of Studio holds here too.     *)

\* Enrolling, groups and assignments change nothing the studio has: drafts,
\* releases and the catalogue change by its own handlers only.
THEOREM Classroom_ImplementsStudio == Spec => StudioSpec
<1>1. Init => StudioInit
  BY DEF Init
<1>2. [Next]_vars => [StudioNext]_studioVars
  <2> SUFFICES ASSUME [Next]_vars PROVE [StudioNext]_studioVars
    OBVIOUS
  <2>1. CASE UNCHANGED vars
    BY <2>1 DEF vars
  <2>2. CASE StudioNext
    BY <2>2
  <2>3. ASSUME NEW u \in Users, EnrolStep(u) PROVE UNCHANGED studioVars
    BY <2>3 DEF EnrolStep, StartEnrol, FinishEnrol, Toggle
  <2>4. ASSUME NEW g \in Groups, GroupStep(g) PROVE UNCHANGED studioVars
    BY <2>4 DEF GroupStep, ArchiveGroup, RemoveMember, AddMember, Assign, Begin
  <2>5. ASSUME NEW h \in Handlers, Give(h) \/ Commit(h) PROVE UNCHANGED studioVars
    BY <2>5 DEF Give, Commit
  <2> QED BY <2>1, <2>2, <2>3, <2>4, <2>5 DEF Next
<1> QED BY <1>1, <1>2, PTL DEF Spec, StudioSpec

\* The rows of enrolments, groups, assignments and their students are of the
\* kinds the schema allows, and refer to courses that exist.
THEOREM Classroom_Types == Spec => []TypeOK
<1>1. ClassroomInv => TypeOK
  <2> SUFFICES ASSUME ClassroomInv PROVE TypeOK
    OBVIOUS
  <2>1. Types /\ StudioTypeOK
    BY DEF ClassroomInv, StudioInv
  <2>2. \A h \in Handlers : change[h] # None => change[h] \in ChangeRow
    BY <2>1, UnderWay
  <2> QED BY <2>1, <2>2 DEF TypeOK, Types, ChangeRow, EnrolRow
<1> QED BY <1>1, ClassroomInvariant, PTL

\* A student has one release of a course, and all his assignments of it follow
\* that release, however enrolling, assigning, joining groups and publishing
\* interleave (enroll_course, ensure_target).
THEOREM Classroom_OneRelease == Spec => []OneRelease
<1>1. ClassroomInv => OneRelease
  <2> SUFFICES ASSUME ClassroomInv, NEW u \in Users, NEW d \in Drafts
               PROVE  /\ Cardinality(EnrolledIn(u, d)) <= 1
                      /\ \A t \in targets : t.user = u /\ t.assigned[1] = d =>
                            EnrolledIn(u, d) = {t.course}
    BY DEF OneRelease
  <2>1. \A a, b \in EnrolledIn(u, d) : a = b
    BY DEF EnrolledIn, ClassroomInv, Studies, Agree
  <2>2. Cardinality(EnrolledIn(u, d)) <= 1
    <3>1. CASE EnrolledIn(u, d) = {}
      BY <3>1, FS_EmptySet
    <3>2. ASSUME NEW a \in EnrolledIn(u, d) PROVE Cardinality(EnrolledIn(u, d)) = 1
      <4>1. EnrolledIn(u, d) = {a}
        BY <2>1
      <4> QED BY <4>1, FS_Singleton
    <3> QED BY <3>1, <3>2
  <2>3. ASSUME NEW t \in targets, t.user = u, t.assigned[1] = d
        PROVE  EnrolledIn(u, d) = {t.course}
    <3>1. t.course \in Courses
      BY RowFields DEF ClassroomInv, Types
    <3>2. t.course \in EnrolledIn(u, d)
      BY <2>3, <3>1 DEF EnrolledIn, ClassroomInv, Studies
    <3> QED BY <2>1, <3>2
  <2> QED BY <2>2, <2>3
<1> QED BY <1>1, ClassroomInvariant, PTL

\* Every member has every course of the group, whether he or the course came
\* first, but for those who were blocked when it was assigned (add, assign).
THEOREM Classroom_MembersAreAssigned == Spec => []MembersAreAssigned
<1>1. ClassroomInv => MembersAreAssigned
  BY DEF ClassroomInv
<1> QED BY <1>1, ClassroomInvariant, PTL

\* A set of account numbers has a greatest one.
LEMMA Greatest ==
    ASSUME NEW S \in SUBSET Users, S # {}
    PROVE  \E m \in S : \A u \in S : ~(m < u)
<1> DEFINE Above(m) == {u \in S : m < u}
           sizes == {Cardinality(Above(m)) : m \in S}
<1>1. IsFiniteSet(S) /\ S \subseteq Nat
  BY ClassroomConstants, FS_Subset
<1>2. ASSUME NEW m \in S PROVE IsFiniteSet(Above(m)) /\ Cardinality(Above(m)) \in Nat
  <2>1. Above(m) \in SUBSET S
    OBVIOUS
  <2>2. IsFiniteSet(Above(m))
    BY <1>1, <2>1, FS_Subset
  <2> QED BY <2>2, FS_CardinalityType
<1>3. sizes \subseteq Nat /\ sizes # {}
  BY <1>2
<1>4. PICK n \in sizes : \A x \in sizes : ~(<<x, n>> \in OpToRel(<, Nat))
  <2> HIDE DEF sizes
  <2> QED BY <1>3, NatLessThanWellFounded, WFMin
<1>5. \A x \in sizes : ~(x < n)
  BY <1>3, <1>4 DEF OpToRel
<1>6. PICK m \in S : n = Cardinality(Above(m))
  OBVIOUS
<1>7. ASSUME NEW u \in S, m < u PROVE FALSE
  <2>1. Above(u) \in SUBSET Above(m) /\ u \in Above(m) /\ u \notin Above(u)
    <3>1. \A v \in S : u < v => m < v
      BY <1>1, <1>7
    <3>2. ~(u < u)
      BY <1>1
    <3> QED BY <1>7, <3>1, <3>2
  <2>2. /\ Cardinality(Above(u)) <= Cardinality(Above(m))
        /\ Cardinality(Above(m)) = Cardinality(Above(u)) => Above(m) = Above(u)
    BY <1>2, <2>1, FS_Subset
  <2>3. Cardinality(Above(u)) \in Nat /\ Cardinality(Above(m)) \in Nat
    BY <1>2
  <2>4. Cardinality(Above(u)) \in sizes
    OBVIOUS
  <2> HIDE DEF Above, sizes
  <2>5. Cardinality(Above(u)) < n
    BY <1>6, <2>1, <2>2, <2>3
  <2> QED BY <1>5, <2>4, <2>5
<1> QED BY <1>7

\* Changes of groups that share students never wait for each other: whoever
\* holds the greatest of the locked accounts waits for none of them
\* (change_group, lock_user).
THEOREM Classroom_NoDeadlock == Spec => []NoDeadlock
<1>1. ClassroomInv => NoDeadlock
  <2> DEFINE locked == {u \in Users : holder[u] # None}
             holders == {holder[u] : u \in Users} \ {None}
  <2> SUFFICES ASSUME ClassroomInv, holders # {}
               PROVE  \E x \in holders : CanGoOn(x)
    BY DEF NoDeadlock
  <2>1. locked \in SUBSET Users /\ locked # {}
    OBVIOUS
  <2>2. PICK m \in locked : \A u \in locked : ~(m < u)
    <3> HIDE DEF locked
    <3> QED BY <2>1, Greatest
  <2>3. m \in Users /\ holder[m] \in holders
    OBVIOUS
  <2>4. CASE holder[m] = Self
    BY <2>3, <2>4 DEF CanGoOn
  <2>5. CASE holder[m] # Self
    <3> DEFINE h == holder[m]
    <3>1. h \in Handlers
      BY <2>3, <2>5 DEF ClassroomInv, Types
    <3>2. change[h] # None /\ Before(m, change[h].todo)
      BY <2>3, <3>1 DEF ClassroomInv, Locks
    <3>3. change[h].todo \in Seq(Users)
      BY <3>1, <3>2, UnderWay DEF Fields, ClassroomInv
    <3>4. CASE change[h].todo = <<>>
      BY <2>3, <3>4 DEF CanGoOn
    <3>5. CASE change[h].todo # <<>>
      <4>1. Head(change[h].todo) \in Users /\ m < Head(change[h].todo)
        BY <3>2, <3>3, <3>5 DEF Before
      <4>2. holder[Head(change[h].todo)] = None
        BY <2>2, <4>1
      <4> QED BY <2>3, <4>2 DEF CanGoOn
    <3> QED BY <3>4, <3>5
  <2> QED BY <2>4, <2>5
<1> QED BY <1>1, ClassroomInvariant, PTL
=============================================================================
