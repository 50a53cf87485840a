----------------------------- MODULE Classroom -----------------------------
(***************************************************************************)
(* Who studies which release: students enrol by themselves                 *)
(* (courses/views.py) or through the study groups of their teachers        *)
(* (teaching/services.py), while the studio publishes and archives.        *)
(*                                                                         *)
(* change_group locks the group, then one account after another, and       *)
(* commits once; enroll_course locks the account of its student; blocking  *)
(* an account locks it too.  Course rows are read without a lock.          *)
(***************************************************************************)
EXTENDS Studio, FiniteSetsExt

CONSTANTS
    Users,         \* students: their account numbers
    Groups,
    Handlers,      \* requests to change_group that can be under way at once
    GroupLimit,    \* 300 in the code
    Self           \* the holder of an account that is enrolling

ASSUME ClassroomConstants ==
    /\ Users \subseteq Nat /\ IsFiniteSet(Users)
    /\ GroupLimit \in Nat
    /\ Self # None /\ None \notin Handlers /\ Self \notin Handlers
    /\ None \notin [group : Groups, joining : SUBSET Users, courses : SUBSET (Drafts \X Nat),
                     todo : Seq(Users),
                     given : SUBSET [group : Groups, assigned : Drafts \X Nat, user : Users,
                                     course : Drafts \X Nat]]

VARIABLES
    enrolled,    \* Enrollment rows: <<user, course>>
    blocked,     \* accounts without is_active
    members,     \* members[g]: GroupMember rows
    closed,      \* archived groups
    assigned,    \* assigned[g]: the courses of its Assignment rows
    targets,     \* AssignmentStudent rows: whose, of what, and the course enrolled in
    change,      \* change[h]: a change_group under way, or None
    enrolling,   \* enrolling[u]: an enroll_course under way, or None
    holder,      \* holder[u]: who has the lock of account u, or None
    leftOut      \* history: members who were blocked when their group got a course

groupVars == <<members, closed, assigned, targets, change, leftOut>>
enrolVars == <<enrolled, blocked, enrolling, holder>>
vars == <<studioVars, groupVars, enrolVars>>

Init ==
    /\ StudioInit
    /\ enrolled = {} /\ blocked = {} /\ closed = {} /\ targets = {} /\ leftOut = {}
    /\ members = [g \in Groups |-> {}]
    /\ assigned = [g \in Groups |-> {}]
    /\ change = [h \in Handlers |-> None]
    /\ enrolling = [u \in Users |-> None]
    /\ holder = [u \in Users |-> None]

\* The courses of draft d that u is enrolled in.
EnrolledIn(u, d) == {c \in Courses : c[1] = d /\ <<u, c>> \in enrolled}

\* lock_user returns only when the account is free.
Lockable_Any(u) == TRUE  \* mutant: the account is not locked
Lockable(u) == holder[u] = None

-----------------------------------------------------------------------------
(* A student enrols *)

\* enroll_course, up to the read of the course.
StartEnrol(u, c) ==
    /\ u \notin blocked
    /\ enrolling[u] = None /\ Lockable(u)
    /\ holder' = [holder EXCEPT ![u] = Self]
    /\ enrolling' = [enrolling EXCEPT ![u] = [course |-> c, listed |-> c \in listed]]
    /\ UNCHANGED <<studioVars, groupVars, enrolled, blocked>>

\* The rest: a student of another release is sent there, a course out of the
\* catalogue is refused.
FinishEnrol(u) ==
    LET e == enrolling[u]
    IN  /\ e # None
        /\ enrolled' = IF EnrolledIn(u, e.course[1]) = {} /\ e.listed
                       THEN enrolled \cup {<<u, e.course>>} ELSE enrolled
        /\ enrolling' = [enrolling EXCEPT ![u] = None]
        /\ holder' = [holder EXCEPT ![u] = None]
        /\ UNCHANGED <<studioVars, groupVars, blocked>>

\* views.person: an administrator blocks or unblocks an account.
Toggle(u) ==
    /\ Lockable(u)
    /\ blocked' = IF u \in blocked THEN blocked \ {u} ELSE blocked \cup {u}
    /\ UNCHANGED <<studioVars, groupVars, enrolled, enrolling, holder>>

-----------------------------------------------------------------------------
(* A teacher changes a group *)

GroupFree_Any(g) == TRUE  \* mutant: the group is not locked
GroupFree(g) == \A h \in Handlers : change[h] # None => change[h].group # g

ArchiveGroup(g) ==
    /\ GroupFree(g)
    /\ closed' = IF g \in closed THEN closed \ {g} ELSE closed \cup {g}
    /\ UNCHANGED <<studioVars, enrolVars, members, assigned, targets, change, leftOut>>

RemoveMember(g, u) ==
    /\ GroupFree(g) /\ g \notin closed
    /\ u \in members[g]
    /\ members' = [members EXCEPT ![g] = @ \ {u}]
    /\ UNCHANGED <<studioVars, enrolVars, closed, assigned, targets, change, leftOut>>

\* Both long actions: people whose accounts are to be locked in turn, each of
\* whom gets the given courses of the group.
Begin(h, g, joining, courses, people) ==
    /\ change[h] = None
    /\ GroupFree(g) /\ g \notin closed
    /\ change' = [change EXCEPT ![h] =
          [group |-> g, joining |-> joining, courses |-> courses,
           todo |-> people, given |-> {}]]
    /\ UNCHANGED <<studioVars, enrolVars, members, closed, assigned, targets>>

\* add, up to the lock of the person.  Adding a member again is allowed.
AddMember(h, g, u) ==
    /\ u \notin blocked
    /\ Cardinality(members[g]) < GroupLimit
    /\ Begin(h, g, {u}, assigned[g], <<u>>)
    /\ UNCHANGED leftOut

\* The orders in which the members of S can come from the database.
Orders_Any(S) == SetToSeqs(S)  \* mutant: no order_by('id')
Orders(S) ==
    {people \in SetToSeqs(S) : \A i, j \in DOMAIN people : i < j => people[i] < people[j]}

\* assign, up to the list of the active members.
Assign(h, g, c) ==
    /\ c \in listed
    /\ \A a \in assigned[g] : a[1] # c[1]
    /\ \E people \in Orders(members[g] \ blocked) : Begin(h, g, {}, {c}, people)
    /\ leftOut' = leftOut \cup {<<g, c, u>> : u \in members[g] \cap blocked}

\* ensure_target: the course that u follows an assignment of course c in.  A
\* release u studies already is kept.
Followed(u, c) ==
    IF EnrolledIn(u, c[1]) = {} THEN c ELSE CHOOSE e \in EnrolledIn(u, c[1]) : TRUE

HasTarget(g, c, u) == \E t \in targets : t.group = g /\ t.assigned = c /\ t.user = u

\* lock_user for the next person, and ensure_target for each course.
Give(h) ==
    LET k == change[h]
        u == Head(k.todo)
    IN  /\ k # None /\ k.todo # <<>>
        /\ Lockable(u)
        /\ holder' = [holder EXCEPT ![u] = h]
        /\ change' = [change EXCEPT
              ![h].todo = Tail(@),
              ![h].given = @ \cup
                 {[group |-> k.group, assigned |-> c, user |-> u, course |-> Followed(u, c)] :
                     c \in {a \in k.courses : ~HasTarget(k.group, a, u)}}]
        /\ UNCHANGED <<studioVars, members, closed, assigned, targets, leftOut,
                       enrolled, blocked, enrolling>>

\* The commit, which shows all of it and releases the locks.
Commit(h) ==
    LET k == change[h]
        g == k.group
    IN  /\ k # None /\ k.todo = <<>>
        /\ members' = [members EXCEPT ![g] = @ \cup k.joining]
        /\ assigned' = [assigned EXCEPT ![g] = @ \cup k.courses]
        /\ targets' = targets \cup k.given
        /\ enrolled' = enrolled \cup {<<t.user, t.course>> : t \in k.given}
        /\ leftOut' = {l \in leftOut : ~(l[1] = g /\ l[3] \in k.joining)}
        /\ holder' = [u \in Users |-> IF holder[u] = h THEN None ELSE holder[u]]
        /\ change' = [change EXCEPT ![h] = None]
        /\ UNCHANGED <<studioVars, closed, blocked, enrolling>>

-----------------------------------------------------------------------------

EnrolStep(u) == (\E c \in Courses : StartEnrol(u, c)) \/ FinishEnrol(u) \/ Toggle(u)

GroupStep(g) ==
    \/ ArchiveGroup(g)
    \/ \E u \in Users : RemoveMember(g, u)
    \/ \E h \in Handlers : \/ \E u \in Users : AddMember(h, g, u)
                           \/ \E c \in Courses : Assign(h, g, c)

Next ==
    \/ StudioNext /\ UNCHANGED <<groupVars, enrolVars>>
    \/ \E u \in Users : EnrolStep(u)
    \/ \E g \in Groups : GroupStep(g)
    \/ \E h \in Handlers : Give(h) \/ Commit(h)

Spec == Init /\ [][Next]_vars

-----------------------------------------------------------------------------
(* Properties *)

Target == [group : Groups, assigned : Courses, user : Users, course : Courses]

TypeOK ==
    /\ StudioTypeOK
    /\ enrolled \subseteq Users \X Courses
    /\ blocked \subseteq Users /\ closed \subseteq Groups
    /\ members \in [Groups -> SUBSET Users]
    /\ assigned \in [Groups -> SUBSET Courses]
    /\ targets \subseteq Target
    /\ \A h \in Handlers : change[h] # None =>
          change[h] \in [group : Groups, joining : SUBSET Users, courses : SUBSET Courses,
                         todo : Seq(Users), given : SUBSET Target]
    /\ enrolling \in [Users -> [course : Courses, listed : BOOLEAN] \cup {None}]
    /\ holder \in [Users -> Handlers \cup {Self, None}]
    /\ leftOut \subseteq Groups \X Courses \X Users

\* docs/history/README_M2.md:86, README_M56.md:32: a student has one release of
\* a course, however enrolling, assigning, joining groups and publishing
\* interleave; every assignment he got follows that release.
OneRelease ==
    \A u \in Users, d \in Drafts :
        /\ Cardinality(EnrolledIn(u, d)) <= 1
        /\ \A t \in targets : t.user = u /\ t.assigned[1] = d =>
              EnrolledIn(u, d) = {t.course}

\* README_M56.md:29,31: every member has every course of the group, whether he
\* or the course came first.  Left out are those blocked when it was assigned.
MembersAreAssigned ==
    \A g \in Groups : \A u \in members[g], c \in assigned[g] :
        HasTarget(g, c, u) \/ <<g, c, u>> \in leftOut

\* Changes of two groups with the same students never wait for each other: as
\* long as an account is locked, someone who holds a lock can go on.
CanGoOn(x) == x = Self \/ change[x].todo = <<>> \/ holder[Head(change[x].todo)] = None
NoDeadlock ==
    LET holders == {holder[u] : u \in Users} \ {None}
    IN  holders # {} => \E x \in holders : CanGoOn(x)
=============================================================================
