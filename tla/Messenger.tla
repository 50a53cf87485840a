----------------------------- MODULE Messenger -----------------------------
(***************************************************************************)
(* One chat room: the handlers of backend/messenger/services.py, which     *)
(* exclude each other by locking the room, the history endpoint of         *)
(* messenger/views.py, whose queries see whatever has been committed by    *)
(* the time they run, and the pages of frontend/static/js/messenger.js,    *)
(* which poll it, keep what they have shown, and retry a lost send.        *)
(*                                                                         *)
(* A message is its place in the room; what it says is its revision.  A    *)
(* text someone types, with the message it replies to, is a number: typed  *)
(* again it is another text.                                               *)
(***************************************************************************)
EXTENDS Naturals, Sequences, FiniteSetsExt

CONSTANTS
    Users,
    Pages,         \* pages that show the room
    UserOf,        \* UserOf[c]: who has page c open
    Creator,       \* who made the group
    Requests,      \* history requests that can be under way at once
    PageSize,      \* 50 in the code
    ChangeLimit,   \* 150 in the code
    MaxVersion,    \* bound: changes of the room
    MaxMessages,   \* bound: messages of the room
    MaxTexts,      \* bound: texts typed
    MaxKeys,       \* bound: request keys made
    None           \* no request

ASSUME MessengerConstants ==
    /\ UserOf \in [Pages -> Users] /\ IsFiniteSet(Pages)
    /\ Creator \in Users
    /\ PageSize \in Nat \ {0} /\ ChangeLimit \in Nat \ {0}
    /\ MaxVersion \in Nat /\ MaxMessages \in Nat /\ MaxTexts \in Nat
    /\ MaxKeys \in Nat
    /\ None \notin [page : Pages, kind : {"first", "since", "reset", "older"}, from : Nat,
                     stage : {"sent", "count", "list", "answered"}, version : Nat,
                     list : UNION {[S -> [rev : Nat, preview : Nat]] : S \in SUBSET (1 .. MaxMessages)},
                     older : BOOLEAN]

VARIABLES
    version,   \* Room.version
    messages,  \* Message rows, in the order of their ids
    members,   \* users with an active Member row
    owner,     \* Room.owner
    page,      \* page[c]: what page c keeps of the room
    request,   \* request[r]: a history request under way, or None
    compose,   \* compose[c]: the text field of page c
    posts,     \* sends under way
    typed,     \* texts typed so far
    keys,      \* request keys made so far
    forgotten  \* forgotten[x]: times a page dropped the key of text x and kept the text

room == <<version, messages, members, owner>>
sending == <<compose, posts, typed, keys, forgotten>>
vars == <<room, page, request, sending>>

Ids == DOMAIN messages

\* views.packed: the text, and the preview of the message replied to.
Packed(i) ==
    LET m == messages[i]
    IN  [rev |-> m.rev,
         preview |-> IF m.deleted \/ m.reply = 0 THEN 0 ELSE messages[m.reply].rev]

\* openRoom: nothing loaded.  base is the first message of the part loaded
\* without a hole, mixed tells of answers that were applied out of turn.
NotLoaded == MaxMessages + 1
Blank == [version |-> 0, shown |-> <<>>, older |-> FALSE, base |-> NotLoaded, mixed |-> FALSE]
Empty == [text |-> 0, reply |-> 0, key |-> 0, last |-> 0, pending |-> FALSE]

\* create_room, a group of all users: an empty room that is its creator's.
create_room ==
    /\ version = 0 /\ messages = <<>>
    /\ owner = Creator /\ members = {Creator} \cup (Users \ {Creator})

Init ==
    /\ create_room
    /\ page = [c \in Pages |-> Blank]
    /\ request = [r \in Requests |-> None]
    /\ compose = [c \in Pages |-> Empty]
    /\ posts = {}
    /\ typed = 0
    /\ keys = 0
    /\ forgotten = [x \in 1 .. MaxTexts |-> 0]

-----------------------------------------------------------------------------
(* The room *)

\* services.send after its checks.  reply_id must be a message of the room
\* that is not deleted.
Appended(u, key, payload, reply) ==
    Append(messages, [sender |-> u, key |-> key, payload |-> payload, reply |-> reply,
                      rev |-> 1, deleted |-> FALSE, seq |-> version + 1])

Replyable(i) == i = 0 \/ (i \in Ids /\ ~messages[i].deleted)

HasRoom == version < MaxVersion /\ Len(messages) < MaxMessages

\* A send by someone none of the pages belongs to.
PostElsewhere(u, reply) ==
    /\ u \in members /\ \A c \in Pages : UserOf[c] # u
    /\ HasRoom /\ Replyable(reply)
    /\ messages' = Appended(u, 0, 0, reply)
    /\ version' = version + 1
    /\ UNCHANGED <<members, owner, page, request, sending>>

\* change_message: the new revision, and a new number for the replies whose
\* preview it changes.
Changed(i, del) ==
    [j \in Ids |->
        IF j = i THEN [messages[i] EXCEPT !.rev = @ + 1, !.deleted = del,
                                          !.seq = version + 1]
        ELSE IF messages[j].reply = i THEN [messages[j] EXCEPT !.seq = version + 1]
        ELSE messages[j]]

\* The author gives the revision the change is meant for.
ChangeMessage(u, i, revision, del) ==
    /\ u \in members /\ i \in Ids
    /\ messages[i].sender = u
    /\ messages[i].rev = revision /\ ~messages[i].deleted
    /\ version < MaxVersion
    /\ messages' = Changed(i, del)
    /\ version' = version + 1
    /\ UNCHANGED <<members, owner, page, request, sending>>

\* manage_members of a group: leave, remove and add, transfer, rename.
Bump == version < MaxVersion /\ version' = version + 1

MayLeave_Anyone(u) == u \in members  \* mutant: the owner may leave
MayLeave(u) == u \in members /\ owner # u

Leave(u) ==
    /\ MayLeave(u)
    /\ members' = members \ {u}
    /\ Bump
    /\ UNCHANGED <<messages, owner, page, request, sending>>

MayManage(u, target) == u \in members /\ owner = u /\ target # u

AddMember(u, target) ==
    /\ MayManage(u, target)
    /\ members' = members \cup {target}
    /\ Bump
    /\ UNCHANGED <<messages, owner, page, request, sending>>

RemoveMember(u, target) ==
    /\ MayManage(u, target) /\ target \in members
    /\ members' = members \ {target}
    /\ Bump
    /\ UNCHANGED <<messages, owner, page, request, sending>>

Transfer(u, target) ==
    /\ MayManage(u, target) /\ target \in members
    /\ owner' = target
    /\ Bump
    /\ UNCHANGED <<messages, members, page, request, sending>>

Rename(u) ==
    /\ u \in members /\ owner = u
    /\ Bump
    /\ UNCHANGED <<messages, members, owner, page, request, sending>>

-----------------------------------------------------------------------------
(* Sending from a page *)

Type(c, reply) ==
    /\ ~compose[c].pending /\ typed < MaxTexts
    /\ reply = 0 \/ reply \in DOMAIN page[c].shown
    /\ typed' = typed + 1
    /\ compose' = [compose EXCEPT ![c].text = typed + 1, ![c].reply = reply]
    /\ UNCHANGED <<room, page, request, posts, keys, forgotten>>

\* A key is made for a text, and kept while the text stays.
SameText_Never(c) == FALSE  \* mutant: every attempt is a new request
SameText(c) == compose[c].last = compose[c].text

Submit(c) ==
    LET key == IF SameText(c) THEN compose[c].key ELSE keys + 1
    IN  /\ compose[c].text # 0 /\ ~compose[c].pending
        /\ SameText(c) \/ keys < MaxKeys
        /\ keys' = IF SameText(c) THEN keys ELSE key
        /\ compose' = [compose EXCEPT ![c].key = key, ![c].last = compose[c].text,
                                      ![c].pending = TRUE]
        /\ posts' = posts \cup {[page |-> c, key |-> key, text |-> compose[c].text,
                                 reply |-> compose[c].reply]}
    /\ UNCHANGED <<room, page, request, typed, forgotten>>

\* The page stops waiting; its request is lost, or still on its way.
GiveUp(c) ==
    /\ compose[c].pending
    /\ compose' = [compose EXCEPT ![c].pending = FALSE]
    /\ posts' \in {posts, {p \in posts : p.page # c \/ p.key # compose[c].key}}
    /\ UNCHANGED <<room, page, request, typed, keys, forgotten>>

\* An answer is taken by the page if it still waits for it.
Answered(p, sent) ==
    LET waits == compose[p.page].pending /\ compose[p.page].key = p.key
    IN  \/ /\ waits
           /\ compose' = [compose EXCEPT ![p.page] =
                            IF sent THEN Empty ELSE [@ EXCEPT !.pending = FALSE]]
        \/ UNCHANGED compose

SentAs(p) == {i \in Ids : messages[i].sender = UserOf[p.page] /\ messages[i].key = p.key}

\* services.send: nothing more for a key that is known, if the content is the
\* same; otherwise the message.
HandlePost(p) ==
    LET u   == UserOf[p.page]
        old == SentAs(p)
    IN  /\ posts' = posts \ {p}
        /\ \/ /\ u \notin members \/ (old = {} /\ ~Replyable(p.reply))
              /\ Answered(p, FALSE)
              /\ UNCHANGED <<version, messages>>
           \/ /\ u \in members /\ old # {}
              /\ Answered(p, \A i \in old : messages[i].payload = p.text)
              /\ UNCHANGED <<version, messages>>
           \/ /\ u \in members /\ old = {} /\ Replyable(p.reply) /\ HasRoom
              /\ Answered(p, TRUE)
              /\ messages' = Appended(u, p.key, p.text, p.reply)
              /\ version' = version + 1
    /\ UNCHANGED <<members, owner, page, request, typed, keys, forgotten>>

-----------------------------------------------------------------------------
(* The history endpoint *)

Free(r) == request[r] = None

\* A request as it leaves the page; what it asks from is fixed now.
Asked(c, kind, from) ==
    [page |-> c, kind |-> kind, from |-> from, stage |-> "sent",
     version |-> 0, list |-> <<>>, older |-> FALSE]

\* The membership and the version of the room, in one query.
ReadVersion(r) ==
    /\ request[r] # None /\ request[r].stage = "sent"
    /\ request' = [request EXCEPT ![r] =
         IF UserOf[@.page] \notin members THEN None
         ELSE [@ EXCEPT !.version = version,
                        !.stage = IF request[r].kind = "since" THEN "count" ELSE "list"]]
    /\ UNCHANGED <<room, page, sending>>

ChangedSince(n) == {i \in Ids : messages[i].seq > n}

\* Too many changes: the answer will be the newest page instead.
CountChanges(r) ==
    /\ request[r] # None /\ request[r].stage = "count"
    /\ request' = [request EXCEPT
         ![r].stage = "list",
         ![r].kind = IF Cardinality(ChangedSince(request[r].from)) > ChangeLimit
                     THEN "reset" ELSE "since"]
    /\ UNCHANGED <<room, page, sending>>

\* The PageSize newest messages below i.
Newest(i) == {j \in Ids : j < i /\ i - PageSize <= j}

\* The first ChangeLimit of the changed messages, by their number and id.
Before(i, j) ==
    \/ messages[i].seq < messages[j].seq
    \/ messages[i].seq = messages[j].seq /\ i < j
FirstChanged_ById(S) ==  \* mutant: ordered by id alone
    {i \in S : Cardinality({j \in S : j < i}) < ChangeLimit}
FirstChanged(S) == {i \in S : Cardinality({j \in S : Before(j, i)}) < ChangeLimit}

Selected(q) ==
    CASE q.kind = "since" -> FirstChanged(ChangedSince(q.from))
      [] q.kind = "older" -> Newest(q.from)
      [] OTHER            -> Newest(Len(messages) + 1)

ReadMessages(r) ==
    LET S == Selected(request[r])
    IN  /\ request[r] # None /\ request[r].stage = "list"
        /\ request' = [request EXCEPT ![r].stage = "answered",
                                      ![r].list = [i \in S |-> Packed(i)],
                                      ![r].older = S # {} /\ Min(S) > 1]
    /\ UNCHANGED <<room, page, sending>>

\* An error, or no answer.
Fail(r) ==
    /\ request[r] # None
    /\ request' = [request EXCEPT ![r] = None]
    /\ UNCHANGED <<room, page, sending>>

-----------------------------------------------------------------------------
(* The page *)

\* openRoom, also coming back from another room: nothing is loaded, answers
\* to earlier requests may still come.  A text left in the field is there
\* again, but not the key it may have been sent with.
Open(c, r) ==
    /\ ~compose[c].pending /\ Free(r)
    /\ page' = [page EXCEPT ![c] = Blank]
    /\ request' = [request EXCEPT ![r] = Asked(c, "first", 0)]
    /\ compose' = [compose EXCEPT ![c] = [Empty EXCEPT !.text = compose[c].text]]
    /\ forgotten' = [x \in DOMAIN forgotten |->
                        IF x = compose[c].text /\ x = compose[c].last
                        THEN forgotten[x] + 1 ELSE forgotten[x]]
    /\ UNCHANGED <<room, posts, typed, keys>>

\* loadHistory, every two seconds and after each action of the page.
Poll(c, r) ==
    /\ Free(r)
    /\ request' = [request EXCEPT ![r] =
         IF page[c].version = 0 THEN Asked(c, "first", 0)
                                ELSE Asked(c, "since", page[c].version)]
    /\ UNCHANGED <<room, page, sending>>

\* loadHistory(true).
LoadOlder(c, r) ==
    /\ Free(r)
    /\ page[c].older /\ DOMAIN page[c].shown # {}
    /\ request' = [request EXCEPT ![r] = Asked(c, "older", Min(DOMAIN page[c].shown))]
    /\ UNCHANGED <<room, page, sending>>

\* The answer's messages, over those on the page.
Overlay(shown, list) ==
    [i \in DOMAIN shown \cup DOMAIN list |->
        IF i \in DOMAIN list THEN list[i] ELSE shown[i]]

\* Where the part without a hole begins after an answer.
BaseAfter(p, q) ==
    CASE q.kind = "since" -> p.base
      [] q.kind = "older" -> IF q.from < p.base \/ DOMAIN q.list = {} THEN p.base
                             ELSE Min(DOMAIN q.list \cup {p.base})
      [] OTHER            -> IF DOMAIN q.list = {} THEN 1 ELSE Min(DOMAIN q.list)

\* An answer older than the page, changes since a version the page has not
\* reached (it was opened anew), or a first load over a loaded page.
OutOfTurn(p, q) ==
    \/ q.version < p.version
    \/ q.kind = "since" /\ p.version < q.from
    \/ q.kind = "first" /\ DOMAIN p.shown # {}

VersionAfter(p, q) == IF q.kind = "older" THEN p.version ELSE q.version

Apply(r) ==
    LET q == request[r]
        p == page[q.page]
    IN  /\ q # None /\ q.stage = "answered"
        /\ page' = [page EXCEPT ![q.page] =
             [version |-> VersionAfter(p, q),
              shown   |-> IF q.kind = "reset" THEN q.list ELSE Overlay(p.shown, q.list),
              older   |-> IF q.kind = "since" THEN p.older ELSE q.older,
              base    |-> BaseAfter(p, q),
              mixed   |-> p.mixed \/ OutOfTurn(p, q)]]
        /\ request' = [request EXCEPT ![r] = None]
    /\ UNCHANGED <<room, sending>>

-----------------------------------------------------------------------------

RoomStep ==
    \E u \in Users :
        \/ \E reply \in Ids \cup {0} : PostElsewhere(u, reply)
        \/ \E i \in Ids, del \in BOOLEAN : ChangeMessage(u, i, messages[i].rev, del)
        \/ Leave(u) \/ Rename(u)
        \/ \E t \in Users : AddMember(u, t) \/ RemoveMember(u, t) \/ Transfer(u, t)

PageStep(c) ==
    \/ \E reply \in Ids \cup {0} : Type(c, reply)
    \/ Submit(c) \/ GiveUp(c)
    \/ \E r \in Requests : Open(c, r) \/ Poll(c, r) \/ LoadOlder(c, r)

Serve(r) == ReadVersion(r) \/ CountChanges(r) \/ ReadMessages(r)

Next ==
    \/ RoomStep
    \/ \E c \in Pages : PageStep(c)
    \/ \E p \in posts : HandlePost(p)
    \/ \E r \in Requests : Serve(r) \/ Apply(r) \/ Fail(r)

Spec == Init /\ [][Next]_vars

-----------------------------------------------------------------------------
(* Properties *)

Content == [rev : Nat, preview : Nat]
Shown(f) == DOMAIN f \subseteq Ids /\ \A i \in DOMAIN f : f[i] \in Content

\* Every variable holds values the schema and the page's script allow; no order
\* of leaving, removing and handing over leaves a group to someone who is not
\* in it.
TypeOK ==
    /\ version \in 0 .. MaxVersion
    /\ messages \in Seq([sender : Users, key : Nat, payload : Nat, reply : Nat,
                         rev : Nat, deleted : BOOLEAN, seq : 1 .. version])
    /\ members \subseteq Users /\ owner \in members
    /\ \A c \in Pages : /\ page[c].version \in 0 .. version
                        /\ Shown(page[c].shown)
                        /\ page[c].older \in BOOLEAN /\ page[c].mixed \in BOOLEAN
                        /\ page[c].base \in 1 .. NotLoaded
    /\ \A r \in Requests : request[r] # None =>
          /\ request[r].page \in Pages
          /\ request[r].kind \in {"first", "since", "reset", "older"}
          /\ request[r].stage \in {"sent", "count", "list", "answered"}
          /\ request[r].from \in Nat /\ request[r].version \in 0 .. version
          /\ Shown(request[r].list)
    /\ compose \in [Pages -> [text : Nat, reply : Nat, key : Nat, last : Nat,
                              pending : BOOLEAN]]
    /\ typed \in 0 .. MaxTexts /\ keys \in 0 .. MaxKeys
    /\ forgotten \in [1 .. MaxTexts -> Nat]

\* A page at version V shows every message of its part as the room had it by
\* V, previews of replies included: however history queries interleave with
\* sends and edits, a change is in this answer or in a later one.  (As long as
\* its answers are applied in turn.)
FeedFollows ==
    \A c \in Pages : LET p == page[c] IN ~p.mixed =>
        \A i \in Ids :
            /\ messages[i].seq <= p.version
            /\ i \in DOMAIN p.shown \/ i >= p.base
            => i \in DOMAIN p.shown /\ p.shown[i] = Packed(i)

\* A text sent again after its answer was lost is not in the room twice, however
\* late the first attempt arrives.  Except by way of another room: openRoom
\* drops the key of a text that was sent without an answer and leaves the text
\* in the field, and the next send of it is a new request.  So a text is there
\* once, and once more for each time that happened to it.
NoDuplicates ==
    \A x \in 1 .. MaxTexts :
        Cardinality({i \in Ids : messages[i].payload = x}) <= 1 + forgotten[x]

\* docs/history/README_M56.md:22: members of a group see the whole history of
\* the room; line 14: by loading earlier pages.  So a page that has loaded some
\* of it and offers nothing older shows everything.
WholeHistory ==
    \A c \in Pages :
        /\ page[c].version = version /\ page[c].base # NotLoaded
        /\ ~page[c].mixed /\ ~page[c].older
        /\ \A r \in Requests : Free(r)
        => DOMAIN page[c].shown = Ids
=============================================================================
