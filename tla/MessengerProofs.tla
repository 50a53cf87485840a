--------------------------- MODULE MessengerProofs ---------------------------
(* Theorems about Messenger, for any users, pages, requests and sizes.       *)
EXTENDS Messenger, SequenceTheorems, FunctionTheorems, FiniteSetTheorems, WellFoundedInduction, TLAPS

(***************************************************************************)
(* The inductive invariant.                                                *)
(***************************************************************************)
Message == [sender : Users, key : Nat, payload : Nat, reply : Nat,
            rev : Nat, deleted : BOOLEAN, seq : Nat]
Lists == UNION {[S -> Content] : S \in SUBSET (1 .. MaxMessages)}
PageRow == [version : Nat, shown : Lists, older : BOOLEAN, base : 1 .. NotLoaded, mixed : BOOLEAN]
RequestRow == [page : Pages, kind : {"first", "since", "reset", "older"}, from : Nat,
               stage : {"sent", "count", "list", "answered"}, version : Nat,
               list : Lists, older : BOOLEAN]
Field == [text : Nat, reply : Nat, key : Nat, last : Nat, pending : BOOLEAN]
Post == [page : Pages, key : Nat, text : Nat, reply : Nat]

Types ==
    /\ version \in Nat /\ version <= MaxVersion
    /\ messages \in Seq(Message) /\ Len(messages) <= MaxMessages
    /\ members \subseteq Users /\ owner \in members
    /\ page \in [Pages -> PageRow]
    /\ request \in [Requests -> RequestRow \cup {None}]
    /\ compose \in [Pages -> Field] /\ posts \subseteq Post
    /\ typed \in Nat /\ typed <= MaxTexts /\ keys \in Nat /\ keys <= MaxKeys
    /\ forgotten \in [1 .. MaxTexts -> Nat]

\* A message has a number the room has given, and replies to an earlier one.
Numbered ==
    \A i \in Ids : /\ messages[i].seq >= 1 /\ messages[i].seq <= version
                   /\ messages[i].reply < i

\* What the reader of messages M is shown of one, and whether f has it as of
\* version V.
View(M, i) ==
    [rev |-> M[i].rev,
     preview |-> IF M[i].deleted \/ M[i].reply = 0 THEN 0 ELSE M[M[i].reply].rev]
Right(f, V, M, i) == M[i].seq <= V => i \in DOMAIN f /\ f[i] = View(M, i)

\* A page follows the room.
Follows(p, M, v) ==
    /\ p.version <= v /\ DOMAIN p.shown \subseteq DOMAIN M
    /\ ~p.mixed => \A i \in DOMAIN M : i \in DOMAIN p.shown \/ i >= p.base
                                          => Right(p.shown, p.version, M, i)
PagesFollow == \A c \in Pages : Follows(page[c], messages, version)

\* An answer has what it is asked for, as of its version or later: a page
\* without a hole, or every change after `from`, which the count before the
\* list has shown to fit.
Late(q, M) == {i \in DOMAIN M : q.from < M[i].seq /\ M[i].seq <= q.version}
Reaches(f, i) == \E k \in DOMAIN f : k <= i
Answers(q, M) ==
    /\ \A i \in DOMAIN q.list : Right(q.list, q.version, M, i)
    /\ q.kind \in {"first", "reset"} =>
          \A i \in DOMAIN M : DOMAIN q.list = {} \/ Reaches(q.list, i)
                                 => Right(q.list, q.version, M, i)
    /\ q.kind = "older" => \A i \in DOMAIN M : i < q.from /\ Reaches(q.list, i) => i \in DOMAIN q.list
    /\ q.kind = "since" => Late(q, M) \subseteq DOMAIN q.list
Sane(q, M, v) ==
    /\ q.version <= v /\ DOMAIN q.list \subseteq DOMAIN M
    /\ q.stage = "sent" => q.kind # "reset"
    /\ q.stage = "count" => q.kind = "since"
    /\ q.kind = "older" => q.from \in DOMAIN M
    /\ q.stage = "list" /\ q.kind = "since" =>
          IsFiniteSet(Late(q, M)) /\ Cardinality(Late(q, M)) <= ChangeLimit
    /\ q.stage = "answered" => Answers(q, M)
RequestsSane == \A r \in Requests : request[r] # None => Sane(request[r], messages, version)

\* The requests a text has been sent in, wherever they still are: in the room,
\* on their way, or in the page that may repeat them.
StampsOf(M, P, C) ==
    {<<M[i].sender, M[i].key, M[i].payload>> : i \in {j \in DOMAIN M : M[j].payload # 0}}
    \cup {<<UserOf[p.page], p.key, p.text>> : p \in P}
    \cup {<<UserOf[c], C[c].key, C[c].last>> : c \in {d \in Pages : C[d].last # 0}}
Said(S, x) == {a \in S : a[3] = x}
Few(A, n) == IsFiniteSet(A) /\ Cardinality(A) <= n
\* A text has one request, and one more for each time its key was dropped; one
\* of these is still to be made while the text waits in a field without a key.
Unsent(C) == {c \in Pages : C[c].text # 0 /\ C[c].text # C[c].last}
Kept(S, C, t, F) ==
    /\ \A a \in S : 1 <= a[3] /\ a[3] <= t
    /\ \A c \in Pages : C[c].text <= t
    /\ \A c, d \in Pages : C[c].text = C[d].text => c = d \/ C[c].text = 0
    /\ \A x \in 1 .. MaxTexts : Few(Said(S, x), 1 + F[x])
    /\ \A c \in Unsent(C) : Few(Said(S, C[c].text), F[C[c].text])
Keyed == Kept(StampsOf(messages, posts, compose), compose, typed, forgotten)

\* The room has one message of a request.
Once ==
    \A i, j \in Ids : /\ messages[i].payload # 0 /\ messages[j].payload # 0
                      /\ messages[i].sender = messages[j].sender
                      /\ messages[i].key = messages[j].key
                      => i = j

MessengerInv ==
    /\ Types /\ Numbered /\ PagesFollow /\ RequestsSane /\ Keyed /\ Once

-----------------------------------------------------------------------------
(* Rows and their fields. *)

LEMMA EmptyList == <<>> \in Lists /\ DOMAIN <<>> = {}
<1>1. DOMAIN <<>> = {}
  OBVIOUS
<1>2. <<>> \in [{} -> Content]
  BY <1>1
<1> QED BY <1>1, <1>2 DEF Lists

LEMMA ListParts ==
    /\ \A f \in Lists : /\ DOMAIN f \subseteq Nat /\ IsFiniteSet(DOMAIN f)
                        /\ \A i \in DOMAIN f : f[i] \in Content
    /\ \A S \in SUBSET (1 .. MaxMessages) : [S -> Content] \subseteq Lists
<1>1. IsFiniteSet(1 .. MaxMessages)
  BY MessengerConstants, FS_Interval
<1>2. ASSUME NEW f \in Lists
      PROVE  /\ DOMAIN f \subseteq Nat /\ IsFiniteSet(DOMAIN f)
             /\ \A i \in DOMAIN f : f[i] \in Content
  <2>1. PICK S \in SUBSET (1 .. MaxMessages) : f \in [S -> Content]
    BY DEF Lists
  <2>2. IsFiniteSet(S)
    BY <1>1, FS_Subset
  <2>3. DOMAIN f = S /\ S \subseteq Nat /\ \A i \in S : f[i] \in Content
    BY <2>1
  <2> QED BY <2>2, <2>3
<1> QED BY <1>2 DEF Lists

LEMMA PageFields ==
    \A p \in PageRow : /\ p.version \in Nat /\ p.shown \in Lists /\ p.older \in BOOLEAN
                       /\ p.base \in 1 .. NotLoaded /\ p.base \in Nat /\ p.mixed \in BOOLEAN
BY MessengerConstants DEF PageRow, NotLoaded

LEMMA RequestFields ==
    \A q \in RequestRow : /\ q.page \in Pages /\ q.kind \in {"first", "since", "reset", "older"}
                          /\ q.from \in Nat /\ q.stage \in {"sent", "count", "list", "answered"}
                          /\ q.version \in Nat /\ q.list \in Lists /\ q.older \in BOOLEAN
BY DEF RequestRow

LEMMA MessageFields ==
    \A m \in Message : /\ m.sender \in Users /\ m.key \in Nat /\ m.payload \in Nat
                       /\ m.reply \in Nat /\ m.rev \in Nat /\ m.deleted \in BOOLEAN /\ m.seq \in Nat
BY DEF Message

LEMMA FieldFields ==
    \A f \in Field : /\ f.text \in Nat /\ f.reply \in Nat /\ f.key \in Nat
                     /\ f.last \in Nat /\ f.pending \in BOOLEAN
BY DEF Field

LEMMA PostFields ==
    \A p \in Post : /\ p.page \in Pages /\ p.key \in Nat /\ p.text \in Nat /\ p.reply \in Nat
BY DEF Post

LEMMA NoneIsNoRequest == None \notin RequestRow
BY MessengerConstants DEF RequestRow, Lists, Content

LEMMA Room ==
    ASSUME Types
    PROVE  /\ Ids = 1 .. Len(messages) /\ Len(messages) \in Nat /\ IsFiniteSet(Ids)
           /\ DOMAIN messages = Ids
           /\ \A i \in Ids : i \in Nat /\ messages[i] \in Message /\ i \in 1 .. MaxMessages
<1>1. messages \in Seq(Message) /\ Len(messages) <= MaxMessages
  BY DEF Types
<1>2. /\ Ids = 1 .. Len(messages) /\ Len(messages) \in Nat /\ DOMAIN messages = Ids
      /\ \A i \in Ids : i \in Nat /\ messages[i] \in Message
  BY <1>1 DEF Ids
<1>3. IsFiniteSet(Ids)
  BY <1>2, FS_Interval
<1>4. \A i \in Ids : i \in 1 .. MaxMessages
  BY <1>1, <1>2, MessengerConstants
<1> QED BY <1>2, <1>3, <1>4

\* What a page is shown of a message has no more than the message.
LEMMA ViewType ==
    ASSUME Types, Numbered, NEW i \in Ids
    PROVE  Packed(i) = View(messages, i) /\ Packed(i) \in Content
<1>1. Packed(i) = View(messages, i)
  BY DEF Packed, View
<1>2. messages[i].reply \in Nat /\ messages[i].reply < i /\ i \in 1 .. Len(messages)
      /\ messages[i].rev \in Nat
  BY Room, MessageFields DEF Numbered
<1>3. messages[i].reply # 0 => messages[i].reply \in Ids
  BY <1>2, Room
<1>4. messages[i].reply # 0 => messages[messages[i].reply].rev \in Nat
  BY <1>3, Room, MessageFields
<1> QED BY <1>1, <1>2, <1>4 DEF View, Content

-----------------------------------------------------------------------------
(* The room moves on: what has been changed has a new number. *)

Moves(M, N, v, w) ==
    /\ v <= w /\ DOMAIN M \subseteq DOMAIN N
    /\ \A i \in DOMAIN M : N[i].seq > v \/ (N[i].seq = M[i].seq /\ View(N, i) = View(M, i))
    /\ \A i \in DOMAIN N : i \notin DOMAIN M => N[i].seq > v

LEMMA FollowsOn ==
    ASSUME NEW p \in PageRow, NEW M \in Seq(Message), NEW N \in Seq(Message),
           NEW v \in Nat, NEW w \in Nat, Moves(M, N, v, w), Follows(p, M, v)
    PROVE  Follows(p, N, w)
<1>1. p.version \in Nat /\ p.version <= v /\ DOMAIN p.shown \subseteq DOMAIN M
  BY PageFields DEF Follows
<1>2. /\ \A i \in DOMAIN M : M[i].seq \in Nat
      /\ \A i \in DOMAIN N : N[i].seq \in Nat
  BY MessageFields
<1>3. ASSUME ~p.mixed, NEW i \in DOMAIN N, i \in DOMAIN p.shown \/ i >= p.base
      PROVE  Right(p.shown, p.version, N, i)
  <2>1. CASE N[i].seq > v
    BY <1>1, <1>2, <2>1 DEF Right
  <2>2. CASE ~(N[i].seq > v)
    <3>1. i \in DOMAIN M /\ N[i].seq = M[i].seq /\ View(N, i) = View(M, i)
      BY <2>2 DEF Moves
    <3>2. Right(p.shown, p.version, M, i)
      BY <1>3, <3>1 DEF Follows
    <3> QED BY <3>1, <3>2 DEF Right
  <2> QED BY <2>1, <2>2
<1>4. p.version <= w /\ DOMAIN p.shown \subseteq DOMAIN N
  BY <1>1 DEF Moves
<1> QED BY <1>3, <1>4 DEF Follows

LEMMA SaneOn ==
    ASSUME NEW q \in RequestRow, NEW M \in Seq(Message), NEW N \in Seq(Message),
           NEW v \in Nat, NEW w \in Nat, Moves(M, N, v, w), Sane(q, M, v)
    PROVE  Sane(q, N, w)
<1>1. q.version \in Nat /\ q.version <= v /\ DOMAIN q.list \subseteq DOMAIN M /\ q.from \in Nat
  BY RequestFields DEF Sane
<1>2. /\ \A i \in DOMAIN M : M[i].seq \in Nat
      /\ \A i \in DOMAIN N : N[i].seq \in Nat
  BY MessageFields
<1>3. \A i \in DOMAIN N : \/ N[i].seq > q.version
                          \/ i \in DOMAIN M /\ N[i].seq = M[i].seq /\ View(N, i) = View(M, i)
  BY <1>1, <1>2 DEF Moves
<1>4. Late(q, N) \subseteq Late(q, M)
  <2> SUFFICES ASSUME NEW i \in Late(q, N) PROVE i \in Late(q, M)
    OBVIOUS
  <2>1. i \in DOMAIN N /\ q.from < N[i].seq /\ N[i].seq <= q.version
    BY DEF Late
  <2>2. ~(N[i].seq > q.version)
    BY <1>1, <1>2, <2>1
  <2>3. i \in DOMAIN M /\ N[i].seq = M[i].seq
    BY <1>3, <2>1, <2>2
  <2> QED BY <2>1, <2>3 DEF Late
<1>5. ASSUME NEW i \in DOMAIN N, i \in DOMAIN M => Right(q.list, q.version, M, i)
      PROVE  Right(q.list, q.version, N, i)
  BY <1>1, <1>2, <1>3, <1>5 DEF Right
<1>6. q.version <= w /\ DOMAIN q.list \subseteq DOMAIN N /\ DOMAIN M \subseteq DOMAIN N
  BY <1>1 DEF Moves
<1>7. ASSUME q.stage = "answered" PROVE Answers(q, N)
  <2>1. Answers(q, M)
    BY <1>7 DEF Sane
  <2>2. \A i \in DOMAIN q.list : Right(q.list, q.version, N, i)
    BY <1>1, <1>5, <1>6, <2>1 DEF Answers
  <2>3. q.kind \in {"first", "reset"} =>
          \A i \in DOMAIN N : DOMAIN q.list = {} \/ Reaches(q.list, i)
                                 => Right(q.list, q.version, N, i)
    BY <1>5, <2>1 DEF Answers
  <2>4. q.kind = "older" => \A i \in DOMAIN N : i < q.from /\ Reaches(q.list, i) => i \in DOMAIN q.list
    <3>1. ASSUME q.kind = "older", NEW i \in DOMAIN N, i < q.from
          PROVE  i \in DOMAIN M
      <4>1. q.from \in DOMAIN M
        BY <1>7, <3>1 DEF Sane
      <4>2. i \in 1 .. Len(N) /\ q.from \in 1 .. Len(M) /\ Len(M) \in Nat
        BY <4>1
      <4>3. i \in 1 .. Len(M)
        BY <3>1, <4>2
      <4> QED BY <4>3
    <3> QED BY <2>1, <3>1 DEF Answers
  <2>5. q.kind = "since" => Late(q, N) \subseteq DOMAIN q.list
    BY <1>4, <2>1 DEF Answers
  <2> QED BY <2>2, <2>3, <2>4, <2>5 DEF Answers
<1>8. ASSUME q.stage = "list", q.kind = "since"
      PROVE  IsFiniteSet(Late(q, N)) /\ Cardinality(Late(q, N)) <= ChangeLimit
  <2>1. IsFiniteSet(Late(q, M)) /\ Cardinality(Late(q, M)) <= ChangeLimit
    BY <1>8 DEF Sane
  <2>2. /\ IsFiniteSet(Late(q, N)) /\ Cardinality(Late(q, N)) <= Cardinality(Late(q, M))
    BY <1>4, <2>1, FS_Subset
  <2>3. Cardinality(Late(q, M)) \in Nat /\ Cardinality(Late(q, N)) \in Nat
    BY <2>1, <2>2, FS_CardinalityType
  <2> QED BY <2>1, <2>2, <2>3, MessengerConstants
<1>9. /\ q.stage = "sent" => q.kind # "reset"
      /\ q.stage = "count" => q.kind = "since"
      /\ q.kind = "older" => q.from \in DOMAIN N
  BY <1>6 DEF Sane
<1> QED BY <1>6, <1>7, <1>8, <1>9 DEF Sane

-----------------------------------------------------------------------------
(* The steps of the room. *)

LEMMA StampParts ==
    ASSUME NEW M, NEW P, NEW C, NEW a
    PROVE  a \in StampsOf(M, P, C) <=>
              \/ \E i \in DOMAIN M : M[i].payload # 0 /\ a = <<M[i].sender, M[i].key, M[i].payload>>
              \/ \E p \in P : a = <<UserOf[p.page], p.key, p.text>>
              \/ \E c \in Pages : C[c].last # 0 /\ a = <<UserOf[c], C[c].key, C[c].last>>
BY DEF StampsOf

LEMMA FewLess ==
    ASSUME NEW S, NEW T \in SUBSET S, NEW x, NEW n \in Nat, NEW m \in Nat, n <= m,
           Few(Said(S, x), n)
    PROVE  Few(Said(T, x), m)
<1>1. Said(T, x) \in SUBSET Said(S, x)
  BY DEF Said
<1>2. IsFiniteSet(Said(S, x)) /\ Cardinality(Said(S, x)) <= n
  BY DEF Few
<1>3. IsFiniteSet(Said(T, x)) /\ Cardinality(Said(T, x)) <= Cardinality(Said(S, x))
  BY <1>1, <1>2, FS_Subset
<1>4. Cardinality(Said(T, x)) \in Nat /\ Cardinality(Said(S, x)) \in Nat
  BY <1>2, <1>3, FS_CardinalityType
<1>5. Cardinality(Said(T, x)) <= m
  BY <1>2, <1>3, <1>4
<1> QED BY <1>3, <1>5 DEF Few

\* A text of a field that has not been sent.
LEMMA UnsentText ==
    ASSUME NEW C \in [Pages -> Field], NEW t \in Nat, t <= MaxTexts,
           \A c \in Pages : C[c].text <= t
    PROVE  \A c \in Unsent(C) : C[c].text \in 1 .. MaxTexts
<1> SUFFICES ASSUME NEW c \in Unsent(C) PROVE C[c].text \in 1 .. MaxTexts
  OBVIOUS
<1>1. c \in Pages /\ C[c].text # 0 /\ C[c].text \in Nat /\ C[c].text <= t
  BY FieldFields DEF Unsent
<1> QED BY <1>1, MessengerConstants

\* Fewer requests are kept as well.
LEMMA KeptOn ==
    ASSUME NEW S, NEW T \in SUBSET S, NEW C \in [Pages -> Field], NEW t \in Nat, t <= MaxTexts,
           NEW F \in [1 .. MaxTexts -> Nat], Kept(S, C, t, F)
    PROVE  Kept(T, C, t, F)
<1>1. ASSUME NEW x \in 1 .. MaxTexts PROVE Few(Said(T, x), 1 + F[x])
  <2>1. F[x] \in Nat /\ 1 + F[x] \in Nat /\ Few(Said(S, x), 1 + F[x])
    BY DEF Kept
  <2> QED BY <2>1, FewLess
<1>2. ASSUME NEW c \in Unsent(C) PROVE Few(Said(T, C[c].text), F[C[c].text])
  <2>1. C[c].text \in 1 .. MaxTexts
    BY UnsentText DEF Kept
  <2>2. F[C[c].text] \in Nat /\ Few(Said(S, C[c].text), F[C[c].text])
    BY <2>1 DEF Kept
  <2> QED BY <2>2, FewLess
<1> QED BY <1>1, <1>2 DEF Kept

\* What was said before has the stamps it had.
SaidBefore(M, N) ==
    \A i \in DOMAIN N : N[i].payload # 0 =>
        /\ i \in DOMAIN M /\ N[i].sender = M[i].sender
        /\ N[i].key = M[i].key /\ N[i].payload = M[i].payload

LEMMA StampsSaid ==
    ASSUME NEW M, NEW N, NEW P, NEW C, SaidBefore(M, N)
    PROVE  StampsOf(N, P, C) \subseteq StampsOf(M, P, C)
<1> SUFFICES ASSUME NEW a \in StampsOf(N, P, C) PROVE a \in StampsOf(M, P, C)
  OBVIOUS
<1>1. CASE \E i \in DOMAIN N : N[i].payload # 0 /\ a = <<N[i].sender, N[i].key, N[i].payload>>
  <2>1. \E i \in DOMAIN M : M[i].payload # 0 /\ a = <<M[i].sender, M[i].key, M[i].payload>>
    BY <1>1 DEF SaidBefore
  <2> QED BY <2>1, StampParts
<1>2. CASE ~ \E i \in DOMAIN N : N[i].payload # 0 /\ a = <<N[i].sender, N[i].key, N[i].payload>>
  <2>1. \/ \E p \in P : a = <<UserOf[p.page], p.key, p.text>>
        \/ \E c \in Pages : C[c].last # 0 /\ a = <<UserOf[c], C[c].key, C[c].last>>
    BY <1>2, StampParts
  <2> QED BY <2>1, StampParts
<1> QED BY <1>1, <1>2

\* The pages and the requests after any step of the room.
LEMMA ReadersFollow ==
    ASSUME Types, PagesFollow, RequestsSane, UNCHANGED <<page, request>>,
           messages' \in Seq(Message), version' \in Nat,
           Moves(messages, messages', version, version')
    PROVE  PagesFollow' /\ RequestsSane'
<1>1. messages \in Seq(Message) /\ version \in Nat
  BY DEF Types
<1>2. ASSUME NEW c \in Pages PROVE Follows(page'[c], messages', version')
  <2>1. page[c] \in PageRow /\ Follows(page[c], messages, version)
    BY DEF Types, PagesFollow
  <2> QED BY <1>1, <2>1, FollowsOn
<1>3. ASSUME NEW r \in Requests, request'[r] # None PROVE Sane(request'[r], messages', version')
  <2>1. request[r] \in RequestRow /\ Sane(request[r], messages, version)
    BY <1>3 DEF Types, RequestsSane
  <2> QED BY <1>1, <2>1, SaneOn
<1> QED BY <1>2, <1>3 DEF PagesFollow, RequestsSane

LEMMA RoomStepKeeps ==
    ASSUME MessengerInv, UNCHANGED <<page, request, compose, posts, typed, keys, forgotten>>,
           messages' \in Seq(Message), Len(messages') <= MaxMessages,
           version' \in Nat, version' <= MaxVersion,
           members' \subseteq Users, owner' \in members',
           Moves(messages, messages', version, version'), Numbered',
           SaidBefore(messages, messages')
    PROVE  MessengerInv'
<1>t. Types
  BY DEF MessengerInv
<1>1. Types'
  <2>1. /\ page' \in [Pages -> PageRow]
        /\ request' \in [Requests -> RequestRow \cup {None}]
        /\ compose' \in [Pages -> Field] /\ posts' \subseteq Post
        /\ typed' \in Nat /\ typed' <= MaxTexts /\ keys' \in Nat /\ keys' <= MaxKeys
        /\ forgotten' \in [1 .. MaxTexts -> Nat]
    BY <1>t DEF Types
  <2> QED BY <2>1 DEF Types
<1>2. PagesFollow' /\ RequestsSane'
  BY <1>t, ReadersFollow DEF MessengerInv
<1>3. Keyed'
  <2>1. Kept(StampsOf(messages, posts, compose), compose, typed, forgotten)
    BY DEF MessengerInv, Keyed
  <2>2. StampsOf(messages', posts, compose) \in SUBSET StampsOf(messages, posts, compose)
    BY StampsSaid
  <2>3. /\ compose \in [Pages -> Field] /\ typed \in Nat /\ typed <= MaxTexts
        /\ forgotten \in [1 .. MaxTexts -> Nat]
    BY <1>t DEF Types
  <2>4. Kept(StampsOf(messages', posts, compose), compose, typed, forgotten)
    BY <2>1, <2>2, <2>3, KeptOn
  <2> QED BY <2>4 DEF Keyed
<1>4. Once'
  <2>1. \A i, j \in DOMAIN messages' :
           /\ messages'[i].payload # 0 /\ messages'[j].payload # 0
           /\ messages'[i].sender = messages'[j].sender
           /\ messages'[i].key = messages'[j].key
           => i = j
    BY DEF SaidBefore, MessengerInv, Once, Ids
  <2> QED BY <2>1 DEF Once, Ids
<1> QED BY <1>1, <1>2, <1>3, <1>4 DEF MessengerInv

LEMMA StaysMoves ==
    ASSUME Types, Numbered, messages' = messages, version' \in Nat, version <= version'
    PROVE  Moves(messages, messages', version, version') /\ Numbered'
<1>1. Moves(messages, messages', version, version')
  BY DEF Moves
<1>2. \A i \in Ids : messages[i].seq \in Nat /\ version \in Nat
  BY Room, MessageFields DEF Types
<1>3. Ids' = Ids
  BY DEF Ids
<1>4. Numbered'
  BY <1>2, <1>3 DEF Numbered
<1> QED BY <1>1, <1>4

LEMMA ManageStep ==
    ASSUME MessengerInv, Bump, messages' = messages,
           UNCHANGED <<page, request, compose, posts, typed, keys, forgotten>>,
           members' \subseteq Users, owner' \in members'
    PROVE  MessengerInv'
<1>1. /\ version' \in Nat /\ version' <= MaxVersion /\ version <= version'
      /\ messages' \in Seq(Message) /\ Len(messages') <= MaxMessages
  BY MessengerConstants DEF MessengerInv, Types, Bump
<1>2. Moves(messages, messages', version, version') /\ Numbered'
  BY <1>1, StaysMoves DEF MessengerInv
<1>3. SaidBefore(messages, messages')
  BY DEF SaidBefore
<1> QED BY <1>1, <1>2, <1>3, RoomStepKeeps

LEMMA MembersStep ==
    ASSUME MessengerInv, NEW u \in Users,
           \/ Leave(u) \/ Rename(u)
           \/ \E t \in Users : AddMember(u, t) \/ RemoveMember(u, t) \/ Transfer(u, t)
    PROVE  MessengerInv'
<1>1. members \subseteq Users /\ owner \in members
  BY DEF MessengerInv, Types
<1>2. members' \subseteq Users /\ owner' \in members'
  BY <1>1 DEF Leave, MayLeave, Rename, AddMember, RemoveMember, Transfer, MayManage
<1>3. Bump /\ messages' = messages /\ UNCHANGED <<page, request, compose, posts, typed, keys, forgotten>>
  BY DEF Leave, Rename, AddMember, RemoveMember, Transfer, sending
<1> QED BY <1>2, <1>3, ManageStep

LEMMA Appends ==
    ASSUME Types, Numbered, HasRoom, NEW u \in Users, NEW k \in Nat, NEW x \in Nat, NEW reply,
           Replyable(reply), messages' = Appended(u, k, x, reply), version' = version + 1
    PROVE  /\ messages' \in Seq(Message) /\ Len(messages') <= MaxMessages
           /\ version' \in Nat /\ version' <= MaxVersion
           /\ Moves(messages, messages', version, version') /\ Numbered'
           /\ DOMAIN messages' = Ids \cup {Len(messages) + 1} /\ Len(messages) + 1 \notin Ids
           /\ \A i \in Ids : messages'[i] = messages[i]
           /\ LET m == messages'[Len(messages) + 1]
              IN  m.sender = u /\ m.key = k /\ m.payload = x
<1> DEFINE n == Len(messages) + 1
           m == [sender |-> u, key |-> k, payload |-> x, reply |-> reply,
                 rev |-> 1, deleted |-> FALSE, seq |-> version + 1]
<1>1. /\ Ids = 1 .. Len(messages) /\ Len(messages) \in Nat /\ DOMAIN messages = Ids
      /\ messages \in Seq(Message) /\ version \in Nat
      /\ \A i \in Ids : i \in Nat /\ messages[i] \in Message
  BY Room DEF Types
<1>2. reply \in Nat /\ reply < n /\ (reply # 0 => reply \in Ids)
  BY <1>1 DEF Replyable
<1>3. m \in Message /\ m.seq = version + 1 /\ m.reply = reply
      /\ m.sender = u /\ m.key = k /\ m.payload = x
  BY <1>1, <1>2 DEF Message
<1>4. messages' = Append(messages, m)
  BY DEF Appended
<1> HIDE DEF m
<1>5. /\ messages' \in Seq(Message) /\ Len(messages') = n
      /\ messages'[n] = m /\ \A i \in Ids : messages'[i] = messages[i]
  BY <1>1, <1>3, <1>4
<1>6. DOMAIN messages' = Ids \cup {n} /\ n \notin Ids
  BY <1>1, <1>5
<1>7. /\ n <= MaxMessages /\ version' \in Nat /\ version' <= MaxVersion /\ version <= version'
  BY <1>1, MessengerConstants DEF HasRoom
<1>8. ASSUME NEW i \in Ids PROVE View(messages', i) = View(messages, i)
  <2>1. messages[i].reply \in Nat /\ messages[i].reply < i
    BY <1>1, MessageFields DEF Numbered
  <2>2. messages[i].reply # 0 => messages[i].reply \in Ids
    BY <1>1, <2>1
  <2> QED BY <1>5, <2>2 DEF View
<1>9. Moves(messages, messages', version, version')
  BY <1>1, <1>3, <1>5, <1>6, <1>7, <1>8 DEF Moves
<1>10. Numbered'
  <2>1. Ids' = Ids \cup {n}
    BY <1>6 DEF Ids
  <2>2. ASSUME NEW i \in Ids
        PROVE  /\ messages'[i].seq >= 1 /\ messages'[i].seq <= version' /\ messages'[i].reply < i
    <3>1. messages[i].seq \in Nat
      BY <1>1, MessageFields
    <3> QED BY <1>1, <1>5, <1>7, <3>1 DEF Numbered
  <2>3. messages'[n].seq >= 1 /\ messages'[n].seq <= version' /\ messages'[n].reply < n
    BY <1>1, <1>2, <1>3, <1>5
  <2> QED BY <2>1, <2>2, <2>3 DEF Numbered
<1> QED BY <1>3, <1>5, <1>6, <1>7, <1>9, <1>10

LEMMA PostElsewhereStep ==
    ASSUME MessengerInv, NEW u \in Users, NEW reply, PostElsewhere(u, reply)
    PROVE  MessengerInv'
<1>1. /\ HasRoom /\ Replyable(reply) /\ messages' = Appended(u, 0, 0, reply) /\ version' = version + 1
      /\ members' = members /\ owner' = owner
      /\ UNCHANGED <<page, request, compose, posts, typed, keys, forgotten>>
  BY DEF PostElsewhere, sending
<1>2. /\ messages' \in Seq(Message) /\ Len(messages') <= MaxMessages
      /\ version' \in Nat /\ version' <= MaxVersion
      /\ Moves(messages, messages', version, version') /\ Numbered'
      /\ DOMAIN messages' = Ids \cup {Len(messages) + 1}
      /\ \A i \in Ids : messages'[i] = messages[i]
      /\ messages'[Len(messages) + 1].payload = 0
  BY <1>1, Appends DEF MessengerInv
<1>3. SaidBefore(messages, messages')
  BY <1>2 DEF SaidBefore, Ids
<1>4. members' \subseteq Users /\ owner' \in members'
  BY <1>1 DEF MessengerInv, Types
<1> QED BY <1>1, <1>2, <1>3, <1>4, RoomStepKeeps

\* The rows change_message writes.
Rewritten(m, del, s) == [m EXCEPT !.rev = m.rev + 1, !.deleted = del, !.seq = s]
Renumbered(m, s) == [m EXCEPT !.seq = s]

LEMMA RowsRewritten ==
    ASSUME NEW m \in Message, NEW del \in BOOLEAN, NEW s \in Nat
    PROVE  LET a == Rewritten(m, del, s)
               b == Renumbered(m, s)
           IN  /\ a \in Message /\ a.sender = m.sender /\ a.key = m.key /\ a.payload = m.payload
               /\ a.reply = m.reply /\ a.seq = s
               /\ b \in Message /\ b.sender = m.sender /\ b.key = m.key /\ b.payload = m.payload
               /\ b.reply = m.reply /\ b.seq = s /\ b.rev = m.rev /\ b.deleted = m.deleted
<1> DEFINE n == m.rev + 1
<1>1. n \in Nat
  BY MessageFields
<1> HIDE DEF n
<1>2. LET a == [m EXCEPT !.rev = n, !.deleted = del, !.seq = s]
      IN  /\ a \in Message /\ a.sender = m.sender /\ a.key = m.key /\ a.payload = m.payload
          /\ a.reply = m.reply /\ a.seq = s
  BY <1>1 DEF Message
<1>3. LET b == [m EXCEPT !.seq = s]
      IN  /\ b \in Message /\ b.sender = m.sender /\ b.key = m.key /\ b.payload = m.payload
          /\ b.reply = m.reply /\ b.seq = s /\ b.rev = m.rev /\ b.deleted = m.deleted
  BY DEF Message
<1> QED BY <1>2, <1>3 DEF Rewritten, Renumbered, n

LEMMA ChangeMessageStep ==
    ASSUME MessengerInv, NEW u \in Users, NEW i \in Ids, NEW del \in BOOLEAN, NEW revision,
           ChangeMessage(u, i, revision, del)
    PROVE  MessengerInv'
<1>t. Types /\ Numbered
  BY DEF MessengerInv
<1>1. /\ Ids = 1 .. Len(messages) /\ Len(messages) \in Nat /\ DOMAIN messages = Ids
      /\ messages \in Seq(Message) /\ version \in Nat /\ Len(messages) <= MaxMessages
      /\ \A j \in Ids : j \in Nat /\ messages[j] \in Message
  BY <1>t, Room DEF Types
<1>2. /\ messages' = Changed(i, del) /\ version' = version + 1 /\ version < MaxVersion
      /\ members' = members /\ owner' = owner
      /\ UNCHANGED <<page, request, compose, posts, typed, keys, forgotten>>
  BY DEF ChangeMessage, sending
<1>3. version' \in Nat /\ version' <= MaxVersion /\ version <= version' /\ version < version'
  BY <1>1, <1>2, MessengerConstants
<1>4. messages' = [j \in Ids |->
          IF j = i THEN Rewritten(messages[i], del, version')
          ELSE IF messages[j].reply = i THEN Renumbered(messages[j], version')
          ELSE messages[j]]
  BY <1>2 DEF Changed, Rewritten, Renumbered
<1>5. \A j \in Ids :
         /\ messages'[j] \in Message
         /\ messages'[j].sender = messages[j].sender /\ messages'[j].key = messages[j].key
         /\ messages'[j].payload = messages[j].payload /\ messages'[j].reply = messages[j].reply
         /\ j # i => /\ messages'[j].rev = messages[j].rev /\ messages'[j].deleted = messages[j].deleted
         /\ \/ messages'[j].seq = version'
            \/ messages'[j].seq = messages[j].seq /\ j # i /\ messages[j].reply # i
  <2> TAKE j \in Ids
  <2> DEFINE a == Rewritten(messages[j], del, version')
             b == Renumbered(messages[j], version')
  <2>1. messages'[j] = IF j = i THEN a ELSE IF messages[j].reply = i THEN b ELSE messages[j]
    BY <1>4
  <2>2. messages[j] \in Message
    BY <1>1
  <2>3. /\ a \in Message /\ a.sender = messages[j].sender /\ a.key = messages[j].key
        /\ a.payload = messages[j].payload /\ a.reply = messages[j].reply /\ a.seq = version'
        /\ b \in Message /\ b.sender = messages[j].sender /\ b.key = messages[j].key
        /\ b.payload = messages[j].payload /\ b.reply = messages[j].reply /\ b.seq = version'
        /\ b.rev = messages[j].rev /\ b.deleted = messages[j].deleted
    BY <1>3, <2>2, RowsRewritten
  <2> HIDE DEF a, b
  <2>4. CASE j = i
    BY <2>1, <2>3, <2>4
  <2>5. CASE j # i /\ messages[j].reply = i
    BY <2>1, <2>3, <2>5
  <2>6. CASE j # i /\ messages[j].reply # i
    BY <2>1, <2>2, <2>6
  <2> QED BY <2>4, <2>5, <2>6
<1>6. DOMAIN messages' = Ids
  BY <1>4
<1>7. messages' \in Seq(Message) /\ Len(messages') = Len(messages)
  <2>1. messages' \in [1 .. Len(messages) -> Message]
    BY <1>1, <1>4, <1>5
  <2> QED BY <1>1, <2>1
<1>8. ASSUME NEW j \in Ids, j # i, messages[j].reply # i
      PROVE  View(messages', j) = View(messages, j)
  <2>1. messages[j].reply \in Nat /\ messages[j].reply < j
    BY <1>1, <1>t, MessageFields DEF Numbered
  <2>2. messages[j].reply # 0 => messages[j].reply \in Ids
    BY <1>1, <2>1
  <2> QED BY <1>5, <1>8, <2>2 DEF View
<1>9. Moves(messages, messages', version, version')
  BY <1>1, <1>3, <1>5, <1>6, <1>8 DEF Moves
<1>10. Numbered'
  <2>1. Ids' = Ids
    BY <1>6 DEF Ids
  <2>2. ASSUME NEW j \in Ids
        PROVE  /\ messages'[j].seq >= 1 /\ messages'[j].seq <= version' /\ messages'[j].reply < j
    <3>1. messages[j].seq \in Nat
      BY <1>1, MessageFields
    <3>2. messages[j].seq >= 1 /\ messages[j].seq <= version /\ messages[j].reply < j
      BY <1>t DEF Numbered
    <3> QED BY <1>1, <1>3, <1>5, <3>1, <3>2
  <2> QED BY <2>1, <2>2 DEF Numbered
<1>11. SaidBefore(messages, messages')
  BY <1>1, <1>5, <1>6 DEF SaidBefore
<1>12. members' \subseteq Users /\ owner' \in members'
  BY <1>2, <1>t DEF Types
<1> QED BY <1>1, <1>2, <1>3, <1>7, <1>9, <1>10, <1>11, <1>12, RoomStepKeeps

-----------------------------------------------------------------------------
(* Sending from a page. *)

\* A field is emptied, left as it is but for the waiting, loses the key of its
\* text, or gets a new text.
Edited(C, D, c, t, w, F, G) ==
    /\ \A d \in Pages : d # c => D[d] = C[d]
    /\ \A x \in 1 .. MaxTexts : F[x] <= G[x]
    /\ \/ w = t /\ D[c].text = 0
       \/ /\ w = t /\ D[c].text = C[c].text
          /\ \/ C[c].text # C[c].last
             \/ D[c].last = C[c].last
             \/ G[C[c].text] = F[C[c].text] + 1
       \/ w = t + 1 /\ D[c].text = w

LEMMA FieldChanged ==
    ASSUME NEW C \in [Pages -> Field], NEW D \in [Pages -> Field], NEW c \in Pages,
           NEW S, NEW T \in SUBSET S, NEW t \in Nat, NEW w \in Nat, w <= MaxTexts,
           NEW F \in [1 .. MaxTexts -> Nat], NEW G \in [1 .. MaxTexts -> Nat],
           Edited(C, D, c, t, w, F, G), \A a \in S : a[3] \in Nat, Kept(S, C, t, F)
    PROVE  Kept(T, D, w, G)
<1> DEFINE f == D[c]
<1>1. \A d \in Pages : d # c => D[d] = C[d]
  BY DEF Edited
<1>2. \A d \in Pages : C[d].text \in Nat /\ C[d].text <= t /\ C[d].text < t + 1
  BY FieldFields DEF Kept
<1>3. f.text \in Nat /\ t <= w
  BY FieldFields DEF Edited
<1>4. \A a \in S : a[3] \in Nat /\ 1 <= a[3] /\ a[3] <= t
  BY DEF Kept
<1>5. \A a \in T : 1 <= a[3] /\ a[3] <= w
  BY <1>3, <1>4
<1>6. \A d \in Pages : D[d].text <= w
  <2>1. f.text <= w
    BY <1>2, <1>3 DEF Edited
  <2>2. \A d \in Pages : d # c => D[d].text <= w
    BY <1>1, <1>2, <1>3
  <2> QED BY <2>1, <2>2
<1>7. \A d, e \in Pages : D[d].text = D[e].text => d = e \/ D[d].text = 0
  <2>1. \A d, e \in Pages : C[d].text = C[e].text => d = e \/ C[d].text = 0
    BY DEF Kept
  <2>2. f.text = 0 \/ f.text = C[c].text \/ \A d \in Pages : C[d].text # f.text
    BY <1>2 DEF Edited
  <2> QED BY <1>1, <2>1, <2>2
<1>8. ASSUME NEW x \in 1 .. MaxTexts PROVE Few(Said(T, x), 1 + G[x])
  <2>1. Few(Said(S, x), 1 + F[x]) /\ F[x] <= G[x]
    BY DEF Kept, Edited
  <2>2. 1 + F[x] \in Nat /\ 1 + G[x] \in Nat /\ 1 + F[x] <= 1 + G[x]
    BY <2>1
  <2> QED BY <2>1, <2>2, FewLess
<1>9. t <= MaxTexts
  BY <1>3, MessengerConstants
<1>10. ASSUME NEW d \in Unsent(D) PROVE Few(Said(T, D[d].text), G[D[d].text])
  <2> DEFINE x == D[d].text
  <2>1. x \in 1 .. MaxTexts /\ d \in Pages /\ x # 0 /\ x # D[d].last
    BY <1>6, UnsentText DEF Unsent
  <2>2. F[x] \in Nat /\ G[x] \in Nat /\ F[x] <= G[x]
    BY <2>1 DEF Edited
  <2>3. CASE d \in Unsent(C) /\ x = C[d].text
    <3>1. Few(Said(S, x), F[x])
      BY <2>3 DEF Kept
    <3> HIDE DEF x
    <3>2. Few(Said(T, x), G[x])
      BY <2>2, <3>1, FewLess
    <3> QED BY <3>2 DEF x
  <2>4. CASE d = c /\ x = C[c].text /\ G[x] = F[x] + 1
    <3>1. Few(Said(S, x), 1 + F[x]) /\ 1 + F[x] \in Nat /\ 1 + F[x] <= G[x]
      BY <2>1, <2>2, <2>4 DEF Kept
    <3> HIDE DEF x
    <3>2. Few(Said(T, x), G[x])
      BY <2>2, <3>1, FewLess
    <3> QED BY <3>2 DEF x
  <2>5. CASE d = c /\ x = t + 1
    <3>1. Said(T, x) = {}
      BY <1>4, <2>5 DEF Said
    <3>2. IsFiniteSet({}) /\ Cardinality({}) = 0
      BY FS_EmptySet
    <3> HIDE DEF x
    <3>3. Few(Said(T, x), G[x])
      BY <2>2, <3>1, <3>2 DEF Few
    <3> QED BY <3>3 DEF x
  <2>6. CASE d # c
    <3>1. D[d] = C[d]
      BY <1>1, <2>1, <2>6
    <3>2. d \in Unsent(C) /\ x = C[d].text
      BY <2>1, <3>1 DEF Unsent
    <3> QED BY <2>3, <3>2
  <2>7. CASE d = c
    <3>1. \/ x = C[c].text /\ C[c].text # C[c].last
          \/ x = C[c].text /\ D[c].last = C[c].last
          \/ x = C[c].text /\ G[x] = F[x] + 1
          \/ x = t + 1
      BY <2>1, <2>7 DEF Edited
    <3>2. x = C[c].text /\ C[c].text # C[c].last => d \in Unsent(C)
      BY <2>1, <2>7 DEF Unsent
    <3>3. x = C[c].text /\ D[c].last = C[c].last => C[c].text # C[c].last
      BY <2>1, <2>7
    <3> QED BY <2>3, <2>4, <2>5, <2>7, <3>1, <3>2, <3>3
  <2> QED BY <2>6, <2>7
<1> QED BY <1>5, <1>6, <1>7, <1>8, <1>10 DEF Kept

LEMMA StampsLess ==
    ASSUME NEW M, NEW P, NEW Q \in SUBSET P, NEW C, NEW D, NEW c \in Pages,
           \A d \in Pages : d # c => D[d] = C[d],
           D[c].last = 0 \/ (D[c].last = C[c].last /\ D[c].key = C[c].key)
    PROVE  StampsOf(M, Q, D) \in SUBSET StampsOf(M, P, C)
<1> SUFFICES ASSUME NEW a \in StampsOf(M, Q, D) PROVE a \in StampsOf(M, P, C)
  OBVIOUS
<1>2. ASSUME NEW d \in Pages, D[d].last # 0, a = <<UserOf[d], D[d].key, D[d].last>>
      PROVE  C[d].last # 0 /\ a = <<UserOf[d], C[d].key, C[d].last>>
  BY <1>2
<1>3. CASE \E i \in DOMAIN M : M[i].payload # 0 /\ a = <<M[i].sender, M[i].key, M[i].payload>>
  BY <1>3, StampParts
<1>4. CASE \E p \in Q : a = <<UserOf[p.page], p.key, p.text>>
  <2>1. \E p \in P : a = <<UserOf[p.page], p.key, p.text>>
    BY <1>4
  <2> QED BY <2>1, StampParts
<1>5. CASE \E d \in Pages : D[d].last # 0 /\ a = <<UserOf[d], D[d].key, D[d].last>>
  <2>1. \E d \in Pages : C[d].last # 0 /\ a = <<UserOf[d], C[d].key, C[d].last>>
    BY <1>2, <1>5
  <2> QED BY <2>1, StampParts
<1>6. \/ \E i \in DOMAIN M : M[i].payload # 0 /\ a = <<M[i].sender, M[i].key, M[i].payload>>
      \/ \E p \in Q : a = <<UserOf[p.page], p.key, p.text>>
      \/ \E d \in Pages : D[d].last # 0 /\ a = <<UserOf[d], D[d].key, D[d].last>>
  BY StampParts
<1> QED BY <1>3, <1>4, <1>5, <1>6

LEMMA StampTypes ==
    ASSUME Types
    PROVE  \A a \in StampsOf(messages, posts, compose) : a[2] \in Nat /\ a[3] \in Nat
<1> SUFFICES ASSUME NEW a \in StampsOf(messages, posts, compose) PROVE a[2] \in Nat /\ a[3] \in Nat
  OBVIOUS
<1>1. ASSUME NEW i \in DOMAIN messages, a = <<messages[i].sender, messages[i].key, messages[i].payload>>
      PROVE  a[2] \in Nat /\ a[3] \in Nat
  BY <1>1, Room, MessageFields
<1>2. ASSUME NEW p \in posts, a = <<UserOf[p.page], p.key, p.text>>
      PROVE  a[2] \in Nat /\ a[3] \in Nat
  BY <1>2, PostFields DEF Types
<1>3. ASSUME NEW c \in Pages, a = <<UserOf[c], compose[c].key, compose[c].last>>
      PROVE  a[2] \in Nat /\ a[3] \in Nat
  BY <1>3, FieldFields DEF Types
<1> QED BY <1>1, <1>2, <1>3, StampParts

\* A step that changes one field and says nothing new.
LEMMA OneField ==
    ASSUME MessengerInv, NEW c \in Pages, compose' \in [Pages -> Field],
           typed' \in Nat, typed' <= MaxTexts, forgotten' \in [1 .. MaxTexts -> Nat],
           Edited(compose, compose', c, typed, typed', forgotten, forgotten'),
           StampsOf(messages', posts', compose') \in SUBSET StampsOf(messages, posts, compose)
    PROVE  Keyed'
<1> DEFINE S == StampsOf(messages, posts, compose)
           T == StampsOf(messages', posts', compose')
<1>1. compose \in [Pages -> Field] /\ typed \in Nat /\ forgotten \in [1 .. MaxTexts -> Nat]
  BY DEF MessengerInv, Types
<1>2. \A a \in S : a[3] \in Nat
  BY StampTypes DEF MessengerInv
<1>3. Kept(S, compose, typed, forgotten)
  BY DEF MessengerInv, Keyed
<1>4. T \in SUBSET S
  OBVIOUS
<1> HIDE DEF S, T
<1>5. Kept(T, compose', typed', forgotten')
  BY <1>1, <1>2, <1>3, <1>4, FieldChanged
<1> QED BY <1>5 DEF Keyed, T

\* Steps that leave the room, the pages and the requests as they are.
LEMMA SendingKeeps ==
    ASSUME MessengerInv, UNCHANGED <<room, page, request>>,
           compose' \in [Pages -> Field], posts' \subseteq Post,
           typed' \in Nat, typed' <= MaxTexts, keys' \in Nat, keys' <= MaxKeys,
           forgotten' \in [1 .. MaxTexts -> Nat], Keyed'
    PROVE  MessengerInv'
<1>1. /\ version' = version /\ messages' = messages /\ members' = members /\ owner' = owner
      /\ page' = page /\ request' = request
  BY DEF room
<1>2. Types'
  BY <1>1 DEF MessengerInv, Types
<1>3. Numbered' /\ Once'
  BY <1>1 DEF MessengerInv, Numbered, Once, Ids
<1>4. PagesFollow' /\ RequestsSane'
  BY <1>1 DEF MessengerInv, PagesFollow, RequestsSane
<1> QED BY <1>2, <1>3, <1>4 DEF MessengerInv

\* The fields Type, Submit and the answers leave.
TypedIn(f, t, reply) == [f EXCEPT !.text = t, !.reply = reply]
Submitted(f, k) == [f EXCEPT !.key = k, !.last = f.text, !.pending = TRUE]
Waits(f) == [f EXCEPT !.pending = FALSE]
OnlyText(t) == [Empty EXCEPT !.text = t]

LEMMA FieldsMade ==
    ASSUME NEW f \in Field, NEW t \in Nat, NEW k \in Nat
    PROVE  LET a == TypedIn(f, t, k)
               b == Submitted(f, k)
               e == Waits(f)
               o == OnlyText(t)
           IN  /\ a \in Field /\ a.text = t /\ a.key = f.key /\ a.last = f.last
               /\ b \in Field /\ b.text = f.text /\ b.key = k /\ b.last = f.text
               /\ e \in Field /\ e.text = f.text /\ e.key = f.key /\ e.last = f.last
               /\ o \in Field /\ o.text = t /\ o.key = 0 /\ o.last = 0
               /\ Empty \in Field /\ Empty.text = 0 /\ Empty.last = 0
BY DEF Field, TypedIn, Submitted, Waits, OnlyText, Empty

LEMMA TypeStep ==
    ASSUME MessengerInv, NEW c \in Pages, NEW reply \in Ids \cup {0}, Type(c, reply)
    PROVE  MessengerInv'
<1>t. Types
  BY DEF MessengerInv
<1>1. /\ UNCHANGED <<room, page, request>> /\ posts' = posts /\ keys' = keys
      /\ forgotten' = forgotten
      /\ typed < MaxTexts /\ typed' = typed + 1
      /\ compose' = [compose EXCEPT ![c].text = typed + 1, ![c].reply = reply]
  BY DEF Type
<1>2. /\ reply \in Nat /\ compose \in [Pages -> Field] /\ posts \subseteq Post
      /\ typed \in Nat /\ keys \in Nat /\ keys <= MaxKeys /\ compose[c] \in Field
      /\ forgotten \in [1 .. MaxTexts -> Nat]
  BY <1>t, Room DEF Types
<1> DEFINE f == TypedIn(compose[c], typed + 1, reply)
<1>3. compose' = [compose EXCEPT ![c] = f]
  BY <1>1, <1>2 DEF TypedIn, Field
<1>4. typed' \in Nat /\ typed + 1 \in Nat /\ typed' <= MaxTexts
  BY <1>1, <1>2, MessengerConstants
<1>5. /\ f \in Field /\ f.text = typed' /\ f.key = compose[c].key /\ f.last = compose[c].last
  <2> DEFINE g == compose[c]
             n == typed + 1
  <2>1. g \in Field /\ n \in Nat /\ reply \in Nat /\ typed' = n
    BY <1>1, <1>2, <1>4
  <2> HIDE DEF g, n
  <2>2. LET a == TypedIn(g, n, reply)
        IN  a \in Field /\ a.text = n /\ a.key = g.key /\ a.last = g.last
    BY <2>1 DEF Field, TypedIn
  <2> QED BY <2>1, <2>2 DEF g, n
<1> HIDE DEF f
<1>6. messages' = messages
  BY <1>1 DEF room
<1>7. /\ compose' \in [Pages -> Field] /\ compose'[c] = f
      /\ \A d \in Pages : d # c => compose'[d] = compose[d]
  BY <1>2, <1>3, <1>5
<1>8. StampsOf(messages', posts', compose') \in SUBSET StampsOf(messages, posts, compose)
  <2>1. posts' \in SUBSET posts
    BY <1>1
  <2>2. compose'[c].last = 0 \/ (compose'[c].last = compose[c].last /\ compose'[c].key = compose[c].key)
    BY <1>5, <1>7
  <2>3. \A d \in Pages : d # c => compose'[d] = compose[d]
    BY <1>7
  <2>4. StampsOf(messages, posts', compose') \in SUBSET StampsOf(messages, posts, compose)
    BY <2>1, <2>2, <2>3, StampsLess
  <2> QED BY <1>6, <2>4
<1>9. Edited(compose, compose', c, typed, typed', forgotten, forgotten')
  BY <1>1, <1>2, <1>5, <1>7 DEF Edited
<1>10. Keyed'
  BY <1>1, <1>2, <1>4, <1>7, <1>8, <1>9, OneField
<1>11. /\ posts' \subseteq Post /\ keys' \in Nat /\ keys' <= MaxKeys
       /\ forgotten' \in [1 .. MaxTexts -> Nat]
  BY <1>1, <1>2
<1> QED BY <1>1, <1>4, <1>7, <1>10, <1>11, SendingKeeps

LEMMA GiveUpStep ==
    ASSUME MessengerInv, NEW c \in Pages, GiveUp(c)
    PROVE  MessengerInv'
<1>t. Types
  BY DEF MessengerInv
<1>1. /\ UNCHANGED <<room, page, request>> /\ keys' = keys /\ typed' = typed
      /\ forgotten' = forgotten
      /\ compose' = [compose EXCEPT ![c].pending = FALSE]
      /\ posts' \in SUBSET posts
  BY DEF GiveUp
<1>2. /\ compose \in [Pages -> Field] /\ posts \subseteq Post
      /\ typed \in Nat /\ keys \in Nat /\ compose[c] \in Field /\ typed <= MaxTexts
      /\ keys <= MaxKeys /\ forgotten \in [1 .. MaxTexts -> Nat]
  BY <1>t DEF Types
<1> DEFINE f == Waits(compose[c])
<1>3. compose' = [compose EXCEPT ![c] = f]
  BY <1>1, <1>2 DEF Waits, Field
<1>4. /\ f \in Field /\ f.text = compose[c].text /\ f.key = compose[c].key /\ f.last = compose[c].last
  BY <1>2, FieldsMade
<1> HIDE DEF f
<1>5. messages' = messages
  BY <1>1 DEF room
<1>6. /\ typed' \in Nat /\ typed' <= MaxTexts /\ keys' \in Nat /\ keys' <= MaxKeys
      /\ forgotten' \in [1 .. MaxTexts -> Nat]
  BY <1>1, <1>2
<1>7. /\ compose' \in [Pages -> Field] /\ compose'[c] = f
      /\ \A d \in Pages : d # c => compose'[d] = compose[d]
  BY <1>2, <1>3, <1>4
<1>8. StampsOf(messages', posts', compose') \in SUBSET StampsOf(messages, posts, compose)
  <2>1. posts' \in SUBSET posts
    BY <1>1
  <2>2. compose'[c].last = 0 \/ (compose'[c].last = compose[c].last /\ compose'[c].key = compose[c].key)
    BY <1>4, <1>5, <1>7
  <2>3. \A d \in Pages : d # c => compose'[d] = compose[d]
    BY <1>7
  <2>4. StampsOf(messages, posts', compose') \in SUBSET StampsOf(messages, posts, compose)
    BY <2>1, <2>2, <2>3, StampsLess
  <2> QED BY <1>5, <2>4
<1>9. Edited(compose, compose', c, typed, typed', forgotten, forgotten')
  BY <1>1, <1>2, <1>4, <1>7 DEF Edited
<1>10. Keyed'
  BY <1>1, <1>6, <1>7, <1>8, <1>9, OneField
<1>11. posts' \subseteq Post
  BY <1>1, <1>2
<1> QED BY <1>1, <1>6, <1>7, <1>10, <1>11, SendingKeeps

LEMMA SubmitStep ==
    ASSUME MessengerInv, NEW c \in Pages, Submit(c)
    PROVE  MessengerInv'
<1>t. Types
  BY DEF MessengerInv
<1> DEFINE k == IF SameText(c) THEN compose[c].key ELSE keys + 1
           x == compose[c].text
           p == [page |-> c, key |-> k, text |-> x, reply |-> compose[c].reply]
           f == Submitted(compose[c], k)
           S == StampsOf(messages, posts, compose)
           new == <<UserOf[c], k, x>>
<1>1. /\ UNCHANGED <<room, page, request>> /\ typed' = typed /\ forgotten' = forgotten
      /\ x # 0 /\ (SameText(c) \/ keys < MaxKeys) /\ keys' = (IF SameText(c) THEN keys ELSE k)
      /\ compose' = [compose EXCEPT ![c].key = k, ![c].last = compose[c].text, ![c].pending = TRUE]
      /\ posts' = posts \cup {p}
  BY DEF Submit
<1>2. /\ compose \in [Pages -> Field] /\ posts \subseteq Post
      /\ typed \in Nat /\ keys \in Nat /\ compose[c] \in Field /\ typed <= MaxTexts
      /\ keys <= MaxKeys /\ forgotten \in [1 .. MaxTexts -> Nat]
  BY <1>t DEF Types
<1>3. compose[c].key \in Nat /\ x \in Nat /\ compose[c].last \in Nat /\ k \in Nat
      /\ compose[c].reply \in Nat
  BY <1>2, FieldFields
<1>4. compose' = [compose EXCEPT ![c] = f]
  BY <1>1, <1>2 DEF Submitted, Field
<1>5. p \in Post /\ p.page = c /\ p.key = k /\ p.text = x
  BY <1>3 DEF Post
<1>6. f \in Field /\ f.text = x /\ f.key = k /\ f.last = x
  <2> DEFINE g == compose[c]
  <2>1. g \in Field /\ k \in Nat
    BY <1>2, <1>3
  <2> HIDE DEF g, k
  <2>2. LET b == Submitted(g, k)
        IN  b \in Field /\ b.text = g.text /\ b.key = k /\ b.last = g.text
    BY <2>1 DEF Field, Submitted
  <2> QED BY <2>2 DEF g
<1>7. /\ Kept(S, compose, typed, forgotten)
      /\ \A a \in S : a[2] \in Nat /\ a[3] \in Nat
  BY <1>t, StampTypes DEF MessengerInv, Keyed
<1>8. compose'[c] = f /\ \A d \in Pages : d # c => compose'[d] = compose[d]
  BY <1>2, <1>4
<1> HIDE DEF p, f
<1>9. StampsOf(messages, posts', compose') \subseteq S \cup {new}
  <2> SUFFICES ASSUME NEW a \in StampsOf(messages, posts', compose') PROVE a \in S \cup {new}
    OBVIOUS
  <2>1. ASSUME NEW q \in posts', a = <<UserOf[q.page], q.key, q.text>>
        PROVE  a \in S \cup {new}
    <3>1. CASE q \in posts
      BY <2>1, <3>1, StampParts
    <3>2. CASE q = p
      BY <1>5, <2>1, <3>2
    <3> QED BY <1>1, <3>1, <3>2
  <2>2. ASSUME NEW d \in Pages, compose'[d].last # 0,
               a = <<UserOf[d], compose'[d].key, compose'[d].last>>
        PROVE  a \in S \cup {new}
    <3>1. CASE d = c
      BY <1>6, <1>8, <2>2, <3>1
    <3>2. CASE d # c
      BY <1>8, <2>2, <3>2, StampParts
    <3> QED BY <3>1, <3>2
  <2>3. ASSUME NEW i \in DOMAIN messages, messages[i].payload # 0,
               a = <<messages[i].sender, messages[i].key, messages[i].payload>>
        PROVE  a \in S
    BY <2>3, StampParts
  <2> QED BY <2>1, <2>2, <2>3, StampParts
<1> DEFINE T == StampsOf(messages, posts', compose')
<1>10. Kept(T, compose', typed, forgotten)
  <2>1. CASE SameText(c)
    <3>1. compose[c].last = x /\ k = compose[c].key
      BY <2>1 DEF SameText
    <3>2. new \in S
      BY <1>1, <3>1, StampParts
    <3>3. T \in SUBSET S
      BY <1>9, <3>2
    <3>4. f.text = compose[c].text /\ f.last = compose[c].last
      BY <1>6, <3>1
    <3>5. Edited(compose, compose', c, typed, typed, forgotten, forgotten)
      BY <1>2, <1>8, <3>4 DEF Edited
    <3>6. compose' \in [Pages -> Field]
      BY <1>2, <1>4, <1>6
    <3> HIDE DEF S, T
    <3> QED BY <1>2, <1>7, <3>3, <3>5, <3>6, FieldChanged
  <2>2. CASE ~SameText(c)
    <3>1. c \in Unsent(compose)
      BY <1>1, <2>2 DEF SameText, Unsent
    <3>2. Unsent(compose') = Unsent(compose) \ {c}
      BY <1>6, <1>8 DEF Unsent
    <3>3. \A d \in Pages : compose'[d].text = compose[d].text
      BY <1>6, <1>8
    <3>4. x \in 1 .. MaxTexts /\ x <= typed /\ 1 <= x
      BY <1>1, <1>2, <1>3, <1>7, MessengerConstants DEF Kept
    <3>5. new[3] = x
      OBVIOUS
    <3>6. \A d \in Unsent(compose) : d # c => compose[d].text # x
      <4>1. \A d \in Unsent(compose) : d \in Pages /\ compose[d].text # 0
        BY DEF Unsent
      <4>2. \A d, e \in Pages : compose[d].text = compose[e].text => d = e \/ compose[d].text = 0
        BY <1>7 DEF Kept
      <4> QED BY <4>1, <4>2
    <3>7. Few(Said(S, x), forgotten[x]) /\ forgotten[x] \in Nat
      BY <1>2, <1>7, <3>1, <3>4 DEF Kept
    <3>8. \A d \in Unsent(compose) : compose[d].text \in 1 .. MaxTexts
      BY <1>2, <1>7, UnsentText DEF Kept
    <3> HIDE DEF S, T, new, k, x
    <3>9. Few(Said(T, x), 1 + forgotten[x])
      <4> DEFINE A == Said(S, x)
                 B == Said(T, x)
      <4>1. IsFiniteSet(A) /\ Cardinality(A) <= forgotten[x]
        BY <3>7 DEF Few
      <4>2. B \in SUBSET (A \cup {new})
        BY <1>9, <3>5 DEF Said, T
      <4> HIDE DEF A, B
      <4>3. /\ IsFiniteSet(A \cup {new}) /\ Cardinality(A) \in Nat
            /\ Cardinality(A \cup {new}) \in {Cardinality(A), Cardinality(A) + 1}
        BY <4>1, FS_AddElement, FS_CardinalityType
      <4>4. IsFiniteSet(B) /\ Cardinality(B) <= Cardinality(A \cup {new}) /\ Cardinality(B) \in Nat
        BY <4>2, <4>3, FS_Subset, FS_CardinalityType
      <4>5. Cardinality(B) <= 1 + forgotten[x]
        BY <3>7, <4>1, <4>3, <4>4
      <4> QED BY <4>4, <4>5 DEF B, Few
    <3>10. \A y : y # x => Said(T, y) \in SUBSET Said(S, y)
      BY <1>9, <3>5 DEF Said, T
    <3>11. \A y, n : y # x /\ n \in Nat /\ Few(Said(S, y), n) => Few(Said(T, y), n)
      <4> SUFFICES ASSUME NEW y, NEW n, y # x, n \in Nat, Few(Said(S, y), n)
                   PROVE  Few(Said(T, y), n)
        OBVIOUS
      <4> DEFINE A == Said(S, y)
                 B == Said(T, y)
      <4>1. IsFiniteSet(A) /\ Cardinality(A) <= n /\ B \in SUBSET A
        BY <3>10 DEF Few
      <4> HIDE DEF A, B
      <4>2. /\ IsFiniteSet(B) /\ Cardinality(B) <= Cardinality(A)
            /\ Cardinality(B) \in Nat /\ Cardinality(A) \in Nat
        BY <4>1, FS_Subset, FS_CardinalityType
      <4>3. Cardinality(B) <= n
        BY <4>1, <4>2
      <4> QED BY <4>2, <4>3 DEF B, Few
    <3>12. \A y \in 1 .. MaxTexts : Few(Said(T, y), 1 + forgotten[y])
      <4> TAKE y \in 1 .. MaxTexts
      <4>1. Few(Said(S, y), 1 + forgotten[y]) /\ 1 + forgotten[y] \in Nat
        BY <1>2, <1>7 DEF Kept
      <4> QED BY <3>9, <3>11, <4>1
    <3>13. \A d \in Unsent(compose') : Few(Said(T, compose'[d].text), forgotten[compose'[d].text])
      <4> TAKE d \in Unsent(compose')
      <4>1. d \in Unsent(compose) /\ d # c /\ d \in Pages
        BY <3>2 DEF Unsent
      <4>2. compose'[d].text = compose[d].text /\ compose[d].text # x
        BY <3>3, <3>6, <4>1
      <4>3. Few(Said(S, compose[d].text), forgotten[compose[d].text])
        BY <1>7, <4>1 DEF Kept
      <4>4. forgotten[compose[d].text] \in Nat
        BY <1>2, <3>8, <4>1
      <4> QED BY <3>11, <4>2, <4>3, <4>4
    <3>14. \A a \in T : 1 <= a[3] /\ a[3] <= typed
      <4>1. \A a \in S : 1 <= a[3] /\ a[3] <= typed
        BY <1>7 DEF Kept
      <4> QED BY <1>9, <3>4, <3>5, <4>1 DEF T
    <3>15. /\ \A d \in Pages : compose'[d].text <= typed
           /\ \A d, e \in Pages : compose'[d].text = compose'[e].text => d = e \/ compose'[d].text = 0
      BY <1>7, <3>3 DEF Kept
    <3> QED BY <3>12, <3>13, <3>14, <3>15 DEF Kept
  <2> QED BY <2>1, <2>2
<1>11. Keyed'
  BY <1>1, <1>10 DEF Keyed, room
<1>12. compose' \in [Pages -> Field]
  BY <1>2, <1>4, <1>6
<1>13. posts' \subseteq Post
  BY <1>1, <1>2, <1>5
<1>14. typed' \in Nat /\ typed' <= MaxTexts /\ forgotten' \in [1 .. MaxTexts -> Nat]
  BY <1>1, <1>2
<1>15. keys' \in Nat /\ keys' <= MaxKeys
  BY <1>1, <1>2, <1>3, MessengerConstants
<1> QED BY <1>1, <1>11, <1>12, <1>13, <1>14, <1>15, SendingKeeps

-----------------------------------------------------------------------------
(* The answers to sends. *)

LEMMA AnsweredField ==
    ASSUME MessengerInv, NEW p \in posts, NEW sent \in BOOLEAN, Answered(p, sent)
    PROVE  LET c == p.page
           IN  /\ c \in Pages /\ compose' \in [Pages -> Field]
               /\ Edited(compose, compose', c, typed, typed, forgotten, forgotten)
               /\ \A d \in Pages : d # c => compose'[d] = compose[d]
               /\ \/ compose'[c].last = 0
                  \/ compose'[c].last = compose[c].last /\ compose'[c].key = compose[c].key
<1> DEFINE c == p.page
<1>1. /\ compose \in [Pages -> Field] /\ c \in Pages /\ compose[c] \in Field
      /\ \A x \in 1 .. MaxTexts : forgotten[x] <= forgotten[x]
  BY PostFields DEF MessengerInv, Types
<1>2. CASE compose' = compose
  BY <1>1, <1>2 DEF Edited
<1>3. CASE ~(compose' = compose)
  <2> DEFINE f == IF sent THEN Empty ELSE Waits(compose[c])
  <2>1. compose' = [compose EXCEPT ![c] = f]
    BY <1>3 DEF Answered, Waits
  <2>2. /\ Empty \in Field /\ Empty.text = 0 /\ Empty.last = 0
        /\ LET e == Waits(compose[c])
           IN  /\ e \in Field /\ e.text = compose[c].text
               /\ e.key = compose[c].key /\ e.last = compose[c].last
    BY <1>1, FieldsMade
  <2>3. /\ f \in Field
        /\ f.text = 0 \/ (f.text = compose[c].text /\ f.last = compose[c].last)
        /\ f.last = 0 \/ (f.last = compose[c].last /\ f.key = compose[c].key)
    BY <2>2
  <2> HIDE DEF f, c
  <2>4. /\ compose' \in [Pages -> Field] /\ compose'[c] = f
        /\ \A d \in Pages : d # c => compose'[d] = compose[d]
    BY <1>1, <2>1, <2>3
  <2>5. Edited(compose, compose', c, typed, typed, forgotten, forgotten)
    BY <1>1, <2>3, <2>4 DEF Edited
  <2> QED BY <1>1, <2>3, <2>4, <2>5 DEF c
<1> QED BY <1>2, <1>3

\* The message that is stored has the stamp of the send.
LEMMA StampsSent ==
    ASSUME NEW M, NEW N, NEW P, NEW Q \in SUBSET P, NEW C, NEW p \in P, NEW n,
           DOMAIN N = DOMAIN M \cup {n}, \A i \in DOMAIN M : N[i] = M[i],
           N[n].sender = UserOf[p.page], N[n].key = p.key, N[n].payload = p.text
    PROVE  StampsOf(N, Q, C) \in SUBSET StampsOf(M, P, C)
<1> SUFFICES ASSUME NEW a \in StampsOf(N, Q, C) PROVE a \in StampsOf(M, P, C)
  OBVIOUS
<1>1. ASSUME NEW i \in DOMAIN N, N[i].payload # 0, a = <<N[i].sender, N[i].key, N[i].payload>>
      PROVE  a \in StampsOf(M, P, C)
  <2>1. CASE i \in DOMAIN M
    <3>1. M[i].payload # 0 /\ a = <<M[i].sender, M[i].key, M[i].payload>>
      BY <1>1, <2>1
    <3> QED BY <2>1, <3>1, StampParts
  <2>2. CASE i = n
    <3>1. a = <<UserOf[p.page], p.key, p.text>>
      BY <1>1, <2>2
    <3> QED BY <3>1, StampParts
  <2> QED BY <2>1, <2>2
<1>2. ASSUME NEW q \in Q, a = <<UserOf[q.page], q.key, q.text>>
      PROVE  a \in StampsOf(M, P, C)
  <2>1. q \in P
    OBVIOUS
  <2> QED BY <1>2, <2>1, StampParts
<1>3. ASSUME NEW d \in Pages, C[d].last # 0, a = <<UserOf[d], C[d].key, C[d].last>>
      PROVE  a \in StampsOf(M, P, C)
  BY <1>3, StampParts
<1>4. \/ \E i \in DOMAIN N : N[i].payload # 0 /\ a = <<N[i].sender, N[i].key, N[i].payload>>
      \/ \E q \in Q : a = <<UserOf[q.page], q.key, q.text>>
      \/ \E d \in Pages : C[d].last # 0 /\ a = <<UserOf[d], C[d].key, C[d].last>>
  BY StampParts
<1> QED BY <1>1, <1>2, <1>3, <1>4

\* An answer without a message.
LEMMA TurnedDown ==
    ASSUME MessengerInv, NEW p \in posts, NEW sent \in BOOLEAN, Answered(p, sent),
           posts' = posts \ {p}, UNCHANGED <<room, page, request, typed, keys, forgotten>>
    PROVE  MessengerInv'
<1> DEFINE c == p.page
<1>1. /\ c \in Pages /\ compose' \in [Pages -> Field]
      /\ Edited(compose, compose', c, typed, typed, forgotten, forgotten)
      /\ \A d \in Pages : d # c => compose'[d] = compose[d]
      /\ \/ compose'[c].last = 0
         \/ compose'[c].last = compose[c].last /\ compose'[c].key = compose[c].key
  BY AnsweredField
<1> HIDE DEF c
<1>2. /\ messages' = messages /\ typed' = typed /\ keys' = keys /\ posts' \in SUBSET posts
      /\ typed \in Nat /\ typed <= MaxTexts /\ keys \in Nat /\ posts \subseteq Post
      /\ keys <= MaxKeys /\ forgotten \in [1 .. MaxTexts -> Nat] /\ forgotten' = forgotten
  BY DEF room, MessengerInv, Types
<1>3. StampsOf(messages, posts', compose') \in SUBSET StampsOf(messages, posts, compose)
  BY <1>1, <1>2, StampsLess
<1>4. StampsOf(messages', posts', compose') \in SUBSET StampsOf(messages, posts, compose)
  BY <1>2, <1>3
<1>5. Edited(compose, compose', c, typed, typed', forgotten, forgotten')
  BY <1>1, <1>2
<1>6. /\ typed' \in Nat /\ typed' <= MaxTexts /\ keys' \in Nat /\ keys' <= MaxKeys
      /\ forgotten' \in [1 .. MaxTexts -> Nat]
  BY <1>2
<1>7. Keyed'
  BY <1>1, <1>2, <1>4, <1>5, <1>6, OneField
<1>8. posts' \subseteq Post
  BY <1>2
<1> QED BY <1>1, <1>6, <1>7, <1>8, SendingKeeps

\* A message sent from a page is the first of its request, or its key would be
\* known.
LEMMA SentStep ==
    ASSUME MessengerInv, NEW p \in posts, Answered(p, TRUE), posts' = posts \ {p},
           SentAs(p) = {}, Replyable(p.reply), HasRoom,
           messages' = Appended(UserOf[p.page], p.key, p.text, p.reply), version' = version + 1,
           UNCHANGED <<members, owner, page, request, typed, keys, forgotten>>
    PROVE  MessengerInv'
<1> DEFINE c == p.page
           n == Len(messages) + 1
<1>t. Types /\ Numbered /\ PagesFollow /\ RequestsSane /\ Keyed /\ Once
  BY DEF MessengerInv
<1>1. /\ c \in Pages /\ compose' \in [Pages -> Field]
      /\ Edited(compose, compose', c, typed, typed, forgotten, forgotten)
      /\ \A d \in Pages : d # c => compose'[d] = compose[d]
      /\ \/ compose'[c].last = 0
         \/ compose'[c].last = compose[c].last /\ compose'[c].key = compose[c].key
  BY AnsweredField
<1>2. UserOf[c] \in Users /\ p.key \in Nat /\ p.text \in Nat
  BY <1>1, <1>t, PostFields, MessengerConstants DEF Types
<1>3. /\ messages' \in Seq(Message) /\ Len(messages') <= MaxMessages
      /\ version' \in Nat /\ version' <= MaxVersion
      /\ Moves(messages, messages', version, version') /\ Numbered'
      /\ DOMAIN messages' = Ids \cup {n} /\ n \notin Ids
      /\ \A i \in Ids : messages'[i] = messages[i]
      /\ messages'[n].sender = UserOf[c] /\ messages'[n].key = p.key /\ messages'[n].payload = p.text
  BY <1>2, <1>t, Appends
<1> HIDE DEF c, n
<1>4. PagesFollow' /\ RequestsSane'
  BY <1>3, <1>t, ReadersFollow
<1>5. /\ typed' = typed /\ keys' = keys /\ posts' \in SUBSET posts
      /\ typed \in Nat /\ typed <= MaxTexts /\ keys \in Nat /\ posts \subseteq Post
      /\ keys <= MaxKeys /\ forgotten \in [1 .. MaxTexts -> Nat] /\ forgotten' = forgotten
      /\ page \in [Pages -> PageRow] /\ request \in [Requests -> RequestRow \cup {None}]
      /\ members \subseteq Users /\ owner \in members
  BY <1>t DEF Types
<1>6. Types'
  BY <1>1, <1>3, <1>5 DEF Types
<1>7. DOMAIN messages = Ids
  BY DEF Ids
<1>8. StampsOf(messages', posts', compose') \in SUBSET StampsOf(messages, posts, compose)
  <2>1. StampsOf(messages', posts', compose') \in SUBSET StampsOf(messages', posts, compose)
    BY <1>1, <1>5, StampsLess
  <2>2. posts \in SUBSET posts
    OBVIOUS
  <2>3. /\ DOMAIN messages' = DOMAIN messages \cup {n}
        /\ \A i \in DOMAIN messages : messages'[i] = messages[i]
        /\ messages'[n].sender = UserOf[p.page]
    BY <1>3, <1>7 DEF c
  <2>4. StampsOf(messages', posts, compose) \in SUBSET StampsOf(messages, posts, compose)
    <3> DEFINE N == messages'
               P == posts
    <3>1. /\ P \in SUBSET P /\ p \in P /\ DOMAIN N = DOMAIN messages \cup {n}
          /\ \A i \in DOMAIN messages : N[i] = messages[i]
          /\ N[n].sender = UserOf[p.page] /\ N[n].key = p.key /\ N[n].payload = p.text
      BY <1>3, <2>2, <2>3
    <3> HIDE DEF N, P
    <3>2. StampsOf(N, P, compose) \in SUBSET StampsOf(messages, P, compose)
      BY <3>1, StampsSent
    <3> QED BY <3>2 DEF N, P
  <2> QED BY <2>1, <2>4
<1>9. Edited(compose, compose', c, typed, typed', forgotten, forgotten')
      /\ typed' \in Nat /\ typed' <= MaxTexts /\ forgotten' \in [1 .. MaxTexts -> Nat]
  BY <1>1, <1>5
<1>10. Keyed'
  BY <1>1, <1>5, <1>8, <1>9, OneField
<1>11. \A i \in Ids : ~(messages[i].sender = UserOf[c] /\ messages[i].key = p.key)
  BY DEF SentAs, c
<1>12. Once'
  <2> SUFFICES ASSUME NEW i \in DOMAIN messages', NEW j \in DOMAIN messages',
                      messages'[i].payload # 0, messages'[j].payload # 0,
                      messages'[i].sender = messages'[j].sender,
                      messages'[i].key = messages'[j].key
               PROVE  i = j
    BY DEF Once, Ids
  <2>1. CASE i \in Ids /\ j \in Ids
    BY <1>3, <1>t, <2>1 DEF Once
  <2>2. CASE i = n /\ j \in Ids
    BY <1>3, <1>11, <2>2
  <2>3. CASE i \in Ids /\ j = n
    BY <1>3, <1>11, <2>3
  <2>4. CASE i = n /\ j = n
    BY <2>4
  <2> QED BY <1>3, <2>1, <2>2, <2>3, <2>4
<1> QED BY <1>3, <1>4, <1>6, <1>10, <1>12 DEF MessengerInv

LEMMA HandlePostStep ==
    ASSUME MessengerInv, NEW p \in posts, HandlePost(p)
    PROVE  MessengerInv'
<1>1. posts' = posts \ {p} /\ UNCHANGED <<members, owner, page, request, typed, keys, forgotten>>
  BY DEF HandlePost
<1>2. CASE UNCHANGED <<version, messages>> /\ \E sent \in BOOLEAN : Answered(p, sent)
  BY <1>1, <1>2, TurnedDown DEF room
<1>3. CASE /\ SentAs(p) = {} /\ Replyable(p.reply) /\ HasRoom /\ Answered(p, TRUE)
           /\ messages' = Appended(UserOf[p.page], p.key, p.text, p.reply)
           /\ version' = version + 1
  BY <1>1, <1>3, SentStep
<1> QED
  <2> DEFINE sent == \A i \in SentAs(p) : messages[i].payload = p.text
  <2>1. sent \in BOOLEAN
    OBVIOUS
  <2>2. \/ Answered(p, FALSE) /\ UNCHANGED <<version, messages>>
        \/ Answered(p, sent) /\ UNCHANGED <<version, messages>>
        \/ /\ SentAs(p) = {} /\ Replyable(p.reply) /\ HasRoom /\ Answered(p, TRUE)
           /\ messages' = Appended(UserOf[p.page], p.key, p.text, p.reply)
           /\ version' = version + 1
    BY DEF HandlePost
  <2> HIDE DEF sent
  <2> QED BY <1>2, <1>3, <2>1, <2>2

-----------------------------------------------------------------------------
(* The history endpoint. *)

LEMMA Least ==
    ASSUME NEW S \in SUBSET Nat, S # {}
    PROVE  Min(S) \in S /\ \A x \in S : Min(S) <= x
<1>1. PICK n \in S : \A x \in S : ~(<<x, n>> \in OpToRel(<, Nat))
  BY NatLessThanWellFounded, WFMin
<1>2. \A x \in S : ~(x < n)
  BY <1>1 DEF OpToRel
<1>3. \A x \in S : n <= x
  BY <1>2
<1> QED BY <1>3 DEF Min

\* Steps that leave everything but the pages and the requests.
LEMMA ReadersKeep ==
    ASSUME MessengerInv, UNCHANGED <<room, sending>>,
           page' \in [Pages -> PageRow], request' \in [Requests -> RequestRow \cup {None}],
           \A c \in Pages : Follows(page'[c], messages, version),
           \A r \in Requests : request'[r] # None => Sane(request'[r], messages, version)
    PROVE  MessengerInv'
<1>1. /\ version' = version /\ messages' = messages /\ members' = members /\ owner' = owner
      /\ compose' = compose /\ posts' = posts /\ typed' = typed /\ keys' = keys
      /\ forgotten' = forgotten
  BY DEF room, sending
<1>2. Types'
  BY <1>1 DEF MessengerInv, Types
<1>3. Numbered' /\ Once'
  BY <1>1 DEF MessengerInv, Numbered, Once, Ids
<1>4. PagesFollow' /\ RequestsSane'
  BY <1>1 DEF PagesFollow, RequestsSane
<1>5. Keyed'
  BY <1>1 DEF MessengerInv, Keyed
<1> QED BY <1>2, <1>3, <1>4, <1>5 DEF MessengerInv

LEMMA OneRequest ==
    ASSUME MessengerInv, NEW r \in Requests, NEW q \in RequestRow \cup {None},
           request' = [request EXCEPT ![r] = q], q # None => Sane(q, messages, version)
    PROVE  /\ request' \in [Requests -> RequestRow \cup {None}]
           /\ \A s \in Requests : request'[s] # None => Sane(request'[s], messages, version)
<1>1. /\ request \in [Requests -> RequestRow \cup {None}]
      /\ \A s \in Requests : request[s] # None => Sane(request[s], messages, version)
  BY DEF MessengerInv, Types, RequestsSane
<1>2. request'[r] = q /\ \A s \in Requests : s # r => request'[s] = request[s]
  BY <1>1
<1>3. request' \in [Requests -> RequestRow \cup {None}]
  BY <1>1
<1> QED BY <1>1, <1>2, <1>3

LEMMA RequestStep ==
    ASSUME MessengerInv, UNCHANGED <<room, page, sending>>,
           NEW r \in Requests, NEW q \in RequestRow \cup {None},
           request' = [request EXCEPT ![r] = q], q # None => Sane(q, messages, version)
    PROVE  MessengerInv'
<1>1. /\ request' \in [Requests -> RequestRow \cup {None}]
      /\ \A s \in Requests : request'[s] # None => Sane(request'[s], messages, version)
  BY OneRequest
<1>2. page' = page /\ UNCHANGED <<room, sending>>
  OBVIOUS
<1>3. page' \in [Pages -> PageRow] /\ \A c \in Pages : Follows(page'[c], messages, version)
  BY <1>2 DEF MessengerInv, Types, PagesFollow
<1> QED BY <1>1, <1>2, <1>3, ReadersKeep

\* What is asked, and what the queries add to it.
Numbers(q, v, st) == [q EXCEPT !.version = v, !.stage = st]
Counted(q, k) == [q EXCEPT !.stage = "list", !.kind = k]
Listed(q, f, o) == [q EXCEPT !.stage = "answered", !.list = f, !.older = o]

LEMMA AskedRow ==
    ASSUME NEW c \in Pages, NEW k \in {"first", "since", "older"}, NEW n \in Nat
    PROVE  LET q == Asked(c, k, n)
           IN  /\ q \in RequestRow /\ q.page = c /\ q.kind = k /\ q.from = n
               /\ q.stage = "sent" /\ q.version = 0 /\ q.list = <<>>
BY EmptyList DEF Asked, RequestRow

LEMMA NumbersRow ==
    ASSUME NEW q \in RequestRow, NEW v \in Nat, NEW st \in {"count", "list"}
    PROVE  LET a == Numbers(q, v, st)
           IN  /\ a \in RequestRow /\ a.kind = q.kind /\ a.from = q.from /\ a.list = q.list
               /\ a.version = v /\ a.stage = st
BY DEF RequestRow, Numbers

LEMMA CountedRow ==
    ASSUME NEW q \in RequestRow, NEW k \in {"reset", "since"}
    PROVE  LET b == Counted(q, k)
           IN  /\ b \in RequestRow /\ b.kind = k /\ b.from = q.from /\ b.list = q.list
               /\ b.version = q.version /\ b.stage = "list"
BY DEF RequestRow, Counted

LEMMA ListedRow ==
    ASSUME NEW q \in RequestRow, NEW f \in Lists, NEW o \in BOOLEAN
    PROVE  LET d == Listed(q, f, o)
           IN  /\ d \in RequestRow /\ d.kind = q.kind /\ d.from = q.from /\ d.list = f
               /\ d.version = q.version /\ d.stage = "answered"
BY DEF RequestRow, Listed

\* A request as it leaves the page.
LEMMA AskedSane ==
    ASSUME Types, NEW c \in Pages, NEW k \in {"first", "since", "older"}, NEW n \in Nat,
           k = "older" => n \in Ids
    PROVE  LET q == Asked(c, k, n)
           IN  q \in RequestRow /\ Sane(q, messages, version)
<1> DEFINE q == Asked(c, k, n)
<1>1. /\ q \in RequestRow /\ q.kind = k /\ q.from = n
      /\ q.stage = "sent" /\ q.version = 0 /\ q.list = <<>>
  BY AskedRow
<1> HIDE DEF q
<1>2. q.version <= version /\ DOMAIN q.list \subseteq DOMAIN messages
  BY <1>1, EmptyList DEF Types
<1>3. q.kind # "reset" /\ (q.kind = "older" => q.from \in DOMAIN messages)
  BY <1>1 DEF Ids
<1>4. Sane(q, messages, version)
  BY <1>1, <1>2, <1>3 DEF Sane
<1> QED BY <1>1, <1>4 DEF q

LEMMA FailStep ==
    ASSUME MessengerInv, NEW r \in Requests, Fail(r)
    PROVE  MessengerInv'
<1>1. UNCHANGED <<room, page, sending>> /\ request' = [request EXCEPT ![r] = None]
  BY DEF Fail
<1>2. None \in RequestRow \cup {None}
  OBVIOUS
<1> QED BY <1>1, <1>2, RequestStep

LEMMA UnderWay ==
    ASSUME MessengerInv, NEW r \in Requests, request[r] # None
    PROVE  request[r] \in RequestRow /\ Sane(request[r], messages, version)
BY DEF MessengerInv, Types, RequestsSane

LEMMA ReadVersionStep ==
    ASSUME MessengerInv, NEW r \in Requests, ReadVersion(r)
    PROVE  MessengerInv'
<1> DEFINE q == request[r]
           st == IF q.kind = "since" THEN "count" ELSE "list"
           a == Numbers(q, version, st)
           b == IF UserOf[q.page] \notin members THEN None ELSE a
<1>1. /\ q # None /\ q.stage = "sent" /\ UNCHANGED <<room, page, sending>>
      /\ request \in [Requests -> RequestRow \cup {None}] /\ version \in Nat
  BY DEF ReadVersion, MessengerInv, Types
<1>2. request' = [request EXCEPT ![r] = b]
  BY DEF ReadVersion, Numbers
<1>3. q \in RequestRow /\ Sane(q, messages, version)
  BY <1>1, UnderWay
<1>4. st \in {"count", "list"}
  OBVIOUS
<1>5. /\ a \in RequestRow /\ a.kind = q.kind /\ a.from = q.from /\ a.list = q.list
      /\ a.version = version /\ a.stage = st
  <2> HIDE DEF q, st
  <2> QED BY <1>1, <1>3, <1>4, NumbersRow
<1> HIDE DEF a
<1>6. Sane(a, messages, version)
  <2>1. DOMAIN a.list \subseteq DOMAIN messages /\ (a.kind = "older" => a.from \in DOMAIN messages)
    BY <1>3, <1>5 DEF Sane
  <2>2. a.version <= version
    BY <1>1, <1>5
  <2> QED BY <1>5, <2>1, <2>2 DEF Sane
<1>7. b \in RequestRow \cup {None} /\ (b # None => Sane(b, messages, version))
  BY <1>5, <1>6
<1> HIDE DEF b
<1> QED BY <1>1, <1>2, <1>7, RequestStep

LEMMA CountChangesStep ==
    ASSUME MessengerInv, NEW r \in Requests, CountChanges(r)
    PROVE  MessengerInv'
<1> DEFINE q == request[r]
           n == Cardinality(ChangedSince(q.from))
           k == IF n > ChangeLimit THEN "reset" ELSE "since"
           b == Counted(q, k)
<1>1. /\ q # None /\ q.stage = "count" /\ UNCHANGED <<room, page, sending>>
      /\ request \in [Requests -> RequestRow \cup {None}] /\ version \in Nat
  BY DEF CountChanges, MessengerInv, Types
<1>2. request' = [request EXCEPT ![r] = b]
  BY <1>1 DEF CountChanges, Counted
<1>3. q \in RequestRow /\ Sane(q, messages, version)
  BY <1>1, UnderWay
<1>4. k \in {"reset", "since"}
  OBVIOUS
<1>5. /\ b \in RequestRow /\ b.kind = k /\ b.from = q.from /\ b.list = q.list
      /\ b.version = q.version /\ b.stage = "list"
  <2> HIDE DEF q, k
  <2> QED BY <1>3, <1>4, CountedRow
<1> HIDE DEF b
<1>6. Types /\ Numbered
  BY DEF MessengerInv
<1>7. ASSUME b.kind = "since"
      PROVE  IsFiniteSet(Late(b, messages)) /\ Cardinality(Late(b, messages)) <= ChangeLimit
  <2>1. q.from \in Nat /\ \A i \in Ids : messages[i].seq \in Nat
    BY <1>3, <1>6, RequestFields, Room, MessageFields
  <2>2. Late(b, messages) \in SUBSET ChangedSince(q.from)
    BY <1>5, <2>1 DEF Late, ChangedSince, Ids
  <2>3. ChangedSince(q.from) \in SUBSET Ids
    BY DEF ChangedSince
  <2>4. IsFiniteSet(ChangedSince(q.from)) /\ n \in Nat
    BY <1>6, <2>3, Room, FS_Subset, FS_CardinalityType
  <2>5. ~(n > ChangeLimit)
    BY <1>5, <1>7
  <2>6. IsFiniteSet(Late(b, messages)) /\ Cardinality(Late(b, messages)) <= n
        /\ Cardinality(Late(b, messages)) \in Nat
    BY <2>2, <2>4, FS_Subset, FS_CardinalityType
  <2> HIDE DEF n
  <2> QED BY <2>4, <2>5, <2>6, MessengerConstants
<1>8. Sane(b, messages, version)
  <2>1. DOMAIN b.list \subseteq DOMAIN messages /\ b.version <= version
    BY <1>3, <1>5 DEF Sane
  <2> QED BY <1>5, <1>7, <2>1 DEF Sane
<1> QED BY <1>1, <1>2, <1>5, <1>8, RequestStep

\* The list of an answer, as the room is when it is read.
LEMMA SelectedAnswers ==
    ASSUME Types, Numbered, NEW q \in RequestRow, Sane(q, messages, version), q.stage = "list",
           NEW a, a.kind = q.kind, a.from = q.from, a.version = q.version,
           a.list = [i \in Selected(q) |-> Packed(i)]
    PROVE  Selected(q) \in SUBSET Ids /\ Answers(a, messages)
<1> DEFINE S == Selected(q)
<1>1. /\ Ids = 1 .. Len(messages) /\ Len(messages) \in Nat /\ DOMAIN messages = Ids
      /\ \A i \in Ids : i \in Nat /\ messages[i].seq \in Nat
      /\ q.from \in Nat /\ q.version \in Nat /\ PageSize \in Nat /\ PageSize >= 1
      /\ ChangeLimit \in Nat
  BY Room, MessageFields, RequestFields, MessengerConstants
<1>2. \A i \in Ids : Packed(i) = View(messages, i)
  BY ViewType
<1>3. /\ q.kind = "since" => S = FirstChanged(ChangedSince(q.from))
      /\ q.kind = "older" => S = Newest(q.from)
      /\ q.kind \in {"first", "reset"} => S = Newest(Len(messages) + 1)
      /\ q.kind \in {"first", "since", "reset", "older"}
  <2>1. q.kind \in {"first", "since", "reset", "older"}
    BY RequestFields
  <2> QED BY <2>1 DEF Selected
<1> HIDE DEF S
<1>4. S \in SUBSET Ids
  <2>1. FirstChanged(ChangedSince(q.from)) \subseteq Ids
    BY DEF FirstChanged, ChangedSince
  <2>2. \A n \in Nat : Newest(n) \subseteq Ids
    BY DEF Newest
  <2> QED BY <1>1, <1>3, <2>1, <2>2
<1>5. DOMAIN a.list = S /\ \A i \in S : a.list[i] = View(messages, i)
  BY <1>2, <1>4 DEF S
<1>6. \A i \in Ids : i \in S => Right(a.list, a.version, messages, i)
  BY <1>5 DEF Right
<1>7. ASSUME q.kind \in {"first", "reset"}, NEW i \in Ids, S = {} \/ \E k \in S : k <= i
      PROVE  i \in S
  <2> DEFINE n == Len(messages) + 1
  <2>1. S = Newest(n)
    BY <1>3, <1>7
  <2>2. i \in Nat /\ 1 <= i /\ i < n /\ n \in Nat /\ 1 <= n
    BY <1>1
  <2>3. n - 1 \in Ids /\ n - 1 < n /\ n - PageSize <= n - 1
    BY <1>1, <2>2
  <2> HIDE DEF n
  <2>4. S = {j \in Ids : j < n /\ n - PageSize <= j}
    BY <2>1 DEF Newest
  <2>5. CASE S = {}
    BY <2>3, <2>4, <2>5
  <2>6. CASE \E k \in S : k <= i
    <3>1. PICK k \in S : k <= i
      BY <2>6
    <3>2. k \in Nat /\ n - PageSize <= k
      BY <1>1, <2>4
    <3>3. n - PageSize <= i
      BY <1>1, <2>2, <3>1, <3>2
    <3> QED BY <2>2, <2>4, <3>3
  <2> QED BY <1>7, <2>5, <2>6
<1>8. ASSUME q.kind = "older", NEW i \in Ids, i < q.from, NEW k \in S, k <= i
      PROVE  i \in S
  <2>1. S = {j \in Ids : j < q.from /\ q.from - PageSize <= j}
    BY <1>3, <1>8 DEF Newest
  <2>2. k \in Nat /\ q.from - PageSize <= k /\ i \in Nat
    BY <1>1, <2>1
  <2>3. q.from - PageSize <= i
    BY <1>1, <1>8, <2>2
  <2> QED BY <1>8, <2>1, <2>3
<1>9. ASSUME q.kind = "since", NEW i \in Late(q, messages)
      PROVE  i \in S
  <2> DEFINE L == Late(q, messages)
             C == ChangedSince(q.from)
             B == {j \in C : Before(j, i)}
  <2>1. IsFiniteSet(L) /\ Cardinality(L) <= ChangeLimit /\ i \in L /\ i \in Ids
    BY <1>1, <1>9 DEF Sane, Late
  <2>2. q.from < messages[i].seq /\ messages[i].seq <= q.version /\ i \in C
    BY <1>1, <2>1 DEF Late, ChangedSince
  <2>3. B \in SUBSET (L \ {i})
    <3> SUFFICES ASSUME NEW j \in C, Before(j, i) PROVE j \in L /\ j # i
      OBVIOUS
    <3>1. j \in Ids /\ messages[j].seq > q.from
      BY DEF ChangedSince
    <3>2. messages[j].seq <= messages[i].seq
      BY <1>1, <2>1, <3>1 DEF Before
    <3>3. j # i
      <4>1. ~(i < i) /\ ~(messages[i].seq < messages[i].seq)
        BY <1>1, <2>1
      <4> QED BY <4>1 DEF Before
    <3>4. q.from < messages[j].seq /\ messages[j].seq <= q.version
      BY <1>1, <2>1, <2>2, <3>1, <3>2
    <3> QED BY <1>1, <3>1, <3>3, <3>4 DEF Late
  <2> DEFINE m == Cardinality(L)
             n == Cardinality(L \ {i})
             b == Cardinality(B)
  <2>4. IsFiniteSet(L \ {i}) /\ n = m - 1 /\ m \in Nat
    <3> HIDE DEF L
    <3> QED BY <2>1, FS_RemoveElement, FS_CardinalityType
  <2>5. b <= n /\ b \in Nat /\ n \in Nat
    <3> HIDE DEF L, B
    <3> QED BY <2>3, <2>4, FS_Subset, FS_CardinalityType
  <2>6. m <= ChangeLimit
    BY <2>1
  <2>7. b < ChangeLimit
    <3> HIDE DEF m, n, b
    <3> QED BY <1>1, <2>4, <2>5, <2>6
  <2>8. i \in FirstChanged(C)
    BY <2>2, <2>7 DEF FirstChanged
  <2> QED BY <1>3, <1>9, <2>8
<1>10. Late(a, messages) = Late(q, messages)
  BY DEF Late
<1>11. q.kind \in {"first", "reset"} =>
          \A i \in DOMAIN messages : DOMAIN a.list = {} \/ Reaches(a.list, i)
                                        => Right(a.list, a.version, messages, i)
  BY <1>1, <1>5, <1>6, <1>7 DEF Reaches
<1>12. q.kind = "older" =>
          \A i \in DOMAIN messages : i < a.from /\ Reaches(a.list, i) => i \in DOMAIN a.list
  BY <1>1, <1>5, <1>8 DEF Reaches
<1>13. q.kind = "since" => Late(a, messages) \subseteq DOMAIN a.list
  BY <1>5, <1>9, <1>10
<1>14. \A i \in DOMAIN a.list : Right(a.list, a.version, messages, i)
  BY <1>4, <1>5, <1>6
<1> QED BY <1>4, <1>11, <1>12, <1>13, <1>14 DEF Answers, S

LEMMA ReadMessagesStep ==
    ASSUME MessengerInv, NEW r \in Requests, ReadMessages(r)
    PROVE  MessengerInv'
<1> DEFINE q == request[r]
           S == Selected(q)
           f == [i \in S |-> Packed(i)]
           o == S # {} /\ Min(S) > 1
           a == Listed(q, f, o)
<1>1. /\ q # None /\ q.stage = "list" /\ UNCHANGED <<room, page, sending>>
      /\ request \in [Requests -> RequestRow \cup {None}] /\ Types /\ Numbered
  BY DEF ReadMessages, MessengerInv, Types
<1>2. request' = [request EXCEPT ![r] = a]
  BY <1>1 DEF ReadMessages, Listed
<1>3. q \in RequestRow /\ Sane(q, messages, version)
  BY <1>1, UnderWay
<1>4. S \in SUBSET Ids
  <2>1. PICK x : x = [kind |-> q.kind, from |-> q.from, version |-> q.version,
                      list |-> [i \in Selected(q) |-> Packed(i)]]
    OBVIOUS
  <2>2. /\ x.kind = q.kind /\ x.from = q.from /\ x.version = q.version
        /\ x.list = [i \in Selected(q) |-> Packed(i)]
    BY <2>1
  <2> HIDE DEF q
  <2> QED BY <1>1, <1>3, <2>2, SelectedAnswers
<1>5. f \in Lists
  <2>1. S \in SUBSET (1 .. MaxMessages) /\ \A i \in S : Packed(i) \in Content
    BY <1>1, <1>4, Room, ViewType
  <2>2. f \in [S -> Content]
    BY <2>1
  <2> QED BY <2>1, <2>2, ListParts
<1>6. o \in BOOLEAN
  OBVIOUS
<1>7. /\ a \in RequestRow /\ a.kind = q.kind /\ a.from = q.from /\ a.list = f
      /\ a.version = q.version /\ a.stage = "answered"
  <2> HIDE DEF q, f, o
  <2> QED BY <1>3, <1>5, <1>6, ListedRow
<1> HIDE DEF a
<1>8. Answers(a, messages)
  <2> HIDE DEF q
  <2> QED BY <1>1, <1>3, <1>7, SelectedAnswers
<1>9. Sane(a, messages, version)
  <2>1. a.version <= version /\ (a.kind = "older" => a.from \in DOMAIN messages)
    BY <1>3, <1>7 DEF Sane
  <2>2. DOMAIN a.list \subseteq DOMAIN messages
    BY <1>4, <1>7 DEF Ids
  <2> QED BY <1>7, <1>8, <2>1, <2>2 DEF Sane
<1> QED BY <1>1, <1>2, <1>7, <1>9, RequestStep

-----------------------------------------------------------------------------
(* The page asks, and takes the answers. *)

LEMMA PollStep ==
    ASSUME MessengerInv, NEW c \in Pages, NEW r \in Requests, Poll(c, r)
    PROVE  MessengerInv'
<1> DEFINE k == IF page[c].version = 0 THEN "first" ELSE "since"
           n == IF page[c].version = 0 THEN 0 ELSE page[c].version
           q == Asked(c, k, n)
<1>1. Types /\ UNCHANGED <<room, page, sending>>
  BY DEF Poll, MessengerInv
<1>2. request' = [request EXCEPT ![r] = q]
  BY DEF Poll
<1>3. k \in {"first", "since", "older"} /\ k # "older" /\ n \in Nat
  BY <1>1, PageFields DEF Types
<1>4. q \in RequestRow /\ Sane(q, messages, version)
  <2> HIDE DEF k, n
  <2> QED BY <1>1, <1>3, AskedSane
<1> HIDE DEF q
<1> QED BY <1>1, <1>2, <1>4, RequestStep

LEMMA LoadOlderStep ==
    ASSUME MessengerInv, NEW c \in Pages, NEW r \in Requests, LoadOlder(c, r)
    PROVE  MessengerInv'
<1> DEFINE n == Min(DOMAIN page[c].shown)
           q == Asked(c, "older", n)
<1>1. Types /\ UNCHANGED <<room, page, sending>> /\ request' = [request EXCEPT ![r] = q]
      /\ DOMAIN page[c].shown # {}
  BY DEF LoadOlder, MessengerInv
<1>2. DOMAIN page[c].shown \subseteq Ids /\ Ids \subseteq Nat
  BY <1>1, Room DEF MessengerInv, PagesFollow, Follows
<1>3. n \in Ids /\ n \in Nat
  BY <1>1, <1>2, Least
<1> HIDE DEF n
<1>4. q \in RequestRow /\ Sane(q, messages, version)
  BY <1>1, <1>3, AskedSane
<1> HIDE DEF q
<1> QED BY <1>1, <1>4, RequestStep

\* A page row with the given parts.
Row(v, f, o, b, m) == [version |-> v, shown |-> f, older |-> o, base |-> b, mixed |-> m]

LEMMA RowParts ==
    ASSUME NEW v \in Nat, NEW f \in Lists, NEW o \in BOOLEAN, NEW b \in 1 .. NotLoaded,
           NEW m \in BOOLEAN
    PROVE  LET p == Row(v, f, o, b, m)
           IN  /\ p \in PageRow /\ p.version = v /\ p.shown = f /\ p.older = o
               /\ p.base = b /\ p.mixed = m
BY DEF Row, PageRow

LEMMA BlankFollows ==
    ASSUME Types
    PROVE  Blank \in PageRow /\ Follows(Blank, messages, version)
<1>1. NotLoaded \in 1 .. NotLoaded
  BY MessengerConstants DEF NotLoaded
<1>2. <<>> \in Lists
  BY EmptyList
<1>3. Blank \in PageRow /\ Blank.version = 0 /\ Blank.shown = <<>> /\ Blank.base = NotLoaded
  BY <1>1, <1>2 DEF Blank, PageRow
<1> HIDE DEF Blank
<1>4. \A i \in Ids : i \in Nat /\ ~(i >= NotLoaded)
  BY Room, MessengerConstants DEF NotLoaded
<1>5. 0 <= version
  BY DEF Types
<1> QED BY <1>3, <1>4, <1>5, EmptyList DEF Follows, Ids

LEMMA OpenStep ==
    ASSUME MessengerInv, NEW c \in Pages, NEW r \in Requests, Open(c, r)
    PROVE  MessengerInv'
<1> DEFINE q == Asked(c, "first", 0)
<1>t. Types
  BY DEF MessengerInv
<1>1. /\ page' = [page EXCEPT ![c] = Blank] /\ request' = [request EXCEPT ![r] = q]
      /\ version' = version /\ messages' = messages /\ members' = members /\ owner' = owner
      /\ posts' = posts /\ keys' = keys /\ typed' = typed
  BY DEF Open, room
<1>2. "first" \in {"first", "since", "older"} /\ "first" # "older" /\ 0 \in Nat
  OBVIOUS
<1>3. q \in RequestRow /\ Sane(q, messages, version)
  BY <1>2, <1>t, AskedSane
<1> HIDE DEF q
<1>4. /\ request' \in [Requests -> RequestRow \cup {None}]
      /\ \A s \in Requests : request'[s] # None => Sane(request'[s], messages, version)
  BY <1>1, <1>3, OneRequest
<1>5. /\ page' \in [Pages -> PageRow]
      /\ \A d \in Pages : Follows(page'[d], messages, version)
  <2>1. page \in [Pages -> PageRow] /\ \A d \in Pages : Follows(page[d], messages, version)
    BY DEF MessengerInv, Types, PagesFollow
  <2>2. Blank \in PageRow /\ Follows(Blank, messages, version)
    BY <1>t, BlankFollows
  <2> HIDE DEF Blank
  <2>3. page' \in [Pages -> PageRow]
    BY <1>1, <2>1, <2>2
  <2>4. page'[c] = Blank /\ \A d \in Pages : d # c => page'[d] = page[d]
    BY <1>1, <2>1
  <2> QED BY <2>1, <2>2, <2>3, <2>4
<1>6. /\ compose \in [Pages -> Field] /\ typed \in Nat /\ keys \in Nat /\ posts \subseteq Post
      /\ typed <= MaxTexts /\ keys <= MaxKeys /\ forgotten \in [1 .. MaxTexts -> Nat]
      /\ compose[c] \in Field
  BY <1>t DEF Types
<1> DEFINE x == compose[c].text
           f == OnlyText(x)
<1>7. /\ compose' \in [Pages -> Field] /\ typed' \in Nat /\ typed' <= MaxTexts
      /\ forgotten' \in [1 .. MaxTexts -> Nat]
      /\ Edited(compose, compose', c, typed, typed', forgotten, forgotten')
      /\ \A d \in Pages : d # c => compose'[d] = compose[d]
      /\ compose'[c].last = 0
  <2>1. x \in Nat /\ x <= typed
    BY <1>6, FieldFields DEF MessengerInv, Keyed, Kept
  <2>2. f \in Field /\ f.text = x /\ f.last = 0
    <3> HIDE DEF x
    <3> QED BY <1>6, <2>1, FieldsMade
  <2>3. compose' = [compose EXCEPT ![c] = f]
    BY DEF Open, OnlyText
  <2> HIDE DEF f
  <2>4. /\ compose' \in [Pages -> Field] /\ compose'[c] = f
        /\ \A d \in Pages : d # c => compose'[d] = compose[d]
    BY <1>6, <2>2, <2>3
  <2>5. forgotten' = [y \in 1 .. MaxTexts |->
                        IF y = x /\ y = compose[c].last THEN forgotten[y] + 1 ELSE forgotten[y]]
    BY <1>6 DEF Open
  <2>6. /\ forgotten' \in [1 .. MaxTexts -> Nat]
        /\ \A y \in 1 .. MaxTexts : forgotten[y] <= forgotten'[y]
    BY <1>6, <2>5
  <2>7. x = compose[c].last /\ x # 0 => forgotten'[x] = forgotten[x] + 1
    <3>1. x # 0 => x \in 1 .. MaxTexts
      BY <1>6, <2>1, MessengerConstants
    <3> QED BY <2>5, <3>1
  <2>8. Edited(compose, compose', c, typed, typed', forgotten, forgotten')
    BY <1>1, <2>2, <2>4, <2>6, <2>7 DEF Edited
  <2> QED BY <1>1, <1>6, <2>2, <2>4, <2>6, <2>8
<1>8. StampsOf(messages', posts', compose') \in SUBSET StampsOf(messages, posts, compose)
  <2>1. posts \in SUBSET posts
    OBVIOUS
  <2>2. StampsOf(messages, posts, compose') \in SUBSET StampsOf(messages, posts, compose)
    BY <1>7, <2>1, StampsLess
  <2> QED BY <1>1, <2>2
<1>9. Keyed'
  BY <1>1, <1>7, <1>8, OneField
<1>10. Types'
  BY <1>1, <1>4, <1>5, <1>6, <1>7, <1>t DEF Types
<1>11. Numbered' /\ Once'
  BY <1>1 DEF MessengerInv, Numbered, Once, Ids
<1>12. PagesFollow' /\ RequestsSane'
  BY <1>1, <1>4, <1>5 DEF PagesFollow, RequestsSane
<1> QED BY <1>9, <1>10, <1>11, <1>12 DEF MessengerInv

LEMMA OverlayType ==
    ASSUME NEW f \in Lists, NEW g \in Lists,
           DOMAIN f \subseteq 1 .. MaxMessages, DOMAIN g \subseteq 1 .. MaxMessages
    PROVE  Overlay(f, g) \in Lists
<1> DEFINE h == Overlay(f, g)
           S == DOMAIN f \cup DOMAIN g
<1>1. S \in SUBSET (1 .. MaxMessages)
  OBVIOUS
<1>2. /\ \A i \in DOMAIN f : f[i] \in Content
      /\ \A i \in DOMAIN g : g[i] \in Content
  BY ListParts
<1>3. h \in [S -> Content]
  BY <1>2 DEF Overlay
<1> QED BY <1>1, <1>3, ListParts

LEMMA BaseParts ==
    ASSUME NEW p \in PageRow, NEW q \in RequestRow, DOMAIN q.list \subseteq 1 .. MaxMessages
    PROVE  LET b == BaseAfter(p, q)
           IN  /\ b \in 1 .. NotLoaded
               /\ q.kind = "since" => b = p.base
               /\ q.kind \in {"first", "reset"} /\ DOMAIN q.list # {} => b \in DOMAIN q.list
               /\ q.kind = "older" => b = p.base \/ (b \in DOMAIN q.list /\ p.base <= q.from)
<1> DEFINE b == BaseAfter(p, q)
           L == DOMAIN q.list
<1>1. /\ p.base \in 1 .. NotLoaded /\ p.base \in Nat /\ q.from \in Nat
      /\ q.kind \in {"first", "since", "reset", "older"}
  BY PageFields, RequestFields
<1>2. MaxMessages \in Nat /\ L \subseteq Nat /\ 1 \in 1 .. NotLoaded /\ L \subseteq 1 .. NotLoaded
  BY MessengerConstants DEF NotLoaded
<1> HIDE DEF L
<1>3. CASE q.kind = "since"
  <2>1. b = p.base
    BY <1>3 DEF BaseAfter
  <2> QED BY <1>1, <1>3, <2>1
<1>4. CASE q.kind \in {"first", "reset"}
  <2>1. b = IF L = {} THEN 1 ELSE Min(L)
    BY <1>4 DEF BaseAfter, L
  <2>2. L # {} => Min(L) \in L
    BY <1>2, Least
  <2> QED BY <1>2, <1>4, <2>1, <2>2 DEF L
<1>5. CASE q.kind = "older"
  <2>1. b = IF q.from < p.base \/ L = {} THEN p.base ELSE Min(L \cup {p.base})
    BY <1>5 DEF BaseAfter, L
  <2>2. Min(L \cup {p.base}) \in L \cup {p.base}
    BY <1>1, <1>2, Least
  <2>3. b = p.base \/ (b \in L /\ ~(q.from < p.base))
    BY <2>1, <2>2
  <2>4. b = p.base \/ (b \in L /\ p.base <= q.from)
    BY <1>1, <2>3
  <2>5. b \in 1 .. NotLoaded
    BY <1>1, <1>2, <2>4
  <2> QED BY <1>5, <2>4, <2>5 DEF L
<1> QED BY <1>1, <1>3, <1>4, <1>5

\* What an answer in turn leaves on the page is what the room has.
LEMMA ShownRight ==
    ASSUME Types, NEW p \in PageRow, NEW q \in RequestRow,
           Follows(p, messages, version), Sane(q, messages, version), q.stage = "answered",
           ~p.mixed, ~OutOfTurn(p, q), NEW i \in Ids,
           NEW f, f = IF q.kind = "reset" THEN q.list ELSE Overlay(p.shown, q.list),
           i \in DOMAIN f \/ i >= BaseAfter(p, q)
    PROVE  Right(f, VersionAfter(p, q), messages, i)
<1> DEFINE b == BaseAfter(p, q)
           L == DOMAIN q.list
           v == VersionAfter(p, q)
<1>1. /\ i \in Nat /\ messages[i].seq \in Nat /\ L \subseteq Ids
      /\ Ids \subseteq Nat /\ Ids \subseteq 1 .. MaxMessages /\ DOMAIN messages = Ids
  BY Room, MessageFields DEF Sane, Ids
<1>2. /\ p.version \in Nat /\ p.base \in Nat /\ q.version \in Nat /\ q.from \in Nat
      /\ q.kind \in {"first", "since", "reset", "older"}
  BY PageFields, RequestFields
<1>3. /\ b \in Nat
      /\ q.kind = "since" => b = p.base
      /\ q.kind \in {"first", "reset"} /\ L # {} => b \in L
      /\ q.kind = "older" => b = p.base \/ (b \in L /\ p.base <= q.from)
  <2>1. DOMAIN q.list \subseteq 1 .. MaxMessages
    BY <1>1
  <2>2. /\ b \in 1 .. NotLoaded
        /\ q.kind = "since" => b = p.base
        /\ q.kind \in {"first", "reset"} /\ DOMAIN q.list # {} => b \in DOMAIN q.list
        /\ q.kind = "older" => b = p.base \/ (b \in DOMAIN q.list /\ p.base <= q.from)
    BY <2>1, BaseParts
  <2> HIDE DEF b
  <2>3. b \in Nat
    BY <2>2
  <2> QED BY <2>2, <2>3
<1>4. /\ p.version <= q.version
      /\ q.kind = "since" => q.from <= p.version
      /\ q.kind = "first" => DOMAIN p.shown = {}
  BY <1>2 DEF OutOfTurn
<1>5. /\ v \in Nat /\ v <= q.version
      /\ q.kind = "older" => v = p.version
  BY <1>2, <1>4 DEF VersionAfter
<1>6. \A j \in L : Right(q.list, q.version, messages, j)
  BY DEF Sane, Answers
<1>7. i \in DOMAIN p.shown \/ i >= p.base => Right(p.shown, p.version, messages, i)
  BY <1>1 DEF Follows
<1>8. /\ q.kind = "reset" => f = q.list
      /\ q.kind # "reset" => /\ DOMAIN f = DOMAIN p.shown \cup L
                             /\ \A j \in L : f[j] = q.list[j]
                             /\ \A j \in DOMAIN p.shown \ L : f[j] = p.shown[j]
  <2> DEFINE h == Overlay(p.shown, q.list)
  <2>1. /\ DOMAIN h = DOMAIN p.shown \cup DOMAIN q.list
        /\ \A j \in DOMAIN q.list : h[j] = q.list[j]
        /\ \A j \in DOMAIN p.shown \ DOMAIN q.list : h[j] = p.shown[j]
    BY DEF Overlay
  <2>2. f = IF q.kind = "reset" THEN q.list ELSE h
    OBVIOUS
  <2> HIDE DEF h
  <2> QED BY <2>1, <2>2
<1>9. L \subseteq DOMAIN f /\ \A j \in L : f[j] = q.list[j]
  BY <1>8
<1>a. i \in DOMAIN f \/ i >= b
  OBVIOUS
<1> SUFFICES ASSUME messages[i].seq <= v
             PROVE  i \in DOMAIN f /\ f[i] = View(messages, i)
  BY DEF Right
<1>10. messages[i].seq <= q.version
  BY <1>1, <1>2, <1>5
<1> HIDE DEF b, v
<1>11. CASE i \in L
  BY <1>6, <1>9, <1>10, <1>11 DEF Right
<1>12. CASE i \notin L /\ q.kind = "since"
  <2>1. ~(q.from < messages[i].seq)
    <3>1. Late(q, messages) \subseteq L
      BY <1>12 DEF Sane, Answers
    <3> QED BY <1>1, <1>10, <1>12, <3>1 DEF Late
  <2>2. messages[i].seq <= p.version
    BY <1>1, <1>2, <1>4, <1>12, <2>1
  <2>3. i \in DOMAIN p.shown \/ i >= p.base
    BY <1>3, <1>8, <1>12, <1>a
  <2> QED BY <1>7, <1>8, <1>12, <2>2, <2>3 DEF Right
<1>13. CASE i \notin L /\ q.kind \in {"first", "reset"}
  <2>1. i \notin DOMAIN f
    BY <1>4, <1>8, <1>13
  <2>2. L # {} => b \in L /\ b <= i
    BY <1>1, <1>3, <1>13, <1>a, <2>1
  <2>3. L = {} \/ Reaches(q.list, i)
    BY <2>2 DEF Reaches
  <2>4. Right(q.list, q.version, messages, i)
    BY <1>1, <1>13, <2>3 DEF Sane, Answers
  <2> QED BY <1>10, <1>13, <2>4 DEF Right
<1>14. CASE i \notin L /\ q.kind = "older"
  <2>1. messages[i].seq <= p.version
    BY <1>5, <1>14
  <2>2. CASE i \in DOMAIN p.shown \/ i >= p.base
    BY <1>7, <1>8, <1>14, <2>1, <2>2 DEF Right
  <2>3. CASE ~(i \in DOMAIN p.shown \/ i >= p.base)
    <3>1. i >= b /\ b # p.base
      BY <1>8, <1>14, <1>a, <2>3
    <3>2. b \in L /\ p.base <= q.from /\ b <= i
      BY <1>1, <1>3, <1>14, <3>1
    <3>3. i < q.from
      BY <1>1, <1>2, <2>3, <3>2
    <3>4. Reaches(q.list, i)
      BY <3>2 DEF Reaches
    <3>5. i \in L
      BY <1>1, <1>14, <3>3, <3>4 DEF Sane, Answers
    <3> QED BY <1>14, <3>5
  <2> QED BY <2>2, <2>3
<1> QED BY <1>2, <1>11, <1>12, <1>13, <1>14

LEMMA ApplyStep ==
    ASSUME MessengerInv, NEW r \in Requests, Apply(r)
    PROVE  MessengerInv'
<1> DEFINE q == request[r]
           c == q.page
           p == page[c]
           v == VersionAfter(p, q)
           f == IF q.kind = "reset" THEN q.list ELSE Overlay(p.shown, q.list)
           o == IF q.kind = "since" THEN p.older ELSE q.older
           b == BaseAfter(p, q)
           m == p.mixed \/ OutOfTurn(p, q)
           n == Row(v, f, o, b, m)
<1>t. Types
  BY DEF MessengerInv
<1>1. /\ q # None /\ q.stage = "answered" /\ UNCHANGED <<room, sending>>
      /\ request' = [request EXCEPT ![r] = None]
  BY DEF Apply
<1>2. page' = [page EXCEPT ![c] = n]
  BY DEF Apply, Row
<1>3. q \in RequestRow /\ Sane(q, messages, version)
  BY <1>1, UnderWay
<1>4. c \in Pages /\ q.version \in Nat /\ q.list \in Lists /\ q.older \in BOOLEAN
  BY <1>3, RequestFields
<1>5. p \in PageRow /\ Follows(p, messages, version)
  BY <1>4 DEF MessengerInv, Types, PagesFollow
<1>6. p.version \in Nat /\ p.shown \in Lists /\ p.older \in BOOLEAN /\ p.mixed \in BOOLEAN
  BY <1>5, PageFields
<1> HIDE DEF q, p
<1>7. /\ DOMAIN q.list \subseteq Ids /\ DOMAIN p.shown \subseteq Ids /\ Ids \subseteq 1 .. MaxMessages
      /\ DOMAIN messages = Ids
  BY <1>3, <1>5, <1>t, Room DEF Sane, Follows, Ids
<1>8. v \in Nat /\ v <= version
  <2>1. p.version <= version /\ q.version <= version
    BY <1>3, <1>5 DEF Follows, Sane
  <2> QED BY <1>4, <1>6, <2>1 DEF VersionAfter
<1>9. f \in Lists /\ DOMAIN f \subseteq Ids
  <2>1. Overlay(p.shown, q.list) \in Lists
    BY <1>4, <1>6, <1>7, OverlayType
  <2>2. DOMAIN Overlay(p.shown, q.list) \subseteq Ids
    BY <1>7 DEF Overlay
  <2> QED BY <1>4, <1>7, <2>1, <2>2
<1>10. o \in BOOLEAN /\ m \in BOOLEAN
  BY <1>4, <1>6 DEF OutOfTurn
<1>11. b \in 1 .. NotLoaded
  BY <1>3, <1>5, <1>7, BaseParts
<1>12. ASSUME ~m, NEW i \in Ids, i \in DOMAIN f \/ i >= b
       PROVE  Right(f, v, messages, i)
  BY <1>1, <1>3, <1>5, <1>12, <1>t, ShownRight
<1> HIDE DEF v, f, o, b, m
<1>13. /\ n \in PageRow /\ n.version = v /\ n.shown = f /\ n.base = b /\ n.mixed = m
  BY <1>8, <1>9, <1>10, <1>11, RowParts
<1> HIDE DEF n
<1>14. Follows(n, messages, version)
  BY <1>7, <1>8, <1>9, <1>12, <1>13 DEF Follows
<1>15. /\ page' \in [Pages -> PageRow]
       /\ \A d \in Pages : Follows(page'[d], messages, version)
  <2>1. page \in [Pages -> PageRow] /\ \A d \in Pages : Follows(page[d], messages, version)
    BY DEF MessengerInv, Types, PagesFollow
  <2> HIDE DEF c
  <2>2. page' \in [Pages -> PageRow]
    BY <1>2, <1>4, <1>13, <2>1
  <2>3. page'[c] = n /\ \A d \in Pages : d # c => page'[d] = page[d]
    BY <1>2, <1>4, <2>1
  <2> QED BY <1>14, <2>1, <2>2, <2>3
<1>16. /\ request' \in [Requests -> RequestRow \cup {None}]
       /\ \A s \in Requests : request'[s] # None => Sane(request'[s], messages, version)
  <2>1. None \in RequestRow \cup {None}
    OBVIOUS
  <2> QED BY <1>1, <2>1, OneRequest
<1> QED BY <1>1, <1>15, <1>16, ReadersKeep

-----------------------------------------------------------------------------
(* The theorems. *)

LEMMA RoomStepStep ==
    ASSUME MessengerInv, RoomStep
    PROVE  MessengerInv'
<1>1. CASE \E u \in Users, reply \in Ids \cup {0} : PostElsewhere(u, reply)
  BY <1>1, PostElsewhereStep
<1>2. CASE \E u \in Users, i \in Ids, del \in BOOLEAN : ChangeMessage(u, i, messages[i].rev, del)
  BY <1>2, ChangeMessageStep
<1>3. CASE \E u \in Users : \/ Leave(u) \/ Rename(u)
                            \/ \E t \in Users : AddMember(u, t) \/ RemoveMember(u, t) \/ Transfer(u, t)
  BY <1>3, MembersStep
<1> QED BY <1>1, <1>2, <1>3 DEF RoomStep

LEMMA PageStepStep ==
    ASSUME MessengerInv, NEW c \in Pages, PageStep(c)
    PROVE  MessengerInv'
<1>1. CASE \E reply \in Ids \cup {0} : Type(c, reply)
  BY <1>1, TypeStep
<1>2. CASE Submit(c) \/ GiveUp(c)
  BY <1>2, SubmitStep, GiveUpStep
<1>3. CASE \E r \in Requests : Open(c, r) \/ Poll(c, r) \/ LoadOlder(c, r)
  BY <1>3, OpenStep, PollStep, LoadOlderStep
<1> QED BY <1>1, <1>2, <1>3 DEF PageStep

LEMMA InitKeeps ==
    ASSUME Init
    PROVE  MessengerInv
<1>1. /\ version = 0 /\ messages = <<>> /\ owner = Creator /\ members = {Creator} \cup (Users \ {Creator})
      /\ page = [c \in Pages |-> Blank] /\ request = [r \in Requests |-> None]
      /\ compose = [c \in Pages |-> Empty] /\ posts = {} /\ typed = 0 /\ keys = 0
      /\ forgotten = [x \in 1 .. MaxTexts |-> 0]
  BY DEF Init, create_room
<1>2. messages \in Seq(Message) /\ Len(messages) = 0 /\ DOMAIN messages = {} /\ Ids = {}
  BY <1>1 DEF Ids
<1>3. Empty \in Field /\ Empty.text = 0 /\ Empty.last = 0
  BY DEF Empty, Field
<1>4. compose \in [Pages -> Field] /\ posts \subseteq Post
  BY <1>1, <1>3
<1>5. request \in [Requests -> RequestRow \cup {None}]
  BY <1>1
<1>6. members \subseteq Users /\ owner \in members
  BY <1>1, MessengerConstants
<1>7. Blank \in PageRow /\ \A v \in Nat : Follows(Blank, messages, v)
  <2>1. NotLoaded \in 1 .. NotLoaded
    BY MessengerConstants DEF NotLoaded
  <2>2. <<>> \in Lists
    BY EmptyList
  <2>3. Blank \in PageRow /\ Blank.version = 0 /\ Blank.shown = <<>>
    BY <2>1, <2>2 DEF Blank, PageRow
  <2> HIDE DEF Blank
  <2>4. \A v \in Nat : 0 <= v
    OBVIOUS
  <2> QED BY <1>2, <2>3, <2>4, EmptyList DEF Follows
<1>8. page \in [Pages -> PageRow] /\ PagesFollow
  <2> HIDE DEF Blank
  <2> QED BY <1>1, <1>7 DEF PagesFollow
<1>9. /\ version \in Nat /\ version <= MaxVersion /\ Len(messages) <= MaxMessages
      /\ typed \in Nat /\ typed <= MaxTexts /\ keys \in Nat /\ keys <= MaxKeys
      /\ forgotten \in [1 .. MaxTexts -> Nat]
  BY <1>1, <1>2, MessengerConstants
<1>10. Types
  BY <1>2, <1>4, <1>5, <1>6, <1>8, <1>9 DEF Types
<1>11. Numbered /\ Once
  BY <1>2 DEF Numbered, Once
<1>12. RequestsSane
  BY <1>1 DEF RequestsSane
<1>13. Keyed
  <2>1. \A c \in Pages : compose[c].text = 0 /\ compose[c].last = 0
    BY <1>1, <1>3
  <2>2. Unsent(compose) = {}
    BY <2>1 DEF Unsent
  <2>3. StampsOf(messages, posts, compose) = {}
    BY <1>1, <1>2, <2>1 DEF StampsOf
  <2>4. \A x \in 1 .. MaxTexts : Few(Said({}, x), 1 + forgotten[x])
    <3> TAKE x \in 1 .. MaxTexts
    <3>1. Said({}, x) = {} /\ IsFiniteSet({}) /\ Cardinality({}) = 0
      BY FS_EmptySet DEF Said
    <3>2. forgotten[x] = 0
      BY <1>1
    <3> QED BY <3>1, <3>2 DEF Few
  <2>5. \A c \in Pages : compose[c].text <= typed
    BY <1>1, <2>1
  <2>6. Kept({}, compose, typed, forgotten)
    BY <2>1, <2>2, <2>4, <2>5 DEF Kept
  <2> QED BY <2>3, <2>6 DEF Keyed
<1> QED BY <1>8, <1>10, <1>11, <1>12, <1>13 DEF MessengerInv

\* The invariant holds in every state.
THEOREM MessengerInvariant == Spec => []MessengerInv
<1>1. Init => MessengerInv
  BY InitKeeps
<1>2. MessengerInv /\ [Next]_vars => MessengerInv'
  <2> SUFFICES ASSUME MessengerInv, [Next]_vars PROVE MessengerInv'
    OBVIOUS
  <2>1. CASE RoomStep
    BY <2>1, RoomStepStep
  <2>2. CASE \E c \in Pages : PageStep(c)
    BY <2>2, PageStepStep
  <2>3. CASE \E p \in posts : HandlePost(p)
    BY <2>3, HandlePostStep
  <2>4. CASE \E r \in Requests : Serve(r) \/ Apply(r) \/ Fail(r)
    BY <2>4, ReadVersionStep, CountChangesStep, ReadMessagesStep, ApplyStep, FailStep DEF Serve
  <2>5. CASE UNCHANGED vars
    <3>1. /\ UNCHANGED <<room, sending>> /\ page' = page /\ request' = request
      BY <2>5 DEF vars
    <3>2. /\ page' \in [Pages -> PageRow] /\ request' \in [Requests -> RequestRow \cup {None}]
          /\ \A c \in Pages : Follows(page'[c], messages, version)
          /\ \A r \in Requests : request'[r] # None => Sane(request'[r], messages, version)
      BY <3>1 DEF MessengerInv, Types, PagesFollow, RequestsSane
    <3> QED BY <3>1, <3>2, ReadersKeep
  <2> QED BY <2>1, <2>2, <2>3, <2>4, <2>5 DEF Next
<1> QED BY <1>1, <1>2, PTL DEF Spec

\* Every variable holds values the schema and the page's script allow, and the
\* owner of a group is in it.
THEOREM Messenger_Types == Spec => []TypeOK
<1>1. MessengerInv => TypeOK
  <2> SUFFICES ASSUME MessengerInv PROVE TypeOK
    OBVIOUS
  <2>1. Types /\ Numbered /\ PagesFollow /\ RequestsSane /\ Keyed
    BY DEF MessengerInv
  <2>2. version \in 0 .. MaxVersion /\ members \subseteq Users /\ owner \in members
    BY <2>1, MessengerConstants DEF Types
  <2>3. messages \in Seq([sender : Users, key : Nat, payload : Nat, reply : Nat,
                          rev : Nat, deleted : BOOLEAN, seq : 1 .. version])
    <3> DEFINE M == [sender : Users, key : Nat, payload : Nat, reply : Nat,
                     rev : Nat, deleted : BOOLEAN, seq : 1 .. version]
    <3>1. version \in Nat /\ messages \in Seq(Message)
      BY <2>1 DEF Types
    <3>2. ASSUME NEW i \in 1 .. Len(messages) PROVE messages[i] \in M
      <4>1. i \in Ids /\ messages[i] \in Message
        BY <3>1, Room, <2>1
      <4>2. messages[i].seq \in Nat /\ messages[i].seq >= 1 /\ messages[i].seq <= version
        BY <2>1, <4>1, MessageFields DEF Numbered
      <4>3. messages[i].seq \in 1 .. version
        BY <3>1, <4>2
      <4> QED BY <4>1, <4>3 DEF Message
    <3> HIDE DEF M
    <3>3. messages \in Seq(M)
      <4>1. Len(messages) \in Nat /\ messages \in [1 .. Len(messages) -> M]
        BY <3>1, <3>2
      <4> QED BY <4>1, SeqDef
    <3> QED BY <3>3 DEF M
  <2>4. ASSUME NEW f \in Lists, DOMAIN f \subseteq DOMAIN messages PROVE Shown(f)
    BY <2>4, ListParts DEF Shown, Ids
  <2>5. ASSUME NEW c \in Pages
        PROVE  /\ page[c].version \in 0 .. version /\ Shown(page[c].shown)
               /\ page[c].older \in BOOLEAN /\ page[c].mixed \in BOOLEAN
               /\ page[c].base \in 1 .. NotLoaded
    <3>1. page[c] \in PageRow /\ Follows(page[c], messages, version) /\ version \in Nat
      BY <2>1 DEF Types, PagesFollow
    <3>2. /\ page[c].version \in Nat /\ page[c].shown \in Lists /\ page[c].older \in BOOLEAN
          /\ page[c].mixed \in BOOLEAN /\ page[c].base \in 1 .. NotLoaded
      BY <3>1, PageFields
    <3>3. page[c].version <= version /\ DOMAIN page[c].shown \subseteq DOMAIN messages
      BY <3>1 DEF Follows
    <3> QED BY <2>4, <3>1, <3>2, <3>3
  <2>6. ASSUME NEW r \in Requests, request[r] # None
        PROVE  /\ request[r].page \in Pages
               /\ request[r].kind \in {"first", "since", "reset", "older"}
               /\ request[r].stage \in {"sent", "count", "list", "answered"}
               /\ request[r].from \in Nat /\ request[r].version \in 0 .. version
               /\ Shown(request[r].list)
    <3>1. request[r] \in RequestRow /\ Sane(request[r], messages, version) /\ version \in Nat
      BY <2>1, <2>6 DEF Types, RequestsSane
    <3>2. /\ request[r].page \in Pages /\ request[r].kind \in {"first", "since", "reset", "older"}
          /\ request[r].stage \in {"sent", "count", "list", "answered"}
          /\ request[r].from \in Nat /\ request[r].version \in Nat /\ request[r].list \in Lists
      BY <3>1, RequestFields
    <3>3. request[r].version <= version /\ DOMAIN request[r].list \subseteq DOMAIN messages
      BY <3>1 DEF Sane
    <3> QED BY <2>4, <3>1, <3>2, <3>3
  <2>7. compose \in [Pages -> [text : Nat, reply : Nat, key : Nat, last : Nat, pending : BOOLEAN]]
    BY <2>1 DEF Types, Field
  <2>8. /\ typed \in 0 .. MaxTexts /\ keys \in 0 .. MaxKeys
        /\ forgotten \in [1 .. MaxTexts -> Nat]
    BY <2>1, MessengerConstants DEF Types
  <2> QED BY <2>2, <2>3, <2>5, <2>6, <2>7, <2>8 DEF TypeOK
<1> QED BY <1>1, MessengerInvariant, PTL

\* Whatever interleaves with the queries of the history endpoint, a page whose
\* answers are applied in turn misses no message and no change of its part of
\* the room.
THEOREM Messenger_FeedFollows == Spec => []FeedFollows
<1>1. MessengerInv => FeedFollows
  <2> SUFFICES ASSUME MessengerInv, NEW c \in Pages, ~page[c].mixed, NEW i \in Ids,
                      messages[i].seq <= page[c].version,
                      i \in DOMAIN page[c].shown \/ i >= page[c].base
               PROVE  i \in DOMAIN page[c].shown /\ page[c].shown[i] = Packed(i)
    BY DEF FeedFollows
  <2>1. Follows(page[c], messages, version) /\ Types /\ Numbered
    BY DEF MessengerInv, PagesFollow
  <2>2. Right(page[c].shown, page[c].version, messages, i)
    BY <2>1 DEF Follows, Ids
  <2>3. Packed(i) = View(messages, i)
    BY <2>1, ViewType
  <2> QED BY <2>2, <2>3 DEF Right
<1> QED BY <1>1, MessengerInvariant, PTL

\* However often a page sends a text again after a lost answer, the room gets
\* it once, and once more for each time the page dropped its key and kept it.
\* The messages of a text are as many as their requests, which the invariant
\* counts.
THEOREM Messenger_NoDuplicates == Spec => []NoDuplicates
<1>1. MessengerInv => NoDuplicates
  <2> SUFFICES ASSUME MessengerInv, NEW x \in 1 .. MaxTexts
               PROVE  Cardinality({i \in Ids : messages[i].payload = x}) <= 1 + forgotten[x]
    BY DEF NoDuplicates
  <2> DEFINE S == StampsOf(messages, posts, compose)
             A == {i \in Ids : messages[i].payload = x}
             B == Said(S, x)
             stamp == [i \in A |-> <<messages[i].sender, messages[i].key, messages[i].payload>>]
  <2>1. Types /\ Once /\ Kept(S, compose, typed, forgotten)
    BY DEF MessengerInv, Keyed
  <2>2. IsFiniteSet(B) /\ Cardinality(B) <= 1 + forgotten[x] /\ forgotten[x] \in Nat
    BY <2>1 DEF Kept, Few, Types
  <2>3. x # 0
    OBVIOUS
  <2>4. ASSUME NEW i \in A PROVE stamp[i] \in B
    <3> DEFINE a == <<messages[i].sender, messages[i].key, messages[i].payload>>
    <3>1. i \in DOMAIN messages /\ messages[i].payload # 0
      BY <2>3 DEF Ids
    <3>2. a \in S /\ a[3] = x
      BY <3>1, StampParts
    <3> QED BY <3>2 DEF Said
  <2>5. ASSUME NEW i \in A, NEW j \in A, stamp[i] = stamp[j] PROVE i = j
    <3>1. /\ messages[i].sender = messages[j].sender /\ messages[i].key = messages[j].key
          /\ messages[i].payload # 0 /\ messages[j].payload # 0
      BY <2>3, <2>5
    <3> QED BY <2>1, <3>1 DEF Once
  <2>6. stamp \in Injection(A, B)
    <3>1. stamp \in [A -> B]
      BY <2>4
    <3> HIDE DEF stamp, A, B
    <3> QED BY <2>5, <3>1, Fun_IsInj
  <2> HIDE DEF stamp, A, B, S
  <2>7. IsFiniteSet(A) /\ Cardinality(A) <= Cardinality(B)
    BY <2>2, <2>6, FS_Injection
  <2>8. Cardinality(A) \in Nat /\ Cardinality(B) \in Nat
    BY <2>2, <2>7, FS_CardinalityType
  <2>9. Cardinality(A) <= 1 + forgotten[x]
    BY <2>2, <2>7, <2>8
  <2> QED BY <2>9 DEF A
<1> QED BY <1>1, MessengerInvariant, PTL
=============================================================================
