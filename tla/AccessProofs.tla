---------------------------- MODULE AccessProofs ----------------------------
(* Theorems about Access, for any people, browsers, codes and clocks.        *)
EXTENDS Access, TLAPS

(***************************************************************************)
(* The inductive invariant.                                                *)
(***************************************************************************)
Otp == {"otp"} \X (Nat \ {0}) \X Int
Token == Otp \cup RecoveryCode
Items == ({"code"} \X Users \X Token) \cup ({"grant"} \X Grants) \cup ({"invitation"} \X Invites)

SessionRow == [kind : {"pending", "login"}, user : Users, hash : 1 .. MaxPasswords,
               version : Nat \ {0}, mfa : BOOLEAN]
Kinds == {"sign_in", "verify", "set_up", "enter", "confirm", "act", "password", "reset", "register"}
Request == [kind : Kinds, user : Users, seen : User \cup {None}, token : Token \cup {None},
            what : Grants \cup Invites \cup {None}, target : Users, version : Nat]

Rows ==
    /\ now \in 1 .. MaxTime
    /\ account \in [Users -> User \cup {None}] /\ security \in [Users -> AccountSecurity]
    /\ recovery \in [Users -> SUBSET RecoveryCode]
    /\ invitation \in [Invites -> Invitation] /\ grant \in [Grants -> ResetGrant \cup {None}]
    /\ session \in [Browsers -> SessionRow \cup {None}]
    /\ request \in [Browsers -> Request \cup {None}]
    /\ made \in [secrets : 0 .. MaxMade, passwords : 0 .. MaxPasswords, batches : 0 .. MaxMade]
    /\ accepted \in [ever : SUBSET Items, again : SUBSET Items]

\* What a request has checked and keeps for its later stages.
Checked(r) ==
    /\ r.kind = "register" => r.what \in Invites
    /\ r.kind # "register" => /\ r.seen \in User /\ Exists(r.user)
                              /\ r.seen.password <= account[r.user].password
    /\ r.kind \in {"confirm", "act"} => Exists(r.target)
    /\ r.kind = "reset" => r.what \in Grants /\ grant[r.what] # None
    /\ r.kind \in {"verify", "confirm"} => r.token \in Token
    /\ r.kind = "set_up" => r.token \in Otp /\ r.token[2] \in 1 .. made.secrets
Requests ==
    /\ \A b \in Browsers : request[b] # None => Checked(request[b])
    /\ \A g \in Grants : grant[g] # None => Exists(grant[g].user)

Factors ==
    \A u \in Users : /\ security[u].enabled <=> security[u].secret > 0
                     /\ security[u].last_counter >= 0 <=> security[u].enabled
                     /\ recovery[u] # {} => Exists(u)
                     /\ Exists(u) => account[u].password <= made.passwords

\* A session is of an account and was begun no later than now.
Sessions ==
    \A b \in Browsers : session[b] # None =>
        LET s == session[b] IN
        /\ Exists(s.user) /\ s.version <= security[s.user].version /\ s.hash <= account[s.user].password

\* A secret that an unfinished set-up has made is used nowhere else.
Unused(secret) ==
    /\ \A u \in Users : security[u].secret # secret
    /\ \A item \in accepted.ever : item[1] = "code" => item[3][2] # secret \/ item[3][1] # "otp"
SetUps ==
    \A b \in Browsers : request[b] # None /\ request[b].kind = "set_up" =>
        /\ Unused(request[b].token[2])
        /\ \A c \in Browsers : /\ c # b /\ request[c] # None /\ request[c].kind = "set_up"
                               => request[c].token[2] # request[b].token[2]

\* Whatever was accepted is used up: what is to come has a higher counter, is
\* another code of the list, another grant or another invitation.
Spent(item) ==
    /\ item[1] = "code" =>
          LET u == item[2]
              token == item[3]
          IN  /\ token[1] = "otp" => /\ token[2] <= made.secrets
                                     /\ token[2] = security[u].secret => token[3] <= security[u].last_counter
              /\ token[1] = "recovery" => token[2] <= made.batches /\ token \notin recovery[u]
    /\ item[1] = "grant" => grant[item[2]] # None /\ ~grant[item[2]].open
    /\ item[1] = "invitation" => invitation[item[2]] = "gone"
Codes ==
    /\ \A item \in accepted.ever : Spent(item)
    /\ \A u \in Users : /\ security[u].secret <= made.secrets
                        /\ \A token \in recovery[u] : token[2] <= made.batches
    /\ SetUps /\ OneTimeUse

AccessInv == Rows /\ Requests /\ Factors /\ Sessions /\ Codes

(***************************************************************************)
(* Rows and requests that the handlers make.                               *)
(***************************************************************************)
LEMMA SecurityRows ==
    ASSUME NEW sec \in AccountSecurity
    PROVE  /\ revoke_sessions(sec) \in AccountSecurity
           /\ revoke_sessions(sec).version = sec.version + 1
           /\ revoke_sessions(sec).secret = sec.secret
           /\ revoke_sessions(sec).last_counter = sec.last_counter
           /\ revoke_sessions(sec).enabled = sec.enabled
           /\ Cleared(sec) \in AccountSecurity
           /\ Cleared(sec).version = sec.version /\ Cleared(sec).secret = 0
           /\ Cleared(sec).last_counter = -1 /\ Cleared(sec).enabled = FALSE
<1>1. sec.version \in Nat \ {0}
  BY DEF AccountSecurity
<1>2. sec.version + 1 \in Nat \ {0}
  BY <1>1
<1> DEFINE n == sec.version + 1
           c == sec.version
<1>3. revoke_sessions(sec) = [sec EXCEPT !.version = n]
  BY DEF revoke_sessions
<1>4. Cleared(sec) = [NoSecurity EXCEPT !.version = c]
  BY DEF Cleared
<1>5. n \in Nat \ {0} /\ c \in Nat \ {0}
  BY <1>1, <1>2
<1> HIDE DEF n, c
<1>6. /\ [sec EXCEPT !.version = n] \in AccountSecurity
      /\ [sec EXCEPT !.version = n].version = n /\ [sec EXCEPT !.version = n].secret = sec.secret
      /\ [sec EXCEPT !.version = n].last_counter = sec.last_counter
      /\ [sec EXCEPT !.version = n].enabled = sec.enabled
  BY <1>5 DEF AccountSecurity
<1>7. /\ [NoSecurity EXCEPT !.version = c] \in AccountSecurity
      /\ [NoSecurity EXCEPT !.version = c].version = c /\ [NoSecurity EXCEPT !.version = c].secret = 0
      /\ [NoSecurity EXCEPT !.version = c].last_counter = -1 /\ [NoSecurity EXCEPT !.version = c].enabled = FALSE
  <2>1. NoSecurity \in AccountSecurity
    BY AccessConstants DEF NoSecurity, AccountSecurity
  <2>2. NoSecurity.secret = 0 /\ NoSecurity.last_counter = -1 /\ NoSecurity.enabled = FALSE
    BY DEF NoSecurity
  <2> QED BY <1>5, <2>1, <2>2 DEF AccountSecurity
<1> QED BY <1>3, <1>4, <1>6, <1>7 DEF n, c

LEMMA BlankFields ==
    ASSUME Rows, NEW kind \in Kinds, NEW u \in Users
    PROVE  /\ Blank(kind, u) \in Request
           /\ Blank(kind, u).kind = kind /\ Blank(kind, u).user = u /\ Blank(kind, u).target = u
           /\ Blank(kind, u).seen = account[u]
BY DEF Rows, Blank, Request

LEMMA RequestFields ==
    ASSUME NEW r \in Request
    PROVE  /\ \A token \in Token : /\ [r EXCEPT !.token = token] \in Request
                                   /\ [r EXCEPT !.token = token].token = token
                                   /\ [r EXCEPT !.token = token].kind = r.kind
                                   /\ [r EXCEPT !.token = token].user = r.user
                                   /\ [r EXCEPT !.token = token].target = r.target
                                   /\ [r EXCEPT !.token = token].seen = r.seen
           /\ \A kind \in Kinds : /\ [r EXCEPT !.kind = kind] \in Request
                                  /\ [r EXCEPT !.kind = kind].kind = kind
                                  /\ [r EXCEPT !.kind = kind].user = r.user
                                  /\ [r EXCEPT !.kind = kind].target = r.target
                                  /\ [r EXCEPT !.kind = kind].seen = r.seen
                                  /\ [r EXCEPT !.kind = kind].token = r.token
           /\ \A what \in Grants \cup Invites : /\ [r EXCEPT !.what = what] \in Request
                                                /\ [r EXCEPT !.what = what].what = what
                                                /\ [r EXCEPT !.what = what].kind = r.kind
                                                /\ [r EXCEPT !.what = what].user = r.user
                                                /\ [r EXCEPT !.what = what].seen = r.seen
           /\ \A t \in Users : /\ [r EXCEPT !.target = t] \in Request
                               /\ [r EXCEPT !.target = t].target = t
                               /\ [r EXCEPT !.target = t].kind = r.kind
                               /\ [r EXCEPT !.target = t].user = r.user
                               /\ [r EXCEPT !.target = t].seen = r.seen
           /\ \A v \in Nat : /\ [r EXCEPT !.version = v] \in Request
                             /\ [r EXCEPT !.version = v].token = r.token
                             /\ [r EXCEPT !.version = v].kind = r.kind
                             /\ [r EXCEPT !.version = v].user = r.user
                             /\ [r EXCEPT !.version = v].target = r.target
                             /\ [r EXCEPT !.version = v].seen = r.seen
BY DEF Request

LEMMA SessionFields ==
    ASSUME Rows, NEW kind \in {"pending", "login"}, NEW u \in Users, NEW hash \in 1 .. MaxPasswords, NEW mfa \in BOOLEAN
    PROVE  /\ Session(kind, u, hash, mfa) \in SessionRow
           /\ Session(kind, u, hash, mfa).user = u /\ Session(kind, u, hash, mfa).hash = hash
           /\ Session(kind, u, hash, mfa).version = security[u].version
BY DEF Rows, Session, SessionRow, AccountSecurity

\* The code a user brings is a code.
LEMMA CodesAtHand ==
    ASSUME Rows, Factors, NEW u \in Users, security[u].enabled
    PROVE  AtHand(u) \subseteq Token
<1> SUFFICES ASSUME NEW token \in AtHand(u) PROVE token \in Token
  OBVIOUS
<1>1. CASE token \in recovery[u]
  BY <1>1 DEF Rows, Token
<1>2. ASSUME NEW item \in accepted.ever, item[1] = "code", item[2] = u, token = item[3] PROVE token \in Token
  BY <1>2 DEF Rows, Items
<1>3. ASSUME NEW d \in Offsets, token = <<"otp", security[u].secret, now + d>> PROVE token \in Token
  <2>1. now + d \in Int
    BY AccessConstants DEF Rows
  <2>2. security[u].secret \in Nat \ {0}
    BY DEF Rows, AccountSecurity, Factors
  <2> QED BY <1>3, <2>1, <2>2 DEF Token, Otp
<1> QED BY <1>1, <1>2, <1>3 DEF AtHand

LEMMA AcceptTyped ==
    ASSUME Rows, NEW item \in Items, Accept(item)
    PROVE  accepted' \in [ever : SUBSET Items, again : SUBSET Items]
BY DEF Rows, Accept

LEMMA ListTyped ==
    ASSUME NEW batch \in 1 .. MaxMade
    PROVE  List(batch) \subseteq RecoveryCode /\ \A token \in List(batch) : token[1] = "recovery" /\ token[2] = batch
BY DEF List, RecoveryCode

\* What is known of the request that is served.
LEMMA Asking ==
    ASSUME Rows, Requests, NEW b \in Browsers, request[b] # None
    PROVE  /\ request[b] \in Request /\ Checked(request[b])
           /\ request[b].user \in Users /\ request[b].target \in Users /\ request[b].kind \in Kinds
BY DEF Rows, Requests, Request

LEMMA HasSession ==
    ASSUME Rows, NEW b \in Browsers, session[b] # None
    PROVE  /\ session[b] \in SessionRow /\ session[b].user \in Users
           /\ session[b].version \in Nat \ {0} /\ session[b].hash \in 1 .. MaxPasswords
BY DEF Rows, SessionRow

\* A one-time code is accepted: of the app with a higher counter, or of the
\* list, which loses it.
LEMMA Consumed ==
    ASSUME Rows, Factors, NEW u \in Users, NEW token \in Token, consume_otp(u, token)
    PROVE  /\ security' \in [Users -> AccountSecurity] /\ recovery' \in [Users -> SUBSET RecoveryCode]
           /\ Accept(<<"code", u, token>>) /\ security[u].enabled
           /\ \A v \in Users : /\ security'[v].version = security[v].version
                               /\ security'[v].secret = security[v].secret
                               /\ security'[v].enabled = security[v].enabled
                               /\ security'[v].last_counter >= security[v].last_counter
                               /\ recovery'[v] \subseteq recovery[v]
           /\ \/ /\ token \in Otp /\ token[2] = security[u].secret
                 /\ token[3] > security[u].last_counter /\ security'[u].last_counter = token[3]
              \/ token \in recovery[u] /\ token \notin recovery'[u] /\ token \in RecoveryCode
<1> DEFINE sec == security[u]
           c == token[3]
           new == [sec EXCEPT !.last_counter = c]
<1>1. sec \in AccountSecurity /\ security \in [Users -> AccountSecurity] /\ recovery \in [Users -> SUBSET RecoveryCode]
  BY DEF Rows
<1>2. CASE counter_for(sec.secret, token) /\ Newer(u, c) /\ security' = [security EXCEPT ![u].last_counter = c] /\ UNCHANGED recovery
  <2>1. token[1] = "otp" /\ token \in Otp
    BY <1>2 DEF counter_for, Token, RecoveryCode
  <2>2. c \in 0 .. MaxTime + 1
    BY <1>2, <2>1, AccessConstants DEF counter_for, Rows, Otp
  <2>3. c > sec.last_counter /\ token[2] = sec.secret /\ sec.last_counter \in Int
    BY <1>1, <1>2, <2>2 DEF Newer, counter_for, AccountSecurity
  <2>4. security' = [security EXCEPT ![u] = new]
    BY <1>2
  <2> HIDE DEF c
  <2>5. /\ new \in AccountSecurity /\ new.version = sec.version /\ new.secret = sec.secret
        /\ new.enabled = sec.enabled /\ new.last_counter = c
    BY <1>1, <2>2 DEF AccountSecurity
  <2> HIDE DEF new
  <2>6. security'[u] = new /\ \A v \in Users : v # u => security'[v] = security[v]
    BY <1>1, <2>4
  <2>7. security' \in [Users -> AccountSecurity]
    BY <1>1, <2>4, <2>5
  <2>8. \A v \in Users : security[v].last_counter \in Int
    BY <1>1, AccessConstants DEF AccountSecurity
  <2>9. \A v \in Users : /\ security'[v].version = security[v].version
                         /\ security'[v].secret = security[v].secret
                         /\ security'[v].enabled = security[v].enabled
                         /\ security'[v].last_counter >= security[v].last_counter
    <3> SUFFICES ASSUME NEW v \in Users PROVE /\ security'[v].version = security[v].version
                         /\ security'[v].secret = security[v].secret
                         /\ security'[v].enabled = security[v].enabled
                         /\ security'[v].last_counter >= security[v].last_counter
      OBVIOUS
    <3>1. CASE v = u
      <4>1. c \in Int
        BY <2>2
      <4> QED BY <3>1, <2>3, <2>5, <2>6, <4>1
    <3>2. CASE v # u
      BY <3>2, <2>6, <2>8
    <3> QED BY <3>1, <3>2
  <2>10. recovery' \in [Users -> SUBSET RecoveryCode] /\ \A v \in Users : recovery'[v] \subseteq recovery[v]
    BY <1>1, <1>2
  <2>11. security'[u].last_counter = c
    BY <2>5, <2>6
  <2>12. Accept(<<"code", u, token>>) /\ security[u].enabled
    BY DEF consume_otp
  <2> QED BY <2>1, <2>3, <2>7, <2>9, <2>10, <2>11, <2>12 DEF c
<1>3. CASE token \in recovery[u] /\ recovery' = [recovery EXCEPT ![u] = @ \ {token}] /\ UNCHANGED security
  <2>1. \A v \in Users : security[v].last_counter \in Int
    BY <1>1, AccessConstants DEF AccountSecurity
  <2> QED BY <1>1, <1>3, <2>1 DEF consume_otp
<1> QED BY <1>2, <1>3 DEF consume_otp

LEMMA NewList ==
    ASSUME Rows, NEW u \in Users, new_recovery_codes(u)
    PROVE  /\ recovery' \in [Users -> SUBSET RecoveryCode] /\ made'.batches \in 1 .. MaxMade
           /\ made' = [made EXCEPT !.batches = made'.batches] /\ made'.batches = made.batches + 1
           /\ made'.passwords = made.passwords
           /\ \A v \in Users : v # u => recovery'[v] = recovery[v]
           /\ \A token \in recovery'[u] : token[1] = "recovery" /\ token[2] = made.batches + 1
<1> DEFINE n == made.batches + 1
<1>1. n \in 1 .. MaxMade /\ made' = [made EXCEPT !.batches = n] /\ recovery' = [recovery EXCEPT ![u] = List(n)]
  BY AccessConstants DEF Rows, new_recovery_codes
<1> HIDE DEF n
<1>2. made'.batches = n /\ made'.passwords = made.passwords
  BY <1>1 DEF Rows
<1> QED BY <1>1, <1>2, ListTyped DEF n, Rows

LEMMA RowsInit == Init => Rows
<1> SUFFICES ASSUME Init PROVE Rows
  OBVIOUS
<1>1. NoSecurity \in AccountSecurity
  BY AccessConstants DEF NoSecurity, AccountSecurity
<1>2. 1 \in 1 .. MaxMade /\ 1 \in 1 .. MaxPasswords /\ 1 \in 1 .. MaxTime /\ 0 \in 0 .. MaxMade /\ 0 \in 0 .. MaxPasswords
  BY AccessConstants
<1>3. [active |-> TRUE, role |-> "admin", password |-> 1, mustChange |-> FALSE] \in User
  BY <1>2 DEF User
<1>4. [version |-> 1, enabled |-> TRUE, secret |-> 1, last_counter |-> 1] \in AccountSecurity
  BY AccessConstants DEF AccountSecurity
<1>5. List(1) \subseteq RecoveryCode
  BY <1>2, ListTyped
<1>6. /\ account \in [Users -> User \cup {None}] /\ security \in [Users -> AccountSecurity]
      /\ recovery \in [Users -> SUBSET RecoveryCode]
  <2>1. account \in [Users -> User \cup {None}]
    BY <1>3 DEF Init
  <2>2. security \in [Users -> AccountSecurity]
    BY <1>1, <1>4 DEF Init
  <2>3. recovery \in [Users -> SUBSET RecoveryCode]
    BY <1>5 DEF Init
  <2> QED BY <2>1, <2>2, <2>3
<1>7. made \in [secrets : 0 .. MaxMade, passwords : 0 .. MaxPasswords, batches : 0 .. MaxMade]
  BY <1>2, AccessConstants DEF Init
<1> QED BY <1>2, <1>6, <1>7 DEF Init, Rows, Invitation

(***************************************************************************)
(* The steps in which a browser asks for something.                        *)
(***************************************************************************)
Quiet == UNCHANGED <<now, rows, session, made, accepted>>

\* An account that a session is of exists.
LEMMA SessionExists ==
    ASSUME Rows, Sessions, NEW b \in Browsers, session[b] # None
    PROVE  /\ Exists(session[b].user) /\ account[session[b].user] \in User
           /\ session[b].user \in Users
BY HasSession DEF Sessions, Exists, Rows

LEMMA UserPassword ==
    ASSUME Rows, NEW u \in Users, Exists(u)
    PROVE  account[u] \in User /\ account[u].password \in 1 .. MaxPasswords
BY DEF Rows, Exists, User

LEMMA UserPasswordNext ==
    ASSUME Rows', NEW u \in Users, Exists(u)'
    PROVE  account'[u] \in User /\ account'[u].password \in 1 .. MaxPasswords
BY DEF Rows, Exists, User

LEMMA AskVerify ==
    ASSUME Rows, Requests, Factors, Sessions, NEW b \in Browsers, Verify(b)
    PROVE  Quiet /\ \E q \in Request : /\ q.kind = "verify" /\ Checked(q)
                                       /\ request' = [request EXCEPT ![b] = q]
<1> DEFINE u == session[b].user
<1>1. session[b] # None /\ security[u].enabled /\ Quiet
  BY DEF Verify, Pending, Quiet
<1>2. PICK token \in AtHand(u) : request' = [request EXCEPT ![b] = [Blank("verify", u) EXCEPT !.token = token]]
  BY DEF Verify, Asks
<1>3. u \in Users /\ Exists(u) /\ token \in Token
  BY <1>1, <1>2, SessionExists, CodesAtHand
<1> DEFINE q == [Blank("verify", u) EXCEPT !.token = token]
<1>4. "verify" \in Kinds
  BY DEF Kinds
<1> HIDE DEF u
<1>5. Blank("verify", u) \in Request /\ Blank("verify", u).kind = "verify" /\ Blank("verify", u).user = u /\ Blank("verify", u).seen = account[u]
  BY <1>3, <1>4, BlankFields
<1>6. q \in Request /\ q.kind = "verify" /\ q.user = u /\ q.seen = account[u] /\ q.token = token
  BY <1>3, <1>5, RequestFields
<1> HIDE DEF q
<1>7. Checked(q)
  BY <1>3, <1>6, UserPassword DEF Checked
<1> QED BY <1>1, <1>2, <1>6, <1>7 DEF q

LEMMA AskConfirm ==
    ASSUME Rows, Requests, Factors, Sessions, NEW b \in Browsers, NEW target \in Users, Confirm(b, target)
    PROVE  Quiet /\ \E q \in Request : /\ q.kind \in {"confirm", "act"} /\ Checked(q)
                                       /\ q.user = session[b].user
                                       /\ request' = [request EXCEPT ![b] = q]
<1> DEFINE u == session[b].user
           ask == [Blank("confirm", u) EXCEPT !.target = target]
<1>1. session[b] # None /\ Quiet
  BY DEF Confirm, Works, Gate, Authenticated, Quiet
<1>2. u \in Users /\ Exists(u) /\ (target # u => Exists(target))
  BY <1>1, SessionExists DEF Confirm
<1>3. \/ request' = [request EXCEPT ![b] = [ask EXCEPT !.kind = "act"]]
      \/ security[u].enabled /\ \E token \in AtHand(u) : request' = [request EXCEPT ![b] = [ask EXCEPT !.token = token]]
  BY DEF Confirm, Asks
<1>4. "confirm" \in Kinds /\ "act" \in Kinds
  BY DEF Kinds
<1> HIDE DEF u
<1>5. /\ Blank("confirm", u) \in Request /\ Blank("confirm", u).kind = "confirm"
      /\ Blank("confirm", u).user = u /\ Blank("confirm", u).seen = account[u]
  BY <1>2, <1>4, BlankFields
<1>6. /\ ask \in Request /\ ask.kind = "confirm" /\ ask.user = u
      /\ ask.seen = account[u] /\ ask.target = target
  BY <1>5, RequestFields
<1> HIDE DEF ask
<1>7. CASE request' = [request EXCEPT ![b] = [ask EXCEPT !.kind = "act"]]
  <2> DEFINE q == [ask EXCEPT !.kind = "act"]
  <2>1. q \in Request /\ q.kind = "act" /\ q.user = u /\ q.seen = account[u] /\ q.target = target
    BY <1>4, <1>6, RequestFields
  <2> HIDE DEF q
  <2>2. Checked(q)
    BY <1>2, <2>1, UserPassword DEF Checked
  <2> QED BY <1>1, <1>7, <2>1, <2>2 DEF q, u
<1>8. ASSUME security[u].enabled, NEW token \in AtHand(u),
             request' = [request EXCEPT ![b] = [ask EXCEPT !.token = token]]
      PROVE  \E q \in Request : /\ q.kind = "confirm" /\ Checked(q) /\ q.user = u
                                /\ request' = [request EXCEPT ![b] = q]
  <2> DEFINE q == [ask EXCEPT !.token = token]
  <2>1. token \in Token
    BY <1>2, <1>8, CodesAtHand
  <2>2. q \in Request /\ q.kind = "confirm" /\ q.user = u /\ q.seen = account[u] /\ q.target = target /\ q.token = token
    BY <1>6, <2>1, RequestFields
  <2> HIDE DEF q
  <2>3. Checked(q)
    BY <1>2, <2>1, <2>2, UserPassword DEF Checked
  <2> QED BY <1>8, <2>2, <2>3 DEF q
<1> QED BY <1>1, <1>3, <1>7, <1>8 DEF u

LEMMA AskOther ==
    ASSUME Rows, Requests, Factors, Sessions, NEW b \in Browsers,
           \/ ChangePassword(b)
           \/ \E u \in Users : SignIn(b, u)
           \/ \E g \in Grants : ResetAccess(b, g)
           \/ \E i \in Invites : \E u \in Others : Register(b, i, u)
    PROVE  Quiet /\ \E q \in Request : /\ q.kind \in {"sign_in", "password", "reset", "register"} /\ Checked(q)
                                       /\ request' = [request EXCEPT ![b] = q]
<1>1. CASE ChangePassword(b)
  <2> DEFINE u == session[b].user
             q == Blank("password", u)
  <2>1. session[b] # None /\ Quiet /\ request' = [request EXCEPT ![b] = q]
    BY <1>1 DEF ChangePassword, Gate, Authenticated, Quiet, Asks
  <2>2. u \in Users /\ Exists(u) /\ "password" \in Kinds
    BY <2>1, SessionExists DEF Kinds
  <2> HIDE DEF u
  <2>3. q \in Request /\ q.kind = "password" /\ q.user = u /\ q.seen = account[u]
    BY <2>2, BlankFields
  <2> HIDE DEF q
  <2>4. Checked(q)
    BY <2>2, <2>3, UserPassword DEF Checked
  <2> QED BY <2>1, <2>3, <2>4
<1>2. ASSUME NEW g \in Grants, ResetAccess(b, g)
      PROVE  Quiet /\ \E q \in Request : /\ q.kind = "reset" /\ Checked(q)
                                         /\ request' = [request EXCEPT ![b] = q]
  <2> DEFINE u == grant[g].user
             q == [Blank("reset", u) EXCEPT !.what = g]
  <2>1. grant[g] # None /\ account[u].active /\ Quiet /\ request' = [request EXCEPT ![b] = q]
    BY <1>2 DEF ResetAccess, Quiet, Asks
  <2>2. u \in Users /\ "reset" \in Kinds /\ g \in Grants \cup Invites
    BY <2>1 DEF Rows, ResetGrant, Kinds
  <2>3. Exists(u)
    BY <2>1 DEF Requests
  <2> HIDE DEF u
  <2>4. Blank("reset", u) \in Request /\ Blank("reset", u).kind = "reset" /\ Blank("reset", u).user = u /\ Blank("reset", u).seen = account[u]
    BY <2>2, BlankFields
  <2>5. q \in Request /\ q.kind = "reset" /\ q.user = u /\ q.seen = account[u] /\ q.what = g
    BY <2>2, <2>4, RequestFields
  <2> HIDE DEF q
  <2>6. Checked(q)
    BY <2>1, <2>3, <2>5, <2>2, UserPassword DEF Checked
  <2> QED BY <2>1, <2>5, <2>6
<1>3. ASSUME NEW i \in Invites, NEW u \in Others, Register(b, i, u)
      PROVE  Quiet /\ \E q \in Request : /\ q.kind = "register" /\ Checked(q)
                                         /\ request' = [request EXCEPT ![b] = q]
  <2> DEFINE q == [Blank("register", u) EXCEPT !.what = i]
  <2>1. Quiet /\ request' = [request EXCEPT ![b] = q]
    BY <1>3 DEF Register, Quiet, Asks
  <2>2. u \in Users /\ "register" \in Kinds /\ i \in Grants \cup Invites
    BY DEF Users, Kinds
  <2>4. Blank("register", u) \in Request /\ Blank("register", u).kind = "register" /\ Blank("register", u).user = u /\ Blank("register", u).seen = account[u]
    BY <2>2, BlankFields
  <2>5. q \in Request /\ q.kind = "register" /\ q.what = i
    BY <2>2, <2>4, RequestFields
  <2> HIDE DEF q
  <2>6. Checked(q)
    BY <2>5 DEF Checked
  <2> QED BY <2>1, <2>5, <2>6
<1>4. ASSUME NEW u \in Users, SignIn(b, u)
      PROVE  Quiet /\ \E q \in Request : /\ q.kind = "sign_in" /\ Checked(q)
                                         /\ request' = [request EXCEPT ![b] = q]
  <2> DEFINE q == Blank("sign_in", u)
  <2>1. Exists(u) /\ Quiet /\ request' = [request EXCEPT ![b] = q]
    BY <1>4 DEF SignIn, Quiet, Asks
  <2>2. q \in Request /\ q.kind = "sign_in" /\ q.user = u /\ q.seen = account[u]
    BY BlankFields DEF Kinds
  <2> HIDE DEF q
  <2>3. Checked(q)
    BY <2>1, <2>2, UserPassword DEF Checked
  <2> QED BY <2>1, <2>2, <2>3
<1> QED BY <1>1, <1>2, <1>3, <1>4

(***************************************************************************)
(* What no step takes back.                                                *)
(***************************************************************************)
\* Accounts, versions and grants stay; passwords and secrets are only added.
Forward ==
    /\ \A u \in Users : Exists(u) => Exists(u)' /\ account'[u].password >= account[u].password
    /\ \A u \in Users : security'[u].version >= security[u].version
    /\ made'.secrets >= made.secrets
    /\ \A g \in Grants : grant[g] # None => grant'[g] # None

LEMMA StillChecked ==
    ASSUME Rows, Rows', Forward, NEW r \in Request, Checked(r)
    PROVE  Checked(r)'
<1>1. made.secrets \in Int /\ made'.secrets \in Int
  BY DEF Rows
<1>2. r.user \in Users /\ r.target \in Users
  BY DEF Request
<1>3. Exists(r.user) => /\ account[r.user].password \in Int /\ account'[r.user].password \in Int
                        /\ account'[r.user].password >= account[r.user].password
  BY <1>2 DEF Forward, Rows, Exists, User
<1>4. r.seen \in User => r.seen.password \in Int
  BY DEF User
<1>5. /\ Exists(r.user) => Exists(r.user)'
      /\ Exists(r.target) => Exists(r.target)'
  BY <1>2 DEF Forward
<1>6. r.kind # "register" => /\ r.seen \in User /\ Exists(r.user)'
                             /\ r.seen.password <= account'[r.user].password
  BY <1>3, <1>4, <1>5 DEF Checked
<1>7. r.kind = "set_up" => r.token \in Otp /\ r.token[2] \in 1 .. made'.secrets
  BY <1>1 DEF Checked, Forward
<1> QED BY <1>5, <1>6, <1>7 DEF Checked, Forward

\* Every request of the next state was there, or has checked what it must.
Requested(b) ==
    \/ request'[b] = request[b] \/ request'[b] = None
    \/ \E q \in Request : request'[b] = q /\ (Checked(q) \/ Checked(q)')

LEMMA RequestsFollow ==
    ASSUME Rows, Rows', Requests, Forward, \A b \in Browsers : Requested(b),
           \A g \in Grants : grant'[g] # None => account'[grant'[g].user] # None
    PROVE  Requests'
<1>1. ASSUME NEW b \in Browsers, request'[b] # None PROVE Checked(request[b])'
  <2>1. PICK q \in Request : request'[b] = q /\ (Checked(q) \/ Checked(q)')
    BY <1>1, Asking DEF Requested
  <2>2. Checked(q)'
    BY <2>1, StillChecked
  <2> QED BY <2>1, <2>2 DEF Checked
<1> QED BY <1>1 DEF Requests, Exists

Begins(s) == /\ account'[s.user] # None /\ s.version <= security'[s.user].version
             /\ s.hash <= account'[s.user].password

LEMMA SessionsFollow ==
    ASSUME Rows, Rows', Sessions, Forward,
           \A b \in Browsers : session'[b] = session[b] \/ session'[b] = None \/ Begins(session'[b])
    PROVE  Sessions'
<1>1. ASSUME NEW b \in Browsers, session[b] # None
      PROVE  Begins(session[b])
  <2> DEFINE s == session[b]
             u == s.user
  <2>1. u \in Users /\ s.version \in Int /\ s.hash \in Int /\ Exists(u)
    BY <1>1, HasSession, SessionExists
  <2>2. /\ security[u].version \in Int /\ security'[u].version \in Int
        /\ security'[u].version >= security[u].version
    BY <2>1 DEF Forward, Rows, AccountSecurity
  <2>3. account'[u] # None /\ account[u].password \in Int /\ account'[u].password \in Int
        /\ account'[u].password >= account[u].password
    BY <2>1, UserPassword, UserPasswordNext DEF Forward, Exists
  <2>4. s.version <= security[u].version /\ s.hash <= account[u].password
    BY <1>1 DEF Sessions
  <2> HIDE DEF u
  <2>5. s.version <= security'[u].version /\ s.hash <= account'[u].password
    BY <2>1, <2>2, <2>3, <2>4
  <2> QED BY <2>3, <2>5 DEF Begins, u
<1>2. ASSUME NEW b \in Browsers, session'[b] # None PROVE Begins(session'[b])
  BY <1>1, <1>2
<1> QED BY <1>2 DEF Sessions, Begins, Exists

(***************************************************************************)
(* What is spent stays spent.                                              *)
(***************************************************************************)
Onward ==
    /\ \A u \in Users : /\ security'[u].secret \in {security[u].secret, 0} \/ Unused(security'[u].secret)
                        /\ security'[u].secret = security[u].secret
                              => security'[u].last_counter >= security[u].last_counter
                        /\ security'[u].secret <= made'.secrets
                        /\ \A token \in recovery'[u] : token \in recovery[u] \/ token[2] = made.batches + 1
                        /\ \A token \in recovery'[u] : token[2] <= made'.batches
    /\ made'.secrets >= made.secrets /\ made'.batches >= made.batches
    /\ \A g \in Grants : grant[g] # None /\ ~grant[g].open => grant'[g] # None /\ ~grant'[g].open
    /\ \A i \in Invites : invitation[i] = "gone" => invitation'[i] = "gone"

LEMMA SpentStays ==
    ASSUME Rows, Rows', Codes, Onward, NEW item \in accepted.ever
    PROVE  Spent(item)'
<1>1. item \in Items /\ Spent(item)
  BY DEF Rows, Codes
<1>2. CASE item[1] = "code"
  <2> DEFINE u == item[2]
             token == item[3]
  <2>1. u \in Users /\ token \in Token
    BY <1>1, <1>2 DEF Items
  <2>2. ASSUME token[1] = "otp"
        PROVE  token[2] <= made'.secrets /\ (token[2] = security'[u].secret => token[3] <= security'[u].last_counter)
    <3>1. token[2] \in Nat \ {0} /\ token[3] \in Int
      BY <2>1, <2>2 DEF Token, Otp, RecoveryCode
    <3>2. token[2] <= made.secrets /\ (token[2] = security[u].secret => token[3] <= security[u].last_counter)
      BY <1>1, <1>2, <2>2 DEF Spent
    <3>3. /\ made.secrets \in Int /\ made'.secrets \in Int /\ security[u].last_counter \in Int
          /\ security'[u].last_counter \in Int
      BY <2>1, AccessConstants DEF Rows, AccountSecurity
    <3>4. ~Unused(token[2])
      BY <1>2, <2>2 DEF Unused
    <3> HIDE DEF token, u
    <3>5. token[2] = security'[u].secret => /\ security'[u].secret = security[u].secret
                                            /\ security'[u].last_counter >= security[u].last_counter
      BY <2>1, <3>1, <3>4 DEF Onward
    <3> QED BY <3>1, <3>2, <3>3, <3>5 DEF Onward
  <2>3. ASSUME token[1] = "recovery"
        PROVE  token[2] <= made'.batches /\ token \notin recovery'[u]
    <3>1. token[2] \in Nat
      BY <2>1, <2>3 DEF Token, Otp, RecoveryCode
    <3>2. token[2] <= made.batches /\ token \notin recovery[u]
      BY <1>1, <1>2, <2>3 DEF Spent
    <3>3. made.batches \in Int /\ made'.batches \in Int
      BY DEF Rows
    <3> HIDE DEF token, u
    <3> QED BY <2>1, <3>1, <3>2, <3>3 DEF Onward
  <2> QED BY <1>2, <2>2, <2>3 DEF Spent
<1>3. CASE item[1] = "grant"
  BY <1>1, <1>3 DEF Items, Spent, Onward
<1>4. CASE item[1] = "invitation"
  BY <1>1, <1>4 DEF Items, Spent, Onward
<1>5. item[1] \in {"code", "grant", "invitation"}
  BY <1>1 DEF Items
<1> QED BY <1>2, <1>3, <1>4, <1>5

\* A code of the app with this secret.
Uses(item, secret) == item[1] = "code" /\ item[3][1] = "otp" /\ item[3][2] = secret

LEMMA SetUpsFollow ==
    ASSUME Rows, Rows', Requests, SetUps,
           \A b \in Browsers : request'[b] # None /\ request'[b].kind = "set_up" =>
              /\ request'[b] = request[b]
              /\ \A u \in Users : \/ security'[u].secret \in {security[u].secret, 0}
                                  \/ security'[u].secret # request[b].token[2]
              /\ \A item \in accepted'.ever : item \in accepted.ever \/ ~Uses(item, request[b].token[2])
    PROVE  SetUps'
<1>1. ASSUME NEW b \in Browsers, request'[b] # None, request'[b].kind = "set_up"
      PROVE  Unused(request[b].token[2])'
  <2>1. request[b] = request'[b] /\ request[b].token \in Otp
    BY <1>1, Asking DEF Checked
  <2> DEFINE secret == request[b].token[2]
  <2>2. secret \in Nat \ {0} /\ Unused(secret)
    BY <1>1, <2>1 DEF Otp, SetUps
  <2> HIDE DEF secret
  <2>3. \A u \in Users : security'[u].secret # secret
    BY <1>1, <2>1, <2>2 DEF Unused, secret
  <2>4. \A item \in accepted'.ever : item[1] = "code" => item[3][2] # secret \/ item[3][1] # "otp"
    BY <1>1, <2>1, <2>2 DEF Unused, Uses, secret
  <2> QED BY <2>1, <2>3, <2>4 DEF Unused, secret
<1> QED BY <1>1 DEF SetUps

\* Nothing new is accepted, or something that was not before and is spent now.
Accepted(item) == Accept(item) /\ item \notin accepted.ever /\ Spent(item)'

LEMMA CodesFollow ==
    ASSUME Rows, Rows', Codes, Onward, SetUps',
           UNCHANGED accepted \/ \E item \in Items : Accepted(item)
    PROVE  Codes'
<1>1. \A u \in Users : /\ security'[u].secret <= made'.secrets
                       /\ \A token \in recovery'[u] : token[2] <= made'.batches
  BY DEF Onward
<1>2. CASE UNCHANGED accepted
  BY <1>1, <1>2, SpentStays DEF Codes, OneTimeUse
<1>3. ASSUME NEW item \in Items, Accepted(item) PROVE Codes'
  <2>1. accepted' = [ever |-> accepted.ever \cup {item}, again |-> {}]
    BY <1>3 DEF Accepted, Accept, Codes, OneTimeUse
  <2>2. \A x \in accepted'.ever : Spent(x)'
    BY <1>3, <2>1, SpentStays DEF Accepted
  <2> QED BY <1>1, <2>1, <2>2 DEF Codes, OneTimeUse
<1> QED BY <1>2, <1>3

(***************************************************************************)
(* The steps, one after another.                                           *)
(***************************************************************************)
\* The step keeps the invariant and takes nothing back.
Sound == AccessInv' /\ Forward

Recorded == UNCHANGED accepted \/ \E item \in Items : Accepted(item)

LEMMA InvariantFollows ==
    ASSUME AccessInv, Rows', Factors', Forward, Onward, SetUps', Recorded,
           \A b \in Browsers : Requested(b),
           \A g \in Grants : grant'[g] # None => account'[grant'[g].user] # None,
           \A b \in Browsers : session'[b] = session[b] \/ session'[b] = None \/ Begins(session'[b])
    PROVE  Sound
<1>1. Requests'
  BY RequestsFollow DEF AccessInv
<1>2. Sessions'
  BY SessionsFollow DEF AccessInv
<1>3. Codes'
  BY CodesFollow DEF AccessInv, Recorded
<1> QED BY <1>1, <1>2, <1>3 DEF AccessInv, Sound

LEMMA Integers ==
    ASSUME Rows
    PROVE  /\ made.secrets \in Nat /\ made.passwords \in Nat /\ made.batches \in Nat
           /\ \A u \in Users : /\ security[u] \in AccountSecurity /\ security[u].version \in Nat
                               /\ security[u].secret \in Nat
                               /\ security[u].last_counter \in Int /\ security[u].enabled \in BOOLEAN
<1>1. \A u \in Users : security[u] \in AccountSecurity
  BY DEF Rows
<1> QED BY <1>1, AccessConstants DEF Rows, AccountSecurity

\* Steps that change no table.
LEMMA TablesSame ==
    ASSUME AccessInv, UNCHANGED <<rows, made>>
    PROVE  /\ Forward /\ Onward /\ Factors'
           /\ \A g \in Grants : grant'[g] # None => account'[grant'[g].user] # None
<1>1. Factors'
  BY DEF AccessInv, Factors, Exists, rows
<1>2. Forward
  <2>1. \A u \in Users : Exists(u) => account[u].password >= account[u].password
    BY UserPassword DEF AccessInv
  <2> QED BY <2>1, Integers DEF AccessInv, Forward, Exists, rows
<1>3. Onward
  BY Integers DEF AccessInv, Onward, Codes, rows
<1> QED BY <1>1, <1>2, <1>3 DEF AccessInv, Requests, rows, Exists

LEMMA SetUpsSame ==
    ASSUME Rows, Rows', Requests, SetUps, UNCHANGED <<security, accepted>>,
           \A b \in Browsers : request'[b] # None /\ request'[b].kind = "set_up" => request'[b] = request[b]
    PROVE  SetUps'
BY SetUpsFollow

\* A request goes on to its next stage, or has its answer.
LEMMA GoesOn ==
    ASSUME AccessInv, NEW b \in Browsers, request[b] # None,
           \/ Answered(b)
           \/ Moves(b, "enter") /\ request[b].kind \in {"verify", "set_up"}
           \/ Moves(b, "act") /\ request[b].kind = "confirm"
    PROVE  /\ request' \in [Browsers -> Request \cup {None}]
           /\ \A c \in Browsers : Requested(c)
           /\ \A c \in Browsers : request'[c] # None /\ request'[c].kind = "set_up"
                                     => request'[c] = request[c] /\ c # b
<1>1. request[b] \in Request /\ Checked(request[b]) /\ request \in [Browsers -> Request \cup {None}]
  BY Asking DEF AccessInv, Rows
<1>2. CASE Answered(b)
  BY <1>1, <1>2 DEF Answered, Requested
<1>3. ASSUME NEW kind \in {"enter", "act"}, Moves(b, kind), request[b].kind \in {"verify", "set_up", "confirm"},
             kind = "act" => request[b].kind = "confirm"
      PROVE  /\ request' \in [Browsers -> Request \cup {None}]
             /\ \A c \in Browsers : Requested(c)
             /\ \A c \in Browsers : request'[c] # None /\ request'[c].kind = "set_up"
                                       => request'[c] = request[c] /\ c # b
  <2> DEFINE r == request[b]
             q == [r EXCEPT !.kind = kind]
  <2>1. kind \in Kinds
    BY DEF Kinds
  <2>2. request' = [request EXCEPT ![b] = q]
    BY <1>3 DEF Moves
  <2>3. q \in Request /\ q.kind = kind /\ q.user = r.user /\ q.target = r.target /\ q.seen = r.seen
    BY <1>1, <2>1, RequestFields
  <2> HIDE DEF q
  <2>4. Checked(q)
    BY <1>1, <1>3, <2>3 DEF Checked
  <2>5. request'[b] = q /\ \A c \in Browsers : c # b => request'[c] = request[c]
    BY <1>1, <2>2
  <2> QED BY <1>1, <2>2, <2>3, <2>4, <2>5 DEF Requested
<1> QED BY <1>2, <1>3

\* A browser asks for something that needs nothing to be made.
LEMMA QuietStep ==
    ASSUME AccessInv, Quiet, NEW b \in Browsers, NEW q \in Request, q.kind # "set_up", Checked(q),
           request' = [request EXCEPT ![b] = q]
    PROVE  Sound
<1>1. Rows'
  BY DEF AccessInv, Rows, Quiet, rows
<1>2. \A c \in Browsers : /\ Requested(c)
                          /\ request'[c] # None /\ request'[c].kind = "set_up" => request'[c] = request[c]
  BY DEF AccessInv, Rows, Requested
<1>3. SetUps'
  BY <1>1, <1>2, SetUpsSame DEF AccessInv, Codes, Quiet, rows
<1> QED BY <1>1, <1>2, <1>3, TablesSame, InvariantFollows DEF Quiet, Recorded

\* Steps that only open or close a session, or answer, or let time pass.
LEMMA SessionStep ==
    ASSUME AccessInv, UNCHANGED <<rows, made, accepted>>, NEW b \in Browsers,
           now' \in 1 .. MaxTime, request' \in [Browsers -> Request \cup {None}],
           \A c \in Browsers : Requested(c) /\ (request'[c] # None /\ request'[c].kind = "set_up" => request'[c] = request[c]),
           \/ UNCHANGED session
           \/ session' = [session EXCEPT ![b] = None]
           \/ \E s \in SessionRow : session' = [session EXCEPT ![b] = s] /\ Begins(s)
    PROVE  Sound
<1>1. Rows'
  BY DEF AccessInv, Rows, rows
<1>2. SetUps'
  BY <1>1, SetUpsSame DEF AccessInv, Codes, rows
<1>3. \A c \in Browsers : session'[c] = session[c] \/ session'[c] = None \/ Begins(session'[c])
  BY DEF AccessInv, Rows
<1> QED BY <1>1, <1>2, <1>3, TablesSame, InvariantFollows DEF Recorded

LEMMA RequestsSame ==
    ASSUME request' = request
    PROVE  \A c \in Browsers : Requested(c) /\ (request'[c] # None /\ request'[c].kind = "set_up" => request'[c] = request[c])
BY DEF Requested

LEMMA QuietSteps ==
    ASSUME AccessInv, NEW b \in Browsers,
           \/ Verify(b) \/ ChangePassword(b)
           \/ \E u \in Users : SignIn(b, u) \/ Confirm(b, u)
           \/ \E g \in Grants : ResetAccess(b, g)
           \/ \E i \in Invites : \E u \in Others : Register(b, i, u)
    PROVE  Sound
<1>1. Quiet /\ \E q \in Request : /\ q.kind # "set_up" /\ Checked(q)
                                  /\ request' = [request EXCEPT ![b] = q]
  <2>1. CASE Verify(b)
    BY <2>1, AskVerify DEF AccessInv
  <2>2. ASSUME NEW u \in Users, Confirm(b, u)
        PROVE  Quiet /\ \E q \in Request : /\ q.kind # "set_up" /\ Checked(q)
                                           /\ request' = [request EXCEPT ![b] = q]
    BY <2>2, AskConfirm DEF AccessInv
  <2>3. CASE ~Verify(b) /\ ~\E u \in Users : Confirm(b, u)
    BY <2>3, AskOther DEF AccessInv
  <2> QED BY <2>1, <2>2, <2>3
<1> QED BY <1>1, QuietStep

LEMMA SessionSteps ==
    ASSUME AccessInv, NEW b \in Browsers,
           Visit(b) \/ SignOut(b) \/ SignedIn(b) \/ Entered(b) \/ Refused(b) \/ Tick
    PROVE  Sound
<1>0. request \in [Browsers -> Request \cup {None}] /\ now \in 1 .. MaxTime
  BY DEF AccessInv, Rows
<1>1. CASE Visit(b) \/ SignOut(b)
  BY <1>0, <1>1, SessionStep, RequestsSame DEF Visit, SignOut, Close
<1>2. CASE Tick
  <2>1. now' \in 1 .. MaxTime
    BY <1>0, <1>2, AccessConstants DEF Tick
  <2> QED BY <1>0, <1>2, <2>1, SessionStep, RequestsSame DEF Tick
<1>3. CASE Refused(b)
  BY <1>0, <1>3, SessionStep, GoesOn DEF Refused
<1>4. CASE Entered(b) \/ SignedIn(b)
  <2> DEFINE r == request[b]
  <2>1. /\ r # None /\ r.kind \in {"enter", "sign_in"} /\ Answered(b) /\ UNCHANGED <<now, rows, made, accepted>>
        /\ \E kind \in {"pending", "login"}, mfa \in BOOLEAN :
              session' = [session EXCEPT ![b] = Session(kind, r.user, r.seen.password, mfa)]
    BY <1>4 DEF Entered, SignedIn, Served, Open, Continue
  <2>2. r.user \in Users /\ r.seen \in User /\ Exists(r.user) /\ r.seen.password <= account[r.user].password
    BY <2>1, Asking DEF AccessInv, Checked
  <2>3. r.seen.password \in 1 .. MaxPasswords
    BY <2>2 DEF User
  <2>4. PICK user \in Users, hash \in 1 .. MaxPasswords : user = r.user /\ hash = r.seen.password
    BY <2>2, <2>3
  <2> HIDE DEF r
  <2>5. PICK kind \in {"pending", "login"}, mfa \in BOOLEAN :
           session' = [session EXCEPT ![b] = Session(kind, user, hash, mfa)]
    BY <2>1, <2>4
  <2> DEFINE s == Session(kind, user, hash, mfa)
  <2>6. s \in SessionRow /\ s.user = user /\ s.hash = hash /\ s.version = security[user].version
    BY SessionFields DEF AccessInv
  <2>7. session' = [session EXCEPT ![b] = s]
    BY <2>5
  <2> HIDE DEF s
  <2>8. Begins(s)
    BY <2>1, <2>2, <2>4, <2>6, Integers DEF Begins, AccessInv, Exists, rows
  <2> QED BY <1>0, <2>1, <2>6, <2>7, <2>8, GoesOn, SessionStep DEF r
<1> QED BY <1>1, <1>2, <1>3, <1>4

\* A one-time code is used: to sign in, or to confirm.
LEMMA CodeSteps ==
    ASSUME AccessInv, NEW b \in Browsers, Verified(b) \/ Confirmed(b)
    PROVE  Sound
<1>1. /\ request[b] # None /\ request[b].kind \in {"verify", "confirm"}
      /\ consume_otp(request[b].user, request[b].token)
      /\ UNCHANGED <<now, account, invitation, grant, session, made>>
      /\ \/ Moves(b, "enter") /\ request[b].kind = "verify"
         \/ Moves(b, "act") /\ request[b].kind = "confirm"
  BY DEF Verified, Confirmed, Served
<1>2. PICK u \in Users, token \in Token : consume_otp(u, token)
  BY <1>1, Asking DEF AccessInv, Checked
<1> DEFINE item == <<"code", u, token>>
<1>3. /\ security' \in [Users -> AccountSecurity] /\ recovery' \in [Users -> SUBSET RecoveryCode]
      /\ Accept(item) /\ security[u].enabled
      /\ \A v \in Users : /\ security'[v].version = security[v].version
                          /\ security'[v].secret = security[v].secret
                          /\ security'[v].enabled = security[v].enabled
                          /\ security'[v].last_counter >= security[v].last_counter
                          /\ recovery'[v] \subseteq recovery[v]
      /\ \/ /\ token \in Otp /\ token[2] = security[u].secret
            /\ token[3] > security[u].last_counter /\ security'[u].last_counter = token[3]
         \/ token \in recovery[u] /\ token \notin recovery'[u] /\ token \in RecoveryCode
  BY <1>2, Consumed DEF AccessInv
<1>4. item \in Items
  BY <1>2 DEF Items
<1>5. /\ request' \in [Browsers -> Request \cup {None}]
      /\ \A c \in Browsers : Requested(c)
      /\ \A c \in Browsers : request'[c] # None /\ request'[c].kind = "set_up"
                                => request'[c] = request[c] /\ c # b
  BY <1>1, GoesOn
<1>6. Rows'
  <2>1. accepted' \in [ever : SUBSET Items, again : SUBSET Items]
    BY <1>3, <1>4, AcceptTyped DEF AccessInv
  <2> QED BY <1>1, <1>3, <1>5, <2>1 DEF AccessInv, Rows
<1>7. Forward
  <2>1. \A v \in Users : Exists(v) => account[v].password >= account[v].password
    BY UserPassword DEF AccessInv
  <2> QED BY <1>1, <1>3, <2>1, Integers DEF AccessInv, Forward, Exists
<1>8. Onward
  <2>1. \A v \in Users : security[v].secret <= made.secrets /\ \A x \in recovery[v] : x[2] <= made.batches
    BY DEF AccessInv, Codes
  <2> QED BY <1>1, <1>3, <2>1, Integers DEF AccessInv, Onward
<1>9. Factors'
  <2> SUFFICES ASSUME NEW v \in Users
               PROVE  /\ security'[v].enabled <=> security'[v].secret > 0
                      /\ security'[v].last_counter >= 0 <=> security'[v].enabled
                      /\ recovery'[v] # {} => account'[v] # None
                      /\ account'[v] # None => account'[v].password <= made'.passwords
    BY DEF Factors, Exists
  <2>1. /\ security[v].enabled <=> security[v].secret > 0
        /\ security[v].last_counter >= 0 <=> security[v].enabled
        /\ recovery[v] # {} => account[v] # None
        /\ account[v] # None => account[v].password <= made.passwords
    BY DEF AccessInv, Factors, Exists
  <2>2. /\ security'[v].enabled = security[v].enabled /\ security'[v].secret = security[v].secret
        /\ security'[v].last_counter >= security[v].last_counter /\ recovery'[v] \subseteq recovery[v]
        /\ security[v].last_counter \in Int /\ security'[v].last_counter \in -1 .. MaxTime + 1
    BY <1>3, Integers DEF AccessInv, AccountSecurity
  \* Only an enabled factor has its counter moved.
  <2>3. security'[v].last_counter >= 0 => security[v].enabled
    <3>1. v = u \/ security'[v] = security[v]
      BY <1>1, <1>2 DEF consume_otp, AccessInv, Rows
    <3> QED BY <1>3, <2>1, <3>1
  <2> QED BY <1>1, <2>1, <2>2, <2>3, AccessConstants
<1>10. SetUps'
  <2>1. ASSUME NEW c \in Browsers, request'[c] # None, request'[c].kind = "set_up"
        PROVE  /\ request'[c] = request[c]
               /\ \A v \in Users : security'[v].secret \in {security[v].secret, 0}
               /\ \A x \in accepted'.ever : x \in accepted.ever \/ ~Uses(x, request[c].token[2])
    <3>1. request'[c] = request[c] /\ request[c].token \in Otp /\ Unused(request[c].token[2])
      BY <1>5, <2>1, Asking DEF AccessInv, Checked, Codes, SetUps
    <3>2. security[u].secret # request[c].token[2]
      BY <1>2, <3>1 DEF Unused
    <3>3. token[1] = "otp" => token[2] = security[u].secret
      BY <1>3 DEF RecoveryCode
    <3>4. ~Uses(item, request[c].token[2])
      BY <3>2, <3>3 DEF Uses
    <3>5. accepted'.ever = accepted.ever \cup {item}
      BY <1>3 DEF Accept
    <3> HIDE DEF item
    <3> QED BY <1>3, <3>1, <3>4, <3>5
  <2> QED BY <1>6, <2>1, SetUpsFollow DEF AccessInv, Codes
<1>11. item \notin accepted.ever
  <2> SUFFICES ASSUME item \in accepted.ever PROVE FALSE
    OBVIOUS
  <2>1. Spent(item)
    BY DEF AccessInv, Codes
  <2>2. CASE token \in Otp
    <3>1. token[3] \in Int /\ token[1] = "otp" /\ token \notin RecoveryCode
      BY <2>2 DEF Otp, RecoveryCode
    <3> QED BY <1>2, <1>3, <2>1, <3>1, Integers DEF Spent, AccessInv
  <2>3. CASE token \in recovery[u] /\ token \in RecoveryCode
    BY <2>1, <2>3 DEF Spent, RecoveryCode
  <2> QED BY <1>3, <2>2, <2>3
<1>12. Spent(item)'
  <2> SUFFICES /\ token[1] = "otp" => /\ token[2] <= made'.secrets
                                      /\ token[2] = security'[u].secret => token[3] <= security'[u].last_counter
               /\ token[1] = "recovery" => token[2] <= made'.batches /\ token \notin recovery'[u]
    BY <1>2 DEF Spent
  <2>1. CASE token \in Otp /\ token[2] = security[u].secret /\ security'[u].last_counter = token[3]
    <3>1. token[3] \in Int /\ token[1] = "otp"
      BY <2>1 DEF Otp
    <3>2. security[u].secret <= made.secrets
      BY <1>2 DEF AccessInv, Codes
    <3> QED BY <1>1, <2>1, <3>1, <3>2
  <2>2. CASE token \in recovery[u] /\ token \notin recovery'[u] /\ token \in RecoveryCode
    BY <1>1, <1>2, <2>2 DEF RecoveryCode, AccessInv, Codes
  <2> QED BY <1>3, <2>1, <2>2
<1>13. Recorded
  <2>1. Accepted(item)
    BY <1>3, <1>11, <1>12 DEF Accepted
  <2> QED BY <1>4, <2>1 DEF Recorded
<1>14. \A g \in Grants : grant'[g] # None => account'[grant'[g].user] # None
  BY <1>1 DEF AccessInv, Requests, Exists
<1> QED BY <1>1, <1>5, <1>6, <1>7, <1>8, <1>9, <1>10, <1>13, <1>14, InvariantFollows

\* A second factor as it was, or taken away.
KeptOrCleared(v) ==
    \/ /\ security'[v].secret = security[v].secret /\ security'[v].enabled = security[v].enabled
       /\ security'[v].last_counter = security[v].last_counter
    \/ security'[v].secret = 0 /\ security'[v].enabled = FALSE /\ security'[v].last_counter = -1

\* Steps that make no secret and no code.
LEMMA TableStep ==
    ASSUME AccessInv, Rows',
           \A v \in Users : security'[v].version >= security[v].version /\ KeptOrCleared(v),
           made'.secrets = made.secrets, made'.batches = made.batches,
           \A v \in Users : /\ Exists(v) => account'[v] # None /\ account'[v].password >= account[v].password
                            /\ account'[v] # None => account'[v].password <= made'.passwords
                            /\ recovery'[v] \subseteq recovery[v],
           \A g \in Grants : /\ grant[g] # None => grant'[g] # None /\ (~grant[g].open => ~grant'[g].open)
                             /\ grant'[g] # None => account'[grant'[g].user] # None,
           \A i \in Invites : invitation[i] = "gone" => invitation'[i] = "gone",
           Recorded, \A item \in accepted'.ever : item \in accepted.ever \/ item[1] # "code",
           \A c \in Browsers : /\ Requested(c)
                               /\ request'[c] # None /\ request'[c].kind = "set_up" => request'[c] = request[c],
           \A c \in Browsers : session'[c] = session[c] \/ session'[c] = None \/ Begins(session'[c])
    PROVE  Sound
<1>1. Factors'
  <2> SUFFICES ASSUME NEW v \in Users
               PROVE  /\ security'[v].enabled <=> security'[v].secret > 0
                      /\ security'[v].last_counter >= 0 <=> security'[v].enabled
                      /\ recovery'[v] # {} => account'[v] # None
                      /\ account'[v] # None => account'[v].password <= made'.passwords
    BY DEF Factors, Exists
  <2>1. /\ security[v].enabled <=> security[v].secret > 0
        /\ security[v].last_counter >= 0 <=> security[v].enabled
        /\ recovery[v] # {} => Exists(v)
    BY DEF AccessInv, Factors
  <2>2. /\ security'[v].enabled <=> security'[v].secret > 0
        /\ security'[v].last_counter >= 0 <=> security'[v].enabled
    BY <2>1 DEF KeptOrCleared
  <2> QED BY <2>1, <2>2
<1>2. Forward
  BY Integers DEF AccessInv, Forward, Exists
<1>3. Onward
  <2>1. \A v \in Users : security[v].secret <= made.secrets /\ \A x \in recovery[v] : x[2] <= made.batches
    BY DEF AccessInv, Codes
  <2>2. ASSUME NEW v \in Users
        PROVE  /\ security'[v].secret \in {security[v].secret, 0} /\ security'[v].secret <= made'.secrets
               /\ security'[v].secret = security[v].secret => security'[v].last_counter >= security[v].last_counter
    <3>1. /\ security[v].enabled <=> security[v].secret > 0
          /\ security[v].last_counter >= 0 <=> security[v].enabled
          /\ security[v].last_counter \in -1 .. MaxTime + 1
      BY DEF AccessInv, Factors, Rows, AccountSecurity
    <3>2. made.secrets \in Nat /\ security[v].secret \in Nat
      BY Integers DEF AccessInv
    <3>3. CASE security'[v].secret = security[v].secret /\ security'[v].last_counter = security[v].last_counter
      BY <2>1, <3>1, <3>2, <3>3, AccessConstants
    <3>4. CASE security'[v].secret = 0 /\ security'[v].last_counter = -1
      BY <3>1, <3>2, <3>4, AccessConstants
    <3> QED BY <3>3, <3>4 DEF KeptOrCleared
  <2> QED BY <2>1, <2>2, Integers DEF AccessInv, Onward
<1>4. SetUps'
  <2>1. ASSUME NEW c \in Browsers, request'[c] # None, request'[c].kind = "set_up"
        PROVE  /\ request'[c] = request[c]
               /\ \A v \in Users : security'[v].secret \in {security[v].secret, 0}
               /\ \A x \in accepted'.ever : x \in accepted.ever \/ ~Uses(x, request[c].token[2])
    BY <2>1 DEF Uses, KeptOrCleared
  <2> QED BY <2>1, SetUpsFollow DEF AccessInv, Codes
<1> QED BY <1>1, <1>2, <1>3, <1>4, InvariantFollows

\* A new version of the account's security.
LEMMA Revokes ==
    ASSUME AccessInv, NEW u \in Users,
           \/ security' = [security EXCEPT ![u] = revoke_sessions(security[u])]
           \/ security' = [security EXCEPT ![u] = revoke_sessions(Cleared(security[u]))]
    PROVE  /\ security' \in [Users -> AccountSecurity]
           /\ \A v \in Users : security'[v].version >= security[v].version /\ KeptOrCleared(v)
<1> DEFINE sec == security[u]
<1>1. sec \in AccountSecurity /\ Cleared(sec) \in AccountSecurity
  BY SecurityRows DEF AccessInv, Rows
<1>2. /\ revoke_sessions(sec) \in AccountSecurity
      /\ revoke_sessions(sec).version = sec.version + 1
      /\ revoke_sessions(sec).secret = sec.secret
      /\ revoke_sessions(sec).last_counter = sec.last_counter
      /\ revoke_sessions(sec).enabled = sec.enabled
  BY <1>1, SecurityRows
<1>3. /\ revoke_sessions(Cleared(sec)) \in AccountSecurity
      /\ revoke_sessions(Cleared(sec)).version = sec.version + 1
      /\ revoke_sessions(Cleared(sec)).secret = 0
      /\ revoke_sessions(Cleared(sec)).last_counter = -1
      /\ revoke_sessions(Cleared(sec)).enabled = FALSE
  BY <1>1, SecurityRows
<1>4. PICK new \in {revoke_sessions(sec), revoke_sessions(Cleared(sec))} : security' = [security EXCEPT ![u] = new]
  OBVIOUS
<1>5. new \in AccountSecurity /\ new.version = sec.version + 1
  BY <1>2, <1>3
<1>6. security' \in [Users -> AccountSecurity] /\ security'[u] = new /\ \A v \in Users : v # u => security'[v] = security[v]
  BY <1>4, <1>5 DEF AccessInv, Rows
<1>7. KeptOrCleared(u)
  BY <1>2, <1>3, <1>6 DEF KeptOrCleared
<1>8. \A v \in Users : security[v].version \in Nat
  BY Integers DEF AccessInv
<1>9. \A v \in Users : security'[v].version >= security[v].version /\ KeptOrCleared(v)
  BY <1>5, <1>6, <1>7, <1>8 DEF KeptOrCleared
<1> QED BY <1>6, <1>9

\* What holds of accounts, grants and codes that are as they were.
LEMMA TablesKeep ==
    ASSUME AccessInv
    PROVE  /\ \A v \in Users : /\ Exists(v) => account[v].password >= account[v].password
                               /\ account[v] # None => account[v].password <= made.passwords
           /\ \A g \in Grants : grant[g] # None => account[grant[g].user] # None
           /\ \A v \in Users : security[v].version >= security[v].version
BY UserPassword, Integers DEF AccessInv, Factors, Requests, Exists

\* An administrator's action on another account, or the owner's from the console.
LEMMA ActSteps ==
    ASSUME AccessInv, RecoverOwner \/ \E b \in Browsers : Act(b)
    PROVE  Sound
<1>1. ASSUME NEW u \in Users, Exists(u),
             UNCHANGED <<now, invitation, session, made, accepted>>,
             request' \in [Browsers -> Request \cup {None}],
             \A c \in Browsers : /\ Requested(c)
                                 /\ request'[c] # None /\ request'[c].kind = "set_up" => request'[c] = request[c],
             \/ security' = [security EXCEPT ![u] = revoke_sessions(security[u])]
             \/ security' = [security EXCEPT ![u] = revoke_sessions(Cleared(security[u]))],
             \/ \E a \in User : a.password = account[u].password /\ account' = [account EXCEPT ![u] = a]
             \/ UNCHANGED account,
             recovery' = [recovery EXCEPT ![u] = {}] \/ UNCHANGED recovery,
             \/ \E g \in Grants : grant[g] = None /\ grant' = [Issued(u) EXCEPT ![g] = [user |-> u, open |-> TRUE]]
             \/ UNCHANGED grant
      PROVE  Sound
  <2>1. /\ account' \in [Users -> User \cup {None}]
        /\ \A v \in Users : /\ Exists(v) => account'[v] # None /\ account'[v].password >= account[v].password
                            /\ account'[v] # None => account'[v].password <= made'.passwords
    <3>1. account \in [Users -> User \cup {None}]
      BY DEF AccessInv, Rows
    <3>2. ASSUME NEW a \in User, a.password = account[u].password, account' = [account EXCEPT ![u] = a]
          PROVE  /\ account' \in [Users -> User \cup {None}]
                 /\ \A v \in Users : /\ Exists(v) => account'[v] # None /\ account'[v].password >= account[v].password
                                     /\ account'[v] # None => account'[v].password <= made'.passwords
      <4>1. a # None
        BY AccessConstants
      <4>2. account'[u] = a /\ \A v \in Users : v # u => account'[v] = account[v]
        BY <3>1, <3>2
      <4>3. account[u] # None /\ made' = made
        BY <1>1 DEF Exists
      <4> QED BY <3>1, <3>2, <4>1, <4>2, <4>3, TablesKeep DEF Exists
    <3>3. CASE UNCHANGED account
      BY <1>1, <3>1, <3>3, TablesKeep DEF Exists
    <3> QED BY <1>1, <3>2, <3>3
  <2>2. recovery' \in [Users -> SUBSET RecoveryCode] /\ \A v \in Users : recovery'[v] \subseteq recovery[v]
    BY <1>1 DEF AccessInv, Rows
  <2>3. /\ grant' \in [Grants -> ResetGrant \cup {None}]
        /\ \A g \in Grants : /\ grant[g] # None => grant'[g] # None /\ (~grant[g].open => ~grant'[g].open)
                             /\ grant'[g] # None => account'[grant'[g].user] # None
    <3>1. grant \in [Grants -> ResetGrant \cup {None}] /\ None \notin ResetGrant
      BY AccessConstants DEF AccessInv, Rows
    <3>2. \A v \in Users : Exists(v) => account'[v] # None
      BY <2>1
    <3>3. CASE UNCHANGED grant
      BY <3>1, <3>2, <3>3, TablesKeep DEF Exists, ResetGrant
    <3>4. ASSUME NEW g \in Grants, grant[g] = None, grant' = [Issued(u) EXCEPT ![g] = [user |-> u, open |-> TRUE]]
          PROVE  /\ grant' \in [Grants -> ResetGrant \cup {None}]
                 /\ \A h \in Grants : /\ grant[h] # None => grant'[h] # None /\ (~grant[h].open => ~grant'[h].open)
                                      /\ grant'[h] # None => account'[grant'[h].user] # None
      <4> DEFINE new == [user |-> u, open |-> TRUE]
      <4>1. new \in ResetGrant /\ new.user = u
        BY DEF ResetGrant
      <4>2. \A h \in Grants : grant[h] # None =>
               /\ [grant[h] EXCEPT !.open = FALSE] \in ResetGrant
               /\ [grant[h] EXCEPT !.open = FALSE].user = grant[h].user
               /\ [grant[h] EXCEPT !.open = FALSE].open = FALSE
        BY <3>1 DEF ResetGrant
      <4>3. Issued(u) \in [Grants -> ResetGrant \cup {None}]
        BY <3>1, <4>2 DEF Issued
      <4>4. \A h \in Grants : grant'[h] = IF h = g THEN new ELSE Issued(u)[h]
        BY <3>4, <4>3
      <4> HIDE DEF new
      <4>5. \A h \in Grants : /\ grant[h] = None => Issued(u)[h] = None
                              /\ grant[h] # None => /\ Issued(u)[h] # None /\ Issued(u)[h].user = grant[h].user
                                                    /\ ~grant[h].open => ~Issued(u)[h].open
        BY <3>1, <4>2 DEF Issued
      <4>6. \A h \in Grants : grant[h] # None => grant[h].user \in Users /\ Exists(grant[h].user)
        BY <3>1 DEF ResetGrant, AccessInv, Requests
      <4>7. grant' \in [Grants -> ResetGrant \cup {None}]
        BY <3>4, <4>1, <4>3 DEF new
      <4>8. new # None
        BY <3>1, <4>1
      <4>9. Exists(u) /\ u \in Users
        BY <1>1
      <4>10. \A h \in Grants : grant[h] # None => grant'[h] # None /\ (~grant[h].open => ~grant'[h].open)
        BY <3>4, <4>4, <4>5
      <4>11. \A h \in Grants : grant'[h] # None => account'[grant'[h].user] # None
        BY <3>2, <3>4, <4>1, <4>4, <4>5, <4>6, <4>9
      <4> QED BY <4>7, <4>10, <4>11
    <3> QED BY <1>1, <3>3, <3>4
  <2>4. /\ security' \in [Users -> AccountSecurity]
        /\ \A v \in Users : security'[v].version >= security[v].version /\ KeptOrCleared(v)
    BY <1>1, Revokes
  <2>5. Rows'
    BY <1>1, <2>1, <2>2, <2>3, <2>4 DEF AccessInv, Rows
  <2> QED BY <1>1, <2>1, <2>2, <2>3, <2>4, <2>5, TableStep DEF Recorded
<1>2. CASE RecoverOwner
  <2>1. Owner \in Users /\ request \in [Browsers -> Request \cup {None}]
    BY DEF Users, AccessInv, Rows
  <2> QED BY <1>1, <1>2, <2>1, RequestsSame DEF RecoverOwner
<1>3. ASSUME NEW b \in Browsers, Act(b) PROVE Sound
  <2> DEFINE u == request[b].target
  <2>1. /\ request[b] # None /\ request[b].kind = "act" /\ Answered(b)
        /\ UNCHANGED <<now, invitation, session, made, accepted>>
    BY <1>3 DEF Act, Served
  <2>2. u \in Users /\ Exists(u)
    BY <2>1, Asking DEF AccessInv, Checked
  <2>3. PICK t \in Users : t = u
    BY <2>2
  <2>4. /\ request' \in [Browsers -> Request \cup {None}]
        /\ \A c \in Browsers : /\ Requested(c)
                               /\ request'[c] # None /\ request'[c].kind = "set_up" => request'[c] = request[c]
    BY <2>1, GoesOn
  <2>5. account[t] \in User /\ Exists(t)
    BY <2>2, <2>3, UserPassword DEF AccessInv
  <2>6. /\ \A role \in GivenRoles : /\ [account[t] EXCEPT !.role = role] \in User
                                    /\ [account[t] EXCEPT !.role = role].password = account[t].password
        /\ [account[t] EXCEPT !.active = ~account[t].active] \in User
        /\ [account[t] EXCEPT !.active = ~account[t].active].password = account[t].password
    <3> DEFINE x == ~account[t].active
    <3>1. x \in BOOLEAN
      OBVIOUS
    <3> HIDE DEF x
    <3>2. /\ [account[t] EXCEPT !.active = x] \in User
          /\ [account[t] EXCEPT !.active = x].password = account[t].password
      BY <2>5, <3>1 DEF User
    <3>3. \A role \in GivenRoles : /\ [account[t] EXCEPT !.role = role] \in User
                                   /\ [account[t] EXCEPT !.role = role].password = account[t].password
      BY <2>5 DEF User
    <3> QED BY <3>2, <3>3 DEF x
  <2>7. \/ /\ \E role \in GivenRoles : account' = [account EXCEPT ![t] = [account[t] EXCEPT !.role = role]]
           /\ security' = [security EXCEPT ![t] = revoke_sessions(security[t])] /\ UNCHANGED <<grant, recovery>>
        \/ /\ account' = [account EXCEPT ![t] = [account[t] EXCEPT !.active = ~account[t].active]]
           /\ security' = [security EXCEPT ![t] = revoke_sessions(security[t])] /\ UNCHANGED <<grant, recovery>>
        \/ /\ \E g \in Grants : grant[g] = None /\ grant' = [Issued(t) EXCEPT ![g] = [user |-> t, open |-> TRUE]]
           /\ security' = [security EXCEPT ![t] = revoke_sessions(security[t])] /\ UNCHANGED <<account, recovery>>
        \/ /\ security' = [security EXCEPT ![t] = revoke_sessions(Cleared(security[t]))]
           /\ recovery' = [recovery EXCEPT ![t] = {}] /\ UNCHANGED <<account, grant>>
    BY <1>3, <2>3 DEF Act
  <2> HIDE DEF u
  <2>8. \/ \E a \in User : a.password = account[t].password /\ account' = [account EXCEPT ![t] = a]
        \/ UNCHANGED account
    BY <2>6, <2>7
  <2>9. /\ \/ security' = [security EXCEPT ![t] = revoke_sessions(security[t])]
           \/ security' = [security EXCEPT ![t] = revoke_sessions(Cleared(security[t]))]
        /\ recovery' = [recovery EXCEPT ![t] = {}] \/ UNCHANGED recovery
        /\ \/ \E g \in Grants : grant[g] = None /\ grant' = [Issued(t) EXCEPT ![g] = [user |-> t, open |-> TRUE]]
           \/ UNCHANGED grant
    BY <2>7
  <2> QED BY <1>1, <2>1, <2>4, <2>5, <2>8, <2>9
<1> QED BY <1>2, <1>3

LEMMA PasswordMade ==
    ASSUME Rows, NewPassword
    PROVE  /\ made'.passwords \in 1 .. MaxPasswords /\ made'.passwords = made.passwords + 1 /\ made.passwords \in Nat
           /\ made' \in [secrets : 0 .. MaxMade, passwords : 0 .. MaxPasswords, batches : 0 .. MaxMade]
           /\ made'.secrets = made.secrets /\ made'.batches = made.batches
<1> DEFINE n == made.passwords + 1
<1>1. /\ made.passwords < MaxPasswords /\ made' = [made EXCEPT !.passwords = n]
      /\ made \in [secrets : 0 .. MaxMade, passwords : 0 .. MaxPasswords, batches : 0 .. MaxMade]
  BY DEF NewPassword, Rows
<1>2. n \in 1 .. MaxPasswords /\ n \in 0 .. MaxPasswords /\ made.passwords \in Nat
  BY <1>1, AccessConstants
<1> HIDE DEF n
<1>3. /\ made'.passwords = n /\ made'.secrets = made.secrets /\ made'.batches = made.batches
      /\ made' \in [secrets : 0 .. MaxMade, passwords : 0 .. MaxPasswords, batches : 0 .. MaxMade]
  BY <1>1, <1>2
<1> QED BY <1>2, <1>3 DEF n

\* The password of an account that was read with the request, saved with a
\* new password.
LEMMA NewPasswordSaved ==
    ASSUME AccessInv, NEW u \in Users, Exists(u), NewPassword, NEW seen \in User,
           NEW a \in User, a.password = made'.passwords, account' = [account EXCEPT ![u] = a]
    PROVE  /\ account' \in [Users -> User \cup {None}]
           /\ made' \in [secrets : 0 .. MaxMade, passwords : 0 .. MaxPasswords, batches : 0 .. MaxMade]
           /\ made'.secrets = made.secrets /\ made'.batches = made.batches
           /\ \A v \in Users : /\ Exists(v) => account'[v] # None /\ account'[v].password >= account[v].password
                               /\ account'[v] # None => account'[v].password <= made'.passwords
<1> DEFINE n == made.passwords + 1
<1>1. /\ made.passwords < MaxPasswords /\ made' = [made EXCEPT !.passwords = n]
      /\ made \in [secrets : 0 .. MaxMade, passwords : 0 .. MaxPasswords, batches : 0 .. MaxMade]
  BY DEF NewPassword, AccessInv, Rows
<1>2. n \in 0 .. MaxPasswords
  BY <1>1, AccessConstants
<1> HIDE DEF n
<1>3. /\ made'.passwords = n /\ made'.secrets = made.secrets /\ made'.batches = made.batches
      /\ made' \in [secrets : 0 .. MaxMade, passwords : 0 .. MaxPasswords, batches : 0 .. MaxMade]
  BY <1>1, <1>2
<1>4. /\ account' \in [Users -> User \cup {None}] /\ account'[u] = a
      /\ \A v \in Users : v # u => account'[v] = account[v]
  BY DEF AccessInv, Rows
<1>5. a # None
  BY AccessConstants
<1>6. \A v \in Users : Exists(v) => account[v].password \in Nat /\ account[v].password < n
  BY <1>1, UserPassword DEF AccessInv, Factors, n
<1>7. \A v \in Users : /\ Exists(v) => account'[v] # None /\ account'[v].password >= account[v].password
                       /\ account'[v] # None => account'[v].password <= made'.passwords
  <2>1. n \in Int
    BY <1>2
  <2> QED BY <1>3, <1>4, <1>5, <1>6, <2>1 DEF Exists
<1> QED BY <1>3, <1>4, <1>7

LEMMA PasswordSteps ==
    ASSUME AccessInv, NEW b \in Browsers, PasswordChanged(b) \/ AccessReset(b)
    PROVE  Sound
<1> DEFINE r == request[b]
<1>1. /\ r # None /\ r.kind \in {"password", "reset"} /\ Answered(b) /\ NewPassword
      /\ session' = [session EXCEPT ![b] = None]
      /\ UNCHANGED <<now, recovery, invitation>>
  BY DEF PasswordChanged, AccessReset, Served
<1>2. /\ r.user \in Users /\ Exists(r.user) /\ r.seen \in User
      /\ r.kind = "reset" => r.what \in Grants /\ grant[r.what] # None
  BY <1>1, Asking DEF AccessInv, Checked
<1>3. PICK u \in Users, seen \in User, what \in {r.what} : r.user = u /\ r.seen = seen /\ r.what = what
  BY <1>2
<1>4. /\ Exists(u)
      /\ r.kind = "reset" => what \in Grants /\ grant[what] # None
  BY <1>2, <1>3 DEF PasswordChanged, AccessReset
<1>5. PICK n : n = made'.passwords
  OBVIOUS
<1>6. n \in 1 .. MaxPasswords
  <2>1. made.passwords < MaxPasswords /\ made.passwords \in Nat /\ n = made.passwords + 1
    BY <1>1, <1>5, Integers DEF NewPassword, AccessInv, Rows
  <2> QED BY <2>1, AccessConstants
<1>7. PICK a \in User : a.password = n /\ account' = [account EXCEPT ![u] = a]
  <2>1. /\ [seen EXCEPT !.password = n, !.mustChange = FALSE] \in User
        /\ [seen EXCEPT !.password = n, !.mustChange = FALSE].password = n
        /\ [seen EXCEPT !.password = n] \in User
        /\ [seen EXCEPT !.password = n].password = n
    BY <1>6 DEF User
  <2>2. \/ account' = [account EXCEPT ![u] = [seen EXCEPT !.password = n, !.mustChange = FALSE]]
        \/ account' = [account EXCEPT ![u] = [seen EXCEPT !.password = n]]
    BY <1>3, <1>5 DEF PasswordChanged, AccessReset
  <2> QED BY <2>1, <2>2
<1>8. /\ account' \in [Users -> User \cup {None}]
      /\ made' \in [secrets : 0 .. MaxMade, passwords : 0 .. MaxPasswords, batches : 0 .. MaxMade]
      /\ made'.secrets = made.secrets /\ made'.batches = made.batches
      /\ \A v \in Users : /\ Exists(v) => account'[v] # None /\ account'[v].password >= account[v].password
                          /\ account'[v] # None => account'[v].password <= made'.passwords
  BY <1>1, <1>4, <1>5, <1>7, NewPasswordSaved
<1>9. /\ request' \in [Browsers -> Request \cup {None}]
      /\ \A c \in Browsers : /\ Requested(c)
                             /\ request'[c] # None /\ request'[c].kind = "set_up" => request'[c] = request[c]
  BY <1>1, GoesOn
<1>10. /\ session' \in [Browsers -> SessionRow \cup {None}]
       /\ \A c \in Browsers : session'[c] = session[c] \/ session'[c] = None
  BY <1>1 DEF AccessInv, Rows
<1> HIDE DEF r
<1>11. CASE PasswordChanged(b)
  <2>1. UNCHANGED <<security, grant, accepted>>
    BY <1>11 DEF PasswordChanged
  <2>2. Rows'
    BY <1>1, <1>8, <1>9, <1>10, <2>1 DEF AccessInv, Rows
  <2>3. \A v \in Users : security'[v].version >= security[v].version /\ KeptOrCleared(v)
    BY <2>1, TablesKeep DEF KeptOrCleared
  <2>4. \A g \in Grants : grant'[g] # None => account'[grant'[g].user] # None
    <3>1. \A g \in Grants : grant[g] # None => grant[g].user \in Users /\ Exists(grant[g].user)
      BY DEF AccessInv, Rows, ResetGrant, Requests
    <3> QED BY <1>8, <2>1, <3>1
  <2>5. recovery' = recovery /\ invitation' = invitation
    BY <1>1
  <2> QED BY <1>8, <1>9, <1>10, <2>1, <2>2, <2>3, <2>4, <2>5, TableStep DEF Recorded
<1>12. CASE AccessReset(b)
  <2> DEFINE item == <<"grant", what>>
  <2>1. /\ what \in Grants /\ grant[what] # None /\ grant[what].open
        /\ grant' = [grant EXCEPT ![what].open = FALSE]
        /\ security' = [security EXCEPT ![u] = revoke_sessions(security[u])]
        /\ Accept(item)
    BY <1>3, <1>4, <1>12 DEF AccessReset, Served, r
  <2>2. /\ security' \in [Users -> AccountSecurity]
        /\ \A v \in Users : security'[v].version >= security[v].version /\ KeptOrCleared(v)
    BY <2>1, Revokes
  <2>3. /\ grant' \in [Grants -> ResetGrant \cup {None}] /\ grant'[what] # None /\ ~grant'[what].open
        /\ \A g \in Grants : /\ grant[g] # None => grant'[g] # None /\ (~grant[g].open => ~grant'[g].open)
                             /\ grant'[g] # None => account'[grant'[g].user] # None
    <3>1. grant \in [Grants -> ResetGrant \cup {None}] /\ None \notin ResetGrant
      BY AccessConstants DEF AccessInv, Rows
    <3> DEFINE closed == [grant[what] EXCEPT !.open = FALSE]
    <3>2. closed \in ResetGrant /\ closed.user = grant[what].user /\ closed.open = FALSE
      BY <2>1, <3>1 DEF ResetGrant
    <3>3. grant' = [grant EXCEPT ![what] = closed]
      BY <2>1
    <3> HIDE DEF closed
    <3>4. \A g \in Grants : grant[g] # None => grant[g].user \in Users /\ Exists(grant[g].user)
      BY DEF AccessInv, Rows, ResetGrant, Requests
    <3>5. \A g \in Grants : grant'[g] = IF g = what THEN closed ELSE grant[g]
      BY <3>1, <3>3
    <3>6. grant' \in [Grants -> ResetGrant \cup {None}]
      BY <3>1, <3>2, <3>3
    <3>7. \A g \in Grants : grant'[g] # None => /\ grant[g] # None /\ grant'[g].user = grant[g].user
                                                /\ (~grant[g].open => ~grant'[g].open)
      BY <2>1, <3>2, <3>5
    <3>8. \A g \in Grants : grant[g] # None => grant'[g] # None
      BY <3>1, <3>2, <3>5
    <3>9. \A g \in Grants : grant'[g] # None => account'[grant'[g].user] # None
      BY <1>8, <3>4, <3>7
    <3>10. grant'[what] # None /\ ~grant'[what].open
      BY <2>1, <3>1, <3>2, <3>5
    <3> QED BY <3>6, <3>7, <3>8, <3>9, <3>10
  <2>4. item \in Items
    BY <2>1 DEF Items
  <2>5. item \notin accepted.ever
    BY <2>1 DEF AccessInv, Codes, Spent
  <2>6. Spent(item)'
    BY <2>3 DEF Spent
  <2>7. Recorded /\ \A x \in accepted'.ever : x \in accepted.ever \/ x[1] # "code"
    <3>1. Accepted(item)
      BY <2>1, <2>5, <2>6 DEF Accepted
    <3>2. accepted'.ever = accepted.ever \cup {item} /\ item[1] = "grant"
      BY <2>1 DEF Accept
    <3> HIDE DEF item
    <3> QED BY <2>4, <3>1, <3>2 DEF Recorded
  <2>8. Rows'
    BY <1>1, <1>8, <1>9, <1>10, <2>1, <2>2, <2>3, <2>4, AcceptTyped DEF AccessInv, Rows
  <2>9. recovery' = recovery /\ invitation' = invitation
    BY <1>1
  <2> QED BY <1>8, <1>9, <1>10, <2>2, <2>3, <2>7, <2>8, <2>9, TableStep
<1> QED BY <1>11, <1>12

\* Accounts from a package, when there are none, or from an invitation.
LEMMA AccountSteps ==
    ASSUME AccessInv,
           \/ \E package \in Packages : ImportAccounts(package)
           \/ \E b \in Browsers : Registered(b)
    PROVE  Sound
<1>1. ASSUME NEW package \in Packages, ImportAccounts(package) PROVE Sound
  <2>1. /\ \A v \in Users : ~Exists(v)
        /\ NewPassword
        /\ UNCHANGED <<now, security, recovery, invitation, grant, session, request, accepted>>
    BY <1>1 DEF ImportAccounts
  <2>2. PICK n : n = made'.passwords
    OBVIOUS
  <2>3. /\ n \in 1 .. MaxPasswords /\ made'.secrets = made.secrets /\ made'.batches = made.batches
        /\ made' \in [secrets : 0 .. MaxMade, passwords : 0 .. MaxPasswords, batches : 0 .. MaxMade]
    BY <2>1, <2>2, PasswordMade DEF AccessInv
  <2>4. PICK role \in [package -> GivenRoles] :
           account' = [u \in Users |-> IF u \in package
                          THEN NewAccount(IF u = Owner THEN "admin" ELSE role[u], TRUE) ELSE None]
    BY <1>1 DEF ImportAccounts
  <2>5. \A u \in package : /\ NewAccount(IF u = Owner THEN "admin" ELSE role[u], TRUE) \in User
                           /\ NewAccount(IF u = Owner THEN "admin" ELSE role[u], TRUE).password = n
    BY <2>2, <2>3 DEF NewAccount, User
  <2>6. account' \in [Users -> User \cup {None}] /\ \A v \in Users : account'[v] # None => account'[v].password = n
    BY <2>4, <2>5
  <2>7. Rows'
    BY <2>1, <2>3, <2>6 DEF AccessInv, Rows
  <2>8. \A v \in Users : /\ Exists(v) => account'[v] # None /\ account'[v].password >= account[v].password
                         /\ account'[v] # None => account'[v].password <= made'.passwords
    <3>1. n \in Int
      BY <2>3
    <3> QED BY <2>1, <2>2, <2>6, <3>1
  <2>9. \A g \in Grants : grant'[g] # None => account'[grant'[g].user] # None
    <3>1. \A g \in Grants : grant[g] # None => grant[g].user \in Users /\ Exists(grant[g].user)
      BY DEF AccessInv, Rows, ResetGrant, Requests
    <3> QED BY <2>1, <3>1
  <2>10. \A v \in Users : security'[v].version >= security[v].version /\ KeptOrCleared(v)
    BY <2>1, TablesKeep DEF KeptOrCleared
  <2> QED BY <2>1, <2>3, <2>7, <2>8, <2>9, <2>10, RequestsSame, TableStep DEF Recorded
<1>2. ASSUME NEW b \in Browsers, Registered(b) PROVE Sound
  <2> DEFINE r == request[b]
  <2>1. r # None /\ r.kind = "register" /\ invitation[r.what] = "open" /\ ~Exists(r.user) /\ Answered(b) /\ NewPassword
    BY <1>2 DEF Registered, Served
  <2>2. r.user \in Users /\ r.what \in Invites
    BY <2>1, Asking DEF AccessInv, Checked
  <2>3. PICK u \in Users, i \in Invites, n \in {made'.passwords} : r.user = u /\ r.what = i /\ n = made'.passwords
    BY <2>2
  <2> DEFINE item == <<"invitation", i>>
             a == [active |-> TRUE, role |-> "student", password |-> n, mustChange |-> FALSE]
             s == Session("login", u, n, FALSE)
  <2>4. /\ ~Exists(u) /\ invitation[i] = "open"
        /\ invitation' = [invitation EXCEPT ![i] = "gone"]
        /\ account' = [account EXCEPT ![u] = a]
        /\ Accept(item) /\ Open(b, s)
        /\ UNCHANGED <<now, security, recovery, grant>>
    BY <1>2, <2>3 DEF Registered, NewAccount
  <2> HIDE DEF r
  <2>5. /\ n \in 1 .. MaxPasswords /\ made'.secrets = made.secrets /\ made'.batches = made.batches
        /\ made' \in [secrets : 0 .. MaxMade, passwords : 0 .. MaxPasswords, batches : 0 .. MaxMade]
        /\ n = made.passwords + 1 /\ made.passwords \in Nat
    BY <2>1, <2>3, PasswordMade DEF AccessInv
  <2>6. a \in User /\ a.password = n /\ a # None
    <3>1. a \in User /\ a.password = n
      BY <2>5 DEF User
    <3> HIDE DEF a
    <3> QED BY <3>1, AccessConstants
  <2>7. s \in SessionRow /\ s.user = u /\ s.hash = n /\ s.version = security[u].version
    <3>1. security[u].version \in Nat \ {0}
      BY DEF AccessInv, Rows, AccountSecurity
    <3> QED BY <2>5, <3>1 DEF Session, SessionRow
  <2> HIDE DEF a, s
  <2>8. /\ account' \in [Users -> User \cup {None}] /\ account'[u] = a
        /\ \A v \in Users : v # u => account'[v] = account[v]
    BY <2>4, <2>6 DEF AccessInv, Rows
  <2>9. \A v \in Users : /\ Exists(v) => account'[v] # None /\ account'[v].password >= account[v].password
                         /\ account'[v] # None => account'[v].password <= made'.passwords
    <3>1. \A v \in Users : Exists(v) => /\ account[v].password \in Nat /\ account[v].password <= made.passwords
                                        /\ account[v].password >= account[v].password
      BY UserPassword DEF AccessInv, Factors
    <3> QED BY <2>3, <2>4, <2>5, <2>6, <2>8, <3>1 DEF Exists
  <2>10. Begins(s)
    BY <2>4, <2>5, <2>6, <2>7, <2>8, Integers DEF Begins, AccessInv
  <2>11. /\ request' \in [Browsers -> Request \cup {None}]
         /\ \A c \in Browsers : /\ Requested(c)
                                /\ request'[c] # None /\ request'[c].kind = "set_up" => request'[c] = request[c]
    BY <2>1, GoesOn DEF r
  <2>12. /\ session' \in [Browsers -> SessionRow \cup {None}]
         /\ \A c \in Browsers : session'[c] = session[c] \/ Begins(session'[c])
    BY <2>4, <2>7, <2>10 DEF Open, AccessInv, Rows
  <2>13. invitation' \in [Invites -> Invitation] /\ invitation'[i] = "gone"
         /\ \A j \in Invites : invitation[j] = "gone" => invitation'[j] = "gone"
    BY <2>4 DEF AccessInv, Rows, Invitation
  <2>14. item \in Items
    BY DEF Items
  <2>15. item \notin accepted.ever
    BY <2>4 DEF AccessInv, Codes, Spent
  <2>16. Spent(item)'
    BY <2>13 DEF Spent
  <2>17. Recorded /\ \A x \in accepted'.ever : x \in accepted.ever \/ x[1] # "code"
    <3>1. Accepted(item)
      BY <2>4, <2>15, <2>16 DEF Accepted
    <3>2. accepted'.ever = accepted.ever \cup {item} /\ item[1] = "invitation"
      BY <2>4 DEF Accept
    <3> HIDE DEF item
    <3> QED BY <2>14, <3>1, <3>2 DEF Recorded
  <2>18. accepted' \in [ever : SUBSET Items, again : SUBSET Items]
    BY <2>4, <2>14, AcceptTyped DEF AccessInv
  <2>19. Rows'
    BY <2>4, <2>5, <2>8, <2>11, <2>12, <2>13, <2>18 DEF AccessInv, Rows
  <2>20. \A g \in Grants : /\ grant[g] # None => grant'[g] # None /\ (~grant[g].open => ~grant'[g].open)
                           /\ grant'[g] # None => account'[grant'[g].user] # None
    <3>1. \A g \in Grants : grant[g] # None => grant[g].user \in Users /\ Exists(grant[g].user)
      BY DEF AccessInv, Rows, ResetGrant, Requests
    <3> QED BY <2>4, <2>9, <3>1
  <2>21. \A v \in Users : security'[v].version >= security[v].version /\ KeptOrCleared(v) /\ recovery'[v] \subseteq recovery[v]
    BY <2>4, TablesKeep DEF KeptOrCleared
  <2> QED BY <2>5, <2>9, <2>11, <2>12, <2>13, <2>17, <2>19, <2>20, <2>21, TableStep
<1> QED BY <1>1, <1>2

\* Invitations and grants that are given, withdrawn or run out.
LEMMA InvitationSteps ==
    ASSUME AccessInv, Expire \/ \E b \in Browsers, i \in Invites : Invite(b, i) \/ RevokeInvite(b, i)
    PROVE  Sound
<1>1. UNCHANGED <<now, account, security, recovery, session, request, made, accepted>>
  BY DEF Expire, Invite, RevokeInvite
<1>2. /\ invitation' \in [Invites -> Invitation]
      /\ \A j \in Invites : invitation[j] = "gone" => invitation'[j] = "gone"
  BY DEF Expire, Invite, RevokeInvite, AccessInv, Rows, Invitation
<1>3. /\ grant' \in [Grants -> ResetGrant \cup {None}]
      /\ \A g \in Grants : /\ grant[g] # None => grant'[g] # None /\ (~grant[g].open => ~grant'[g].open)
                           /\ grant'[g] # None => grant[g] # None /\ grant'[g].user = grant[g].user
  <2>1. grant \in [Grants -> ResetGrant \cup {None}] /\ None \notin ResetGrant
    BY AccessConstants DEF AccessInv, Rows
  <2>2. CASE UNCHANGED grant
    BY <2>1, <2>2
  <2>3. ASSUME NEW h \in Grants, grant[h] # None, grant' = [grant EXCEPT ![h].open = FALSE]
        PROVE  /\ grant' \in [Grants -> ResetGrant \cup {None}]
               /\ \A g \in Grants : /\ grant[g] # None => grant'[g] # None /\ (~grant[g].open => ~grant'[g].open)
                                    /\ grant'[g] # None => grant[g] # None /\ grant'[g].user = grant[g].user
    <3> DEFINE closed == [grant[h] EXCEPT !.open = FALSE]
    <3>1. closed \in ResetGrant /\ closed.user = grant[h].user /\ closed.open = FALSE
      BY <2>1, <2>3 DEF ResetGrant
    <3>2. grant' = [grant EXCEPT ![h] = closed]
      BY <2>3
    <3> HIDE DEF closed
    <3> QED BY <2>1, <2>3, <3>1, <3>2
  <2>4. UNCHANGED grant \/ \E h \in Grants : grant[h] # None /\ grant' = [grant EXCEPT ![h].open = FALSE]
    BY DEF Expire, Invite, RevokeInvite
  <2> QED BY <2>2, <2>3, <2>4
<1>4. Rows'
  BY <1>1, <1>2, <1>3 DEF AccessInv, Rows
<1>5. \A g \in Grants : grant'[g] # None => account'[grant'[g].user] # None
  BY <1>1, <1>3, TablesKeep
<1>6. \A v \in Users : /\ security'[v].version >= security[v].version /\ KeptOrCleared(v)
                       /\ Exists(v) => account'[v] # None /\ account'[v].password >= account[v].password
                       /\ account'[v] # None => account'[v].password <= made'.passwords
  BY <1>1, TablesKeep DEF KeptOrCleared, Exists
<1> QED BY <1>1, <1>2, <1>3, <1>4, <1>5, <1>6, RequestsSame, TableStep DEF Recorded

\* A new secret is made: it is greater than any in use.
LEMMA SetUpStep ==
    ASSUME AccessInv, NEW b \in Browsers, SetUp(b)
    PROVE  Sound
<1>1. session[b] # None /\ made.secrets < MaxMade /\ UNCHANGED <<now, rows, session, accepted>>
  BY DEF SetUp, Pending
<1>2. PICK u \in Users, v \in Nat : u = session[b].user /\ Exists(u) /\ v = session[b].version
  BY <1>1, SessionExists, HasSession DEF AccessInv
<1>3. PICK n \in 1 .. MaxMade : n = made.secrets + 1
  BY <1>1, Integers, AccessConstants DEF AccessInv
<1>4. PICK d \in Offsets : request' = [request EXCEPT ![b] =
         [Blank("set_up", u) EXCEPT !.token = <<"otp", n, now + d>>, !.version = v]]
  BY <1>2, <1>3 DEF SetUp, Asks
<1>5. PICK m \in Int : m = now + d
  BY AccessConstants DEF AccessInv, Rows
<1> DEFINE token == <<"otp", n, m>>
           q1 == [Blank("set_up", u) EXCEPT !.token = token]
<1>6. token \in Otp /\ token \in Token /\ token[2] = n
  BY DEF Otp, Token
<1> HIDE DEF token
<1>7. /\ Blank("set_up", u) \in Request /\ Blank("set_up", u).kind = "set_up" /\ Blank("set_up", u).user = u
      /\ Blank("set_up", u).seen = account[u]
  BY BlankFields DEF Kinds, AccessInv
<1>8. q1 \in Request /\ q1.kind = "set_up" /\ q1.user = u /\ q1.seen = account[u] /\ q1.token = token
  BY <1>6, <1>7, RequestFields
<1>9. request' = [request EXCEPT ![b] = [q1 EXCEPT !.version = v]]
  BY <1>4, <1>5 DEF token
<1> HIDE DEF q1
<1>10. PICK q \in Request : /\ q.kind = "set_up" /\ q.user = u /\ q.seen = account[u] /\ q.token = token
                            /\ request' = [request EXCEPT ![b] = q]
  <2> DEFINE q2 == [q1 EXCEPT !.version = v]
  <2>1. q2 \in Request /\ q2.kind = q1.kind /\ q2.user = q1.user /\ q2.seen = q1.seen /\ q2.token = q1.token
    BY <1>8, RequestFields
  <2>2. request' = [request EXCEPT ![b] = q2]
    BY <1>9
  <2> HIDE DEF q2
  <2> QED BY <1>8, <2>1, <2>2
<1>11. request' = [request EXCEPT ![b] = q] /\ request \in [Browsers -> Request \cup {None}]
  BY <1>10 DEF AccessInv, Rows
<1>12. request'[b] = q /\ \A c \in Browsers : c # b => request'[c] = request[c]
  BY <1>11
<1>13. /\ made' = [made EXCEPT !.secrets = n]
       /\ made \in [secrets : 0 .. MaxMade, passwords : 0 .. MaxPasswords, batches : 0 .. MaxMade]
  BY <1>3 DEF SetUp, AccessInv, Rows
<1>14. /\ made' \in [secrets : 0 .. MaxMade, passwords : 0 .. MaxPasswords, batches : 0 .. MaxMade]
       /\ made'.secrets = n /\ made'.batches = made.batches /\ made'.passwords = made.passwords
  BY <1>13
<1>15. Rows'
  BY <1>1, <1>10, <1>11, <1>14 DEF AccessInv, Rows, rows
<1>16. Checked(q)'
  <2>1. account[u] \in User /\ account[u].password \in 1 .. MaxPasswords
    BY <1>2, UserPassword DEF AccessInv
  <2>2. account' = account
    BY <1>1 DEF rows
  <2> QED BY <1>2, <1>6, <1>10, <1>14, <2>1, <2>2 DEF Checked, Exists
<1>17. Forward
  BY <1>1, <1>3, <1>14, TablesKeep, Integers DEF Forward, rows, Exists, AccessInv
<1>18. Onward
  BY <1>1, <1>3, <1>14, Integers DEF Onward, rows, AccessInv, Codes
<1>19. Factors'
  BY <1>1, <1>14 DEF AccessInv, Factors, Exists, rows
\* Secrets that are in use are not greater than made.secrets.
<1>20. \A x \in accepted.ever : Uses(x, n) => FALSE
  <2> SUFFICES ASSUME NEW x \in accepted.ever, Uses(x, n) PROVE FALSE
    OBVIOUS
  <2>1. x[3][2] <= made.secrets
    BY DEF Uses, AccessInv, Codes, Spent
  <2> QED BY <1>3, <2>1, Integers DEF Uses, AccessInv
<1>21. Unused(n)
  <2>1. \A w \in Users : security[w].secret # n
    BY <1>3, Integers DEF AccessInv, Codes
  <2> QED BY <1>20, <2>1 DEF Unused, Uses
<1>22. \A c \in Browsers : request[c] # None /\ request[c].kind = "set_up" => request[c].token[2] # n
  <2> SUFFICES ASSUME NEW c \in Browsers, request[c] # None, request[c].kind = "set_up"
               PROVE  request[c].token[2] # n
    OBVIOUS
  <2>1. request[c].token[2] \in 1 .. made.secrets
    BY Asking DEF AccessInv, Checked
  <2> QED BY <1>3, <2>1, Integers DEF AccessInv
<1>23. SetUps'
  <2> SUFFICES ASSUME NEW c \in Browsers, request'[c] # None, request'[c].kind = "set_up"
               PROVE  /\ Unused(request[c].token[2])'
                      /\ \A e \in Browsers : (e # c /\ request'[e] # None /\ request'[e].kind = "set_up")
                                                => request'[e].token[2] # request'[c].token[2]
    BY DEF SetUps
  <2>1. \A k : Unused(k) => Unused(k)'
    BY <1>1 DEF Unused, rows
  <2>2. CASE c = b
    <3>1. request'[c].token[2] = n
      BY <1>6, <1>10, <1>12, <2>2
    <3>2. Unused(n)'
      BY <1>21, <2>1
    <3>3. Unused(request[c].token[2])'
      BY <3>1, <3>2 DEF Unused
    <3>4. \A e \in Browsers : (e # c /\ request'[e] # None /\ request'[e].kind = "set_up")
                                  => request'[e].token[2] # n
      BY <1>12, <1>22, <2>2
    <3> QED BY <3>1, <3>3, <3>4
  <2>3. CASE c # b
    <3>1. request'[c] = request[c] /\ Unused(request[c].token[2]) /\ request[c].token[2] # n
      BY <1>12, <1>22, <2>3 DEF AccessInv, Codes, SetUps
    <3>2. request'[b].token[2] = n
      BY <1>6, <1>10, <1>12
    <3>3. Unused(request[c].token[2])'
      BY <2>1, <3>1 DEF Unused
    <3>4. ASSUME NEW e \in Browsers, e # c, request'[e] # None, request'[e].kind = "set_up"
          PROVE  request'[e].token[2] # request'[c].token[2]
      <4>1. CASE e = b
        BY <3>1, <3>2, <4>1
      <4>2. CASE e # b
        BY <1>12, <2>2, <2>3, <3>1, <3>4, <4>2 DEF AccessInv, Codes, SetUps
      <4> QED BY <4>1, <4>2
    <3> QED BY <3>3, <3>4
  <2> QED BY <2>2, <2>3
<1>24. \A c \in Browsers : Requested(c)
  BY <1>10, <1>12, <1>16 DEF Requested
<1>25. \A g \in Grants : grant'[g] # None => account'[grant'[g].user] # None
  BY <1>1, TablesKeep DEF rows
<1> QED BY <1>1, <1>15, <1>17, <1>18, <1>19, <1>23, <1>24, <1>25, InvariantFollows DEF Recorded

\* The second factor is switched on with the secret that was made for it.
LEMMA EnabledStep ==
    ASSUME AccessInv, NEW b \in Browsers, Enabled(b)
    PROVE  Sound
<1>1. /\ request[b] # None /\ request[b].kind = "set_up" /\ Moves(b, "enter")
      /\ UNCHANGED <<now, account, invitation, grant, session>>
  BY DEF Enabled, Served
<1>2. /\ request[b].user \in Users /\ request[b].token \in Otp /\ request[b].token[2] \in 1 .. made.secrets
      /\ account[request[b].user] # None
  BY <1>1, Asking DEF AccessInv, Checked, Exists
<1>3. PICK u \in Users, token \in Otp : u = request[b].user /\ token = request[b].token
  BY <1>2
<1> DEFINE item == <<"code", u, token>>
           n == token[2]
           c == token[3]
           new == [security[u] EXCEPT !.enabled = TRUE, !.secret = n, !.last_counter = c]
<1>4. /\ counter_for(n, token) /\ security' = [security EXCEPT ![u] = new]
      /\ Accept(item) /\ new_recovery_codes(u)
  BY <1>3 DEF Enabled
<1>5. n \in 1 .. made.secrets /\ n \in 0 .. MaxMade /\ c \in 0 .. MaxTime + 1 /\ token[1] = "otp"
  BY <1>2, <1>3, <1>4, AccessConstants DEF counter_for, AccessInv, Rows, Otp
<1>6. Unused(n) /\ \A e \in Browsers : (e # b /\ request[e] # None /\ request[e].kind = "set_up") => request[e].token[2] # n
  BY <1>1, <1>3 DEF AccessInv, Codes, SetUps
<1> HIDE DEF n, c
<1>7. security \in [Users -> AccountSecurity] /\ security[u] \in AccountSecurity
  BY DEF AccessInv, Rows
<1>8. /\ new \in AccountSecurity /\ new.version = security[u].version /\ new.secret = n
      /\ new.enabled = TRUE /\ new.last_counter = c
  <2>1. c \in -1 .. MaxTime + 1 /\ n \in 0 .. MaxMade
    BY <1>5, AccessConstants
  <2>2. new \in AccountSecurity
    BY <1>7, <2>1 DEF AccountSecurity
  <2>3. new.version = security[u].version /\ new.secret = n /\ new.last_counter = c
    BY <1>7, <2>1 DEF AccountSecurity
  <2>4. new.enabled
    BY <1>7 DEF AccountSecurity
  <2> HIDE DEF new
  <2>5. new.enabled \in BOOLEAN
    BY <2>2 DEF AccountSecurity
  <2> QED BY <2>2, <2>3, <2>4, <2>5
<1> HIDE DEF new
<1>9. /\ security' \in [Users -> AccountSecurity] /\ security'[u] = new
      /\ \A v \in Users : v # u => security'[v] = security[v]
  BY <1>4, <1>7, <1>8
<1>10. /\ recovery' \in [Users -> SUBSET RecoveryCode] /\ made'.batches \in 1 .. MaxMade
       /\ made' = [made EXCEPT !.batches = made'.batches] /\ made'.batches = made.batches + 1
       /\ made'.passwords = made.passwords
       /\ \A v \in Users : v # u => recovery'[v] = recovery[v]
       /\ \A x \in recovery'[u] : x[1] = "recovery" /\ x[2] = made.batches + 1
  BY <1>4, NewList DEF AccessInv
<1>11. /\ made' \in [secrets : 0 .. MaxMade, passwords : 0 .. MaxPasswords, batches : 0 .. MaxMade]
       /\ made'.secrets = made.secrets
  BY <1>10 DEF AccessInv, Rows
<1>12. /\ request' \in [Browsers -> Request \cup {None}]
       /\ \A e \in Browsers : Requested(e)
       /\ \A e \in Browsers : request'[e] # None /\ request'[e].kind = "set_up"
                                 => request'[e] = request[e] /\ e # b
  BY <1>1, GoesOn
<1>13. item \in Items
  BY DEF Items, Token
<1>14. accepted' \in [ever : SUBSET Items, again : SUBSET Items]
  BY <1>4, <1>13, AcceptTyped DEF AccessInv
<1>15. Rows'
  BY <1>1, <1>9, <1>10, <1>11, <1>12, <1>14 DEF AccessInv, Rows
<1>16. Forward
  <2>1. \A v \in Users : security'[v].version >= security[v].version
    BY <1>8, <1>9, TablesKeep
  <2> QED BY <1>1, <1>11, <2>1, TablesKeep, Integers DEF Forward, Exists, AccessInv
<1>17. Factors'
  <2> SUFFICES ASSUME NEW v \in Users
               PROVE  /\ security'[v].enabled <=> security'[v].secret > 0
                      /\ security'[v].last_counter >= 0 <=> security'[v].enabled
                      /\ recovery'[v] # {} => account'[v] # None
                      /\ account'[v] # None => account'[v].password <= made'.passwords
    BY DEF Factors, Exists
  <2>1. CASE v = u
    BY <1>1, <1>2, <1>3, <1>5, <1>8, <1>9, <1>10, <2>1, TablesKeep
  <2>2. CASE v # u
    BY <1>1, <1>9, <1>10, <2>2 DEF AccessInv, Factors, Exists
  <2> QED BY <2>1, <2>2
<1>18. Onward
  <2> SUFFICES ASSUME NEW v \in Users
               PROVE  /\ security'[v].secret \in {security[v].secret, 0} \/ Unused(security'[v].secret)
                      /\ security'[v].secret = security[v].secret
                            => security'[v].last_counter >= security[v].last_counter
                      /\ security'[v].secret <= made'.secrets
                      /\ \A x \in recovery'[v] : x \in recovery[v] \/ x[2] = made.batches + 1
                      /\ \A x \in recovery'[v] : x[2] <= made'.batches
    BY <1>1, <1>10, <1>11, Integers DEF Onward, AccessInv
  <2>1. CASE v = u
    <3>1. security[u].secret # n
      BY <1>6 DEF Unused
    <3>2. \A x \in recovery'[u] : x[2] = made.batches + 1 /\ x[2] <= made'.batches
      BY <1>10, Integers DEF AccessInv
    <3> QED BY <1>5, <1>6, <1>8, <1>9, <1>11, <2>1, <3>1, <3>2
  <2>2. CASE v # u
    <3>1. /\ security[v].secret <= made.secrets
          /\ \A x \in recovery[v] : x[2] <= made.batches /\ x[2] \in Nat
      BY DEF AccessInv, Codes, Rows, RecoveryCode
    <3>2. \A x \in recovery'[v] : x \in recovery[v] /\ x[2] <= made'.batches
      BY <1>10, <2>2, <3>1, Integers DEF AccessInv
    <3> QED BY <1>9, <1>11, <2>2, <3>1, <3>2, Integers DEF AccessInv
  <2> QED BY <2>1, <2>2
<1>19. SetUps'
  <2>1. ASSUME NEW e \in Browsers, request'[e] # None, request'[e].kind = "set_up"
        PROVE  /\ request'[e] = request[e]
               /\ \A v \in Users : \/ security'[v].secret \in {security[v].secret, 0}
                                   \/ security'[v].secret # request[e].token[2]
               /\ \A x \in accepted'.ever : x \in accepted.ever \/ ~Uses(x, request[e].token[2])
    <3>1. request'[e] = request[e] /\ request[e].token[2] # n
      BY <1>6, <1>12, <2>1
    <3>2. ~Uses(item, request[e].token[2])
      BY <3>1 DEF Uses, n
    <3>3. accepted'.ever = accepted.ever \cup {item}
      BY <1>4 DEF Accept
    <3> HIDE DEF item
    <3> QED BY <1>8, <1>9, <3>1, <3>2, <3>3
  <2> QED BY <1>15, <2>1, SetUpsFollow DEF AccessInv, Codes
<1>20. item \notin accepted.ever
  BY <1>5, <1>6 DEF Unused, n
<1>21. Spent(item)'
  <2> SUFFICES token[2] <= made'.secrets /\ (token[2] = security'[u].secret => token[3] <= security'[u].last_counter)
    BY <1>5 DEF Spent
  <2> QED BY <1>5, <1>8, <1>9, <1>11, Integers DEF AccessInv, n, c
<1>22. Recorded
  <2>1. Accepted(item)
    BY <1>4, <1>20, <1>21 DEF Accepted
  <2> QED BY <1>13, <2>1 DEF Recorded
<1>23. \A g \in Grants : grant'[g] # None => account'[grant'[g].user] # None
  BY <1>1, TablesKeep
<1> QED BY <1>1, <1>12, <1>15, <1>16, <1>17, <1>18, <1>19, <1>22, <1>23, InvariantFollows

\* The three forms of the page of one's own security.
LEMMA ActOnSelfStep ==
    ASSUME AccessInv, NEW b \in Browsers, ActOnSelf(b)
    PROVE  Sound
<1>1. /\ request[b] # None /\ request[b].kind = "act" /\ Answered(b)
      /\ UNCHANGED <<now, account, invitation, grant, accepted>>
  BY DEF ActOnSelf, Served
<1>2. /\ request[b].user \in Users /\ request[b].seen \in User /\ Exists(request[b].user)
      /\ request[b].seen.password <= account[request[b].user].password
  BY <1>1, Asking DEF AccessInv, Checked
<1>3. PICK u \in Users, seen \in User : u = request[b].user /\ seen = request[b].seen
  BY <1>2
<1>4. /\ request' \in [Browsers -> Request \cup {None}]
      /\ \A c \in Browsers : /\ Requested(c)
                             /\ request'[c] # None /\ request'[c].kind = "set_up" => request'[c] = request[c]
  BY <1>1, GoesOn
<1>5. \/ /\ security' = [security EXCEPT ![u] = revoke_sessions(security[u])]
         /\ session' = [session EXCEPT ![b] = None]
         /\ UNCHANGED <<recovery, made>>
      \/ new_recovery_codes(u) /\ UNCHANGED <<security, session>>
      \/ /\ session' = [session EXCEPT ![b] = Session("pending", u, seen.password, FALSE)]
         /\ UNCHANGED <<security, recovery, made>>
  BY <1>3 DEF ActOnSelf, Continue
<1>6. CASE /\ security' = [security EXCEPT ![u] = revoke_sessions(security[u])]
           /\ session' = [session EXCEPT ![b] = None]
           /\ UNCHANGED <<recovery, made>>
  <2>1. /\ security' \in [Users -> AccountSecurity]
        /\ \A v \in Users : security'[v].version >= security[v].version /\ KeptOrCleared(v)
    BY <1>6, Revokes
  <2>3. /\ session' \in [Browsers -> SessionRow \cup {None}]
        /\ \A c \in Browsers : session'[c] = session[c] \/ session'[c] = None
    BY <1>6 DEF AccessInv, Rows
  <2>5. Rows'
    BY <1>1, <1>4, <1>6, <2>1, <2>3 DEF AccessInv, Rows
  <2>6. \A v \in Users : /\ Exists(v) => account'[v] # None /\ account'[v].password >= account[v].password
                         /\ account'[v] # None => account'[v].password <= made'.passwords
    BY <1>1, <1>6, TablesKeep DEF Exists
  <2>7. \A g \in Grants : /\ grant[g] # None => grant'[g] # None /\ (~grant[g].open => ~grant'[g].open)
                          /\ grant'[g] # None => account'[grant'[g].user] # None
    BY <1>1, TablesKeep
  <2> QED BY <1>1, <1>4, <1>6, <2>1, <2>3, <2>5, <2>6, <2>7, TableStep DEF Recorded
<1>7. CASE new_recovery_codes(u) /\ UNCHANGED <<security, session>>
  <2>1. /\ recovery' \in [Users -> SUBSET RecoveryCode] /\ made'.batches \in 1 .. MaxMade
        /\ made' = [made EXCEPT !.batches = made'.batches] /\ made'.batches = made.batches + 1
        /\ made'.passwords = made.passwords
        /\ \A v \in Users : v # u => recovery'[v] = recovery[v]
        /\ \A x \in recovery'[u] : x[1] = "recovery" /\ x[2] = made.batches + 1
    BY <1>7, NewList DEF AccessInv
  <2>2. /\ made' \in [secrets : 0 .. MaxMade, passwords : 0 .. MaxPasswords, batches : 0 .. MaxMade]
        /\ made'.secrets = made.secrets
    BY <2>1 DEF AccessInv, Rows
  <2>3. Rows'
    BY <1>1, <1>4, <1>7, <2>1, <2>2 DEF AccessInv, Rows
  <2>4. Forward
    BY <1>1, <1>7, <2>2, TablesKeep, Integers DEF Forward, Exists, AccessInv
  <2>5. Factors'
    <3> SUFFICES ASSUME NEW v \in Users
                 PROVE  /\ security'[v].enabled <=> security'[v].secret > 0
                        /\ security'[v].last_counter >= 0 <=> security'[v].enabled
                        /\ recovery'[v] # {} => account'[v] # None
                        /\ account'[v] # None => account'[v].password <= made'.passwords
      BY DEF Factors, Exists
    <3>1. v # u => recovery'[v] = recovery[v]
      BY <2>1
    <3> QED BY <1>1, <1>2, <1>3, <1>7, <2>1, <3>1 DEF AccessInv, Factors, Exists
  <2>6. Onward
    <3>1. \A v \in Users : /\ security[v].secret <= made.secrets
                           /\ \A x \in recovery[v] : x[2] <= made.batches /\ x[2] \in Nat
      BY DEF AccessInv, Codes, Rows, RecoveryCode
    <3>2. \A v \in Users : \A x \in recovery'[v] : x \in recovery[v] \/ x[2] = made.batches + 1
      BY <2>1
    <3>3. \A v \in Users : \A x \in recovery'[v] : x[2] <= made'.batches
      BY <2>1, <3>1, <3>2, Integers DEF AccessInv
    <3> QED BY <1>1, <1>7, <2>1, <2>2, <3>1, <3>2, <3>3, Integers DEF Onward, AccessInv
  <2>7. SetUps'
    BY <1>1, <1>4, <1>7, <2>3, SetUpsSame DEF AccessInv, Codes
  <2>8. \A g \in Grants : grant'[g] # None => account'[grant'[g].user] # None
    BY <1>1, TablesKeep
  <2> QED BY <1>1, <1>4, <1>7, <2>3, <2>4, <2>5, <2>6, <2>7, <2>8, InvariantFollows DEF Recorded
<1>8. CASE /\ session' = [session EXCEPT ![b] = Session("pending", u, seen.password, FALSE)]
           /\ UNCHANGED <<security, recovery, made>>
  <2>1. PICK hash \in 1 .. MaxPasswords : hash = seen.password
    BY DEF User
  <2> DEFINE s == Session("pending", u, hash, FALSE)
  <2>2. s \in SessionRow /\ s.user = u /\ s.hash = hash /\ s.version = security[u].version
    <3>1. security[u].version \in Nat \ {0}
      BY DEF AccessInv, Rows, AccountSecurity
    <3> QED BY <3>1 DEF Session, SessionRow
  <2>3. session' = [session EXCEPT ![b] = s]
    BY <1>8, <2>1
  <2> HIDE DEF s
  <2>4. Begins(s)
    BY <1>1, <1>2, <1>3, <1>8, <2>1, <2>2, Integers DEF Begins, AccessInv, Exists
  <2>5. now' \in 1 .. MaxTime /\ UNCHANGED rows
    BY <1>1, <1>8 DEF AccessInv, Rows, rows
  <2> QED BY <1>1, <1>4, <1>8, <2>2, <2>3, <2>4, <2>5, SessionStep
<1> QED BY <1>5, <1>6, <1>7, <1>8

(***************************************************************************)
(* The invariant holds at first and after every step.                      *)
(***************************************************************************)
LEMMA InvariantInit == Init => AccessInv
<1> SUFFICES ASSUME Init PROVE AccessInv
  OBVIOUS
<1>1. Rows
  BY RowsInit
<1>2. \A u \in Users : account[u] # None => u = Owner /\ account[u].password = 1 /\ made.passwords = 1
  BY DEF Init
<1>3. \A u \in Users : /\ security[u].enabled <=> security[u].secret > 0
                       /\ security[u].last_counter >= 0 <=> security[u].enabled
                       /\ security[u].secret <= made.secrets
  BY DEF Init, NoSecurity
<1>4. \A u \in Users : /\ recovery[u] # {} => account[u] # None
                       /\ \A token \in recovery[u] : token[2] <= made.batches
  <2>1. \A token \in List(1) : token[2] = 1
    BY DEF List
  <2>2. [active |-> TRUE, role |-> "admin", password |-> 1, mustChange |-> FALSE] # None
    <3>1. [active |-> TRUE, role |-> "admin", password |-> 1, mustChange |-> FALSE] \in User
      BY AccessConstants DEF User
    <3> QED BY <3>1, AccessConstants
  <2> QED BY <2>1, <2>2 DEF Init
<1>5. Factors
  BY <1>2, <1>3, <1>4 DEF Factors, Exists
<1>6. Requests /\ Sessions
  BY DEF Init, Requests, Sessions
<1>7. Codes
  BY <1>3, <1>4 DEF Init, Codes, SetUps, OneTimeUse
<1> QED BY <1>1, <1>5, <1>6, <1>7 DEF AccessInv

LEMMA InvariantStep == AccessInv /\ [Next]_vars => Sound
<1> SUFFICES ASSUME AccessInv, [Next]_vars PROVE Sound
  OBVIOUS
<1>1. ASSUME NEW b \in Browsers,
             \/ Visit(b) \/ SignOut(b) \/ SignedIn(b) \/ Verify(b) \/ Verified(b) \/ SetUp(b) \/ Enabled(b)
             \/ Entered(b) \/ Refused(b) \/ Confirmed(b) \/ ActOnSelf(b) \/ Act(b)
             \/ ChangePassword(b) \/ PasswordChanged(b) \/ AccessReset(b) \/ Registered(b)
             \/ \E u \in Users : SignIn(b, u) \/ Confirm(b, u)
             \/ \E g \in Grants : ResetAccess(b, g)
             \/ \E i \in Invites : Invite(b, i) \/ RevokeInvite(b, i) \/ \E u \in Others : Register(b, i, u)
      PROVE  Sound
  <2>1. CASE Visit(b) \/ SignOut(b) \/ SignedIn(b) \/ Entered(b) \/ Refused(b)
    BY <2>1, SessionSteps
  <2>2. CASE Verify(b) \/ ChangePassword(b) \/ \E u \in Users : SignIn(b, u) \/ Confirm(b, u)
    BY <2>2, QuietSteps
  <2>3. CASE (\E g \in Grants : ResetAccess(b, g)) \/ \E i \in Invites : \E u \in Others : Register(b, i, u)
    BY <2>3, QuietSteps
  <2>4. CASE Verified(b) \/ Confirmed(b)
    BY <2>4, CodeSteps
  <2>5. CASE SetUp(b)
    BY <2>5, SetUpStep
  <2>6. CASE Enabled(b)
    BY <2>6, EnabledStep
  <2>7. CASE ActOnSelf(b)
    BY <2>7, ActOnSelfStep
  <2>8. CASE Act(b)
    BY <2>8, ActSteps
  <2>9. CASE PasswordChanged(b) \/ AccessReset(b)
    BY <2>9, PasswordSteps
  <2>10. CASE Registered(b)
    BY <2>10, AccountSteps
  <2>11. CASE \E i \in Invites : Invite(b, i) \/ RevokeInvite(b, i)
    BY <2>11, InvitationSteps
  <2> QED BY <1>1, <2>1, <2>2, <2>3, <2>4, <2>5, <2>6, <2>7, <2>8, <2>9, <2>10, <2>11
<1>2. CASE \E package \in Packages : ImportAccounts(package)
  BY <1>2, AccountSteps
<1>3. CASE RecoverOwner
  BY <1>3, ActSteps
<1>4. CASE Expire
  BY <1>4, InvitationSteps
<1>5. CASE Tick
  <2>1. now' \in 1 .. MaxTime /\ request' \in [Browsers -> Request \cup {None}]
    BY <1>5, AccessConstants DEF Tick, AccessInv, Rows
  <2>2. SetUps' /\ Rows'
    BY <1>5, <2>1 DEF Tick, AccessInv, Rows, Codes, SetUps, Unused, rows
  <2> QED BY <1>5, <2>2, RequestsSame, TablesSame, InvariantFollows DEF Tick, Recorded
<1>6. CASE UNCHANGED vars
  <2>1. request' \in [Browsers -> Request \cup {None}] /\ UNCHANGED <<now, rows, session, request, made, accepted>>
    BY <1>6 DEF vars, AccessInv, Rows
  <2>2. SetUps' /\ Rows'
    BY <2>1 DEF AccessInv, Rows, Codes, SetUps, Unused, rows
  <2> QED BY <2>1, <2>2, RequestsSame, TablesSame, InvariantFollows DEF Recorded
<1> QED BY <1>1, <1>2, <1>3, <1>4, <1>5, <1>6 DEF Next

\* In every reachable state.
LEMMA InvariantHolds == Spec => []AccessInv
<1>1. AccessInv /\ [Next]_vars => AccessInv'
  BY InvariantStep DEF Sound
<1> QED BY <1>1, InvariantInit, PTL DEF Spec

\* A code of the app or of a list, a grant, an invitation is accepted once,
\* however many requests bring it and in whatever order their transactions run
\* (consume_otp, security_setup, reset_access, register).
THEOREM Access_OneTimeUse == Spec => []OneTimeUse
<1>1. AccessInv => OneTimeUse
  BY DEF AccessInv, Codes
<1> QED BY <1>1, InvariantHolds, PTL

(***************************************************************************)
(* Sessions that were ended.                                               *)
(***************************************************************************)
Stale(s) == s.version < security[s.user].version \/ s.hash < account[s.user].password

\* A request that ends by opening the next session of its browser.
Opens(r) ==
    /\ r # None
    /\ r.kind \in {"verify", "set_up", "enter"} \/ (r.kind = "act" /\ r.token = None)

\* It will be refused, or open a session with a password that has changed.
Dead(r) == r.seen.password < account[r.user].password
           \/ (r.kind = "set_up" /\ r.version < security[r.user].version)

\* The session of a browser that was shut out is stale, and what its request
\* opens will be; a request opens sessions of the account it began with.
Kept(b) ==
    /\ revoked[b] \in {"out", "late"} /\ session[b] # None => Stale(session[b])
    /\ Opens(request[b]) =>
          LET r == request[b] IN
          /\ session[b] # None /\ session[b].user = r.user
          /\ r.kind = "set_up" => r.version <= security[r.user].version
          /\ revoked[b] = "out" => Dead(r)

Shut ==
    /\ revoked \in [Browsers -> {"no", "out", "late", "outlived"}]
    /\ \A b \in Browsers : Kept(b)

LEMMA KeptShut ==
    ASSUME revoked' \in [Browsers -> {"no", "out", "late", "outlived"}], \A b \in Browsers : Kept(b)'
    PROVE  Shut'
BY DEF Shut

\* What is stale stays so: versions and passwords only grow.
LEMMA StaleStays ==
    ASSUME AccessInv, Sound, NEW u \in Users, Exists(u)
    PROVE  /\ security[u].version \in Int /\ security'[u].version \in Int
           /\ security'[u].version >= security[u].version
           /\ account[u].password \in Int /\ account'[u].password \in Int
           /\ account'[u].password >= account[u].password
<1>1. Rows /\ Rows' /\ Forward
  BY DEF AccessInv, Sound
<1>2. Exists(u)'
  BY <1>1 DEF Forward
<1>3. account[u].password \in Int /\ account'[u].password \in Int
  BY <1>1, <1>2, UserPassword, UserPasswordNext
<1>4. security[u].version \in Int /\ security'[u].version \in Int
  BY <1>1 DEF Rows, AccountSecurity
<1> QED BY <1>1, <1>3, <1>4 DEF Forward

\* Another request than those that open a session, or the same in a later
\* stage.
Later(b) ==
    \/ ~Opens(request'[b])
    \/ /\ Opens(request[b])
       /\ request'[b].user = request[b].user /\ request'[b].seen = request[b].seen
       /\ request'[b].version = request[b].version
       /\ request'[b].kind = "set_up" => request[b].kind = "set_up"
       /\ request[b].kind = "set_up" /\ request'[b].kind # "set_up"
             => request[b].version = security[request[b].user].version

\* The accounts of a browser's session and of its request exist.
LEMMA TheirAccounts ==
    ASSUME AccessInv, NEW b \in Browsers
    PROVE  /\ session[b] # None => /\ session[b].user \in Users /\ Exists(session[b].user)
                                   /\ session[b].version \in Int /\ session[b].hash \in Int
                                   /\ session[b].version <= security[session[b].user].version
                                   /\ session[b].hash <= account[session[b].user].password
           /\ Opens(request[b]) => /\ request[b].user \in Users /\ Exists(request[b].user)
                                   /\ request[b].seen.password \in Int /\ request[b].version \in Int
                                   /\ request[b].seen.password <= account[request[b].user].password
<1>1. ASSUME session[b] # None
      PROVE  /\ session[b].user \in Users /\ Exists(session[b].user)
             /\ session[b].version \in Int /\ session[b].hash \in Int
             /\ session[b].version <= security[session[b].user].version
             /\ session[b].hash <= account[session[b].user].password
  <2>1. session[b].user \in Users /\ session[b].version \in Int /\ session[b].hash \in Int
    BY <1>1, HasSession DEF AccessInv
  <2> QED BY <1>1, <2>1 DEF AccessInv, Sessions
<1>2. ASSUME Opens(request[b])
      PROVE  /\ request[b].user \in Users /\ Exists(request[b].user)
             /\ request[b].seen.password \in Int /\ request[b].version \in Int
             /\ request[b].seen.password <= account[request[b].user].password
  <2>1. request[b] \in Request /\ Checked(request[b]) /\ request[b].kind # "register"
    BY <1>2, Asking DEF AccessInv, Opens
  <2>2. request[b].seen \in User /\ request[b].user \in Users /\ request[b].version \in Int
    BY <2>1 DEF Checked, Request
  <2>3. request[b].seen.password \in Int
    BY <2>2 DEF User
  <2>4. Exists(request[b].user) /\ request[b].seen.password <= account[request[b].user].password
    BY <2>1 DEF Checked
  <2> QED BY <2>2, <2>3, <2>4
<1> QED BY <1>1, <1>2

\* Nothing happens to the session of a browser, or it is ended.
LEMMA KeptOn ==
    ASSUME AccessInv, Sound, NEW b \in Browsers, Kept(b), session'[b] = session[b], Later(b),
           \/ revoked'[b] = revoked[b]
           \/ revoked[b] = "late" /\ revoked'[b] = "out" /\ ~Opens(request'[b])
           \/ /\ session[b] # None /\ request'[b] = request[b]
              /\ security'[session[b].user].version > security[session[b].user].version
              /\ revoked'[b] = IF Entering(b) /\ revoked[b] # "out" THEN "late" ELSE "out"
           \/ /\ session[b] # None /\ ~Opens(request'[b])
              /\ security'[session[b].user].version > security[session[b].user].version
           \/ /\ session[b] # None
              /\ account'[session[b].user].password > account[session[b].user].password
    PROVE  Kept(b)'
<1> DEFINE s == session[b]
           u == s.user
           r == request[b]
           Newer_version == security'[u].version > security[u].version
           Newer_password == account'[u].password > account[u].password
<1>1. ASSUME s # None
      PROVE  /\ Stale(s) => Stale(s)'
             /\ Newer_version \/ Newer_password => Stale(s)'
  <2>1. /\ u \in Users /\ Exists(u) /\ s.version \in Int /\ s.hash \in Int
        /\ s.version <= security[u].version /\ s.hash <= account[u].password
    BY <1>1, TheirAccounts
  <2>2. PICK v \in Users : v = u
    BY <2>1
  <2>3. /\ security[v].version \in Int /\ security'[v].version \in Int
        /\ security'[v].version >= security[v].version
        /\ account[v].password \in Int /\ account'[v].password \in Int
        /\ account'[v].password >= account[v].password
    BY <2>1, <2>2, StaleStays
  <2>4. /\ Stale(s) <=> s.version < security[v].version \/ s.hash < account[v].password
        /\ Stale(s)' <=> s'.version < security'[v].version \/ s'.hash < account'[v].password
    BY <2>2 DEF Stale
  <2>5. s' = s
    OBVIOUS
  <2> QED BY <2>1, <2>2, <2>3, <2>4, <2>5
<1>2. revoked'[b] \in {"out", "late"} /\ session'[b] # None => Stale(session[b])'
  BY <1>1 DEF Kept
<1>3. ASSUME Opens(request'[b])
      PROVE  /\ session'[b] # None /\ session'[b].user = request'[b].user
             /\ request'[b].kind = "set_up" => request'[b].version <= security'[request'[b].user].version
             /\ revoked'[b] = "out" => Dead(request[b])'
  <2>1. /\ Opens(r) /\ request'[b].user = r.user /\ request'[b].seen = r.seen /\ request'[b].version = r.version
        /\ request'[b].kind = "set_up" => r.kind = "set_up"
        /\ r.kind = "set_up" /\ request'[b].kind # "set_up" => r.version = security[r.user].version
    BY <1>3 DEF Later
  <2>2. /\ s # None /\ u = r.user
        /\ r.kind = "set_up" => r.version <= security[u].version
        /\ revoked[b] = "out" => Dead(r)
    BY <2>1 DEF Kept
  <2>3. PICK v \in Users : v = u /\ Exists(v)
    BY <2>2, TheirAccounts
  <2>4. /\ security[v].version \in Int /\ security'[v].version \in Int
        /\ security'[v].version >= security[v].version
        /\ account[v].password \in Int /\ account'[v].password \in Int
        /\ account'[v].password >= account[v].password
    BY <2>3, StaleStays
  <2>5. /\ r.seen.password \in Int /\ r.version \in Int
        /\ r.seen.password <= account[v].password
    BY <2>1, <2>2, <2>3, TheirAccounts
  <2>6. Dead(r) <=> (r.seen.password < account[v].password \/ (r.kind = "set_up" /\ r.version < security[v].version))
    BY <2>2, <2>3 DEF Dead
  <2>7. Dead(request[b])' <=> \/ r.seen.password < account'[v].password
                             \/ (request'[b].kind = "set_up" /\ r.version < security'[v].version)
    BY <2>1, <2>2, <2>3 DEF Dead
  <2>8. ASSUME Dead(r) PROVE Dead(request[b])'
    <3>1. CASE r.seen.password < account[v].password
      BY <2>4, <2>5, <2>7, <3>1
    <3>2. CASE r.kind = "set_up" /\ r.version < security[v].version
      BY <2>1, <2>2, <2>3, <2>4, <2>5, <2>7, <3>2
    <3> QED BY <2>6, <2>8, <3>1, <3>2
  <2>9. ASSUME revoked'[b] = "out", revoked[b] # "out" PROVE Dead(request[b])'
    <3>1. CASE Newer_password
      BY <2>3, <2>4, <2>5, <2>7, <3>1
    <3>2. CASE Newer_version /\ request'[b] = request[b] /\ ~Entering(b)
      <4>1. r.kind = "set_up" /\ request'[b].kind = "set_up"
        BY <2>1, <3>2 DEF Opens, Entering
      <4> QED BY <2>2, <2>3, <2>4, <2>5, <2>7, <3>2, <4>1
    <3> QED BY <1>3, <2>9, <3>1, <3>2
  <2>10. request'[b].kind = "set_up" => r.version <= security'[v].version
    BY <2>1, <2>2, <2>3, <2>4, <2>5
  <2> QED BY <2>1, <2>2, <2>3, <2>8, <2>9, <2>10
<1> QED BY <1>2, <1>3 DEF Kept

\* The browser signs in or out, its request has its answer.
LEMMA KeptAnew ==
    ASSUME NEW b \in Browsers, revoked'[b] \notin {"out", "late"}, request'[b] = None
    PROVE  Kept(b)'
BY DEF Kept, Opens

\* Requests and sessions of the other browsers.
LEMMA OthersLater ==
    ASSUME AccessInv, NEW b \in Browsers, NEW q, request' = [request EXCEPT ![b] = q]
    PROVE  /\ request'[b] = q
           /\ \A c \in Browsers : c # b => request'[c] = request[c] /\ Later(c)
BY DEF AccessInv, Rows, Later, Opens

LEMMA SameLater ==
    ASSUME request' = request
    PROVE  \A c \in Browsers : Later(c)
BY DEF Later, Opens

\* Steps that end no session: nobody's, or only that of the browser itself.
LEMMA ShutSteps ==
    ASSUME AccessInv, Sound, Shut, UNCHANGED <<session, revoked>>, \A c \in Browsers : Later(c)
    PROVE  Shut'
<1>1. \A c \in Browsers : Kept(c)'
  BY KeptOn DEF Shut
<1> QED BY <1>1, KeptShut DEF Shut

LEMMA ShutOwn ==
    ASSUME AccessInv, Sound, Shut, NEW b \in Browsers, NEW s,
           session' = [session EXCEPT ![b] = s], revoked' = [revoked EXCEPT ![b] = "no"],
           request' = [request EXCEPT ![b] = None]
    PROVE  Shut'
<1>1. /\ session \in [Browsers -> SessionRow \cup {None}]
      /\ request'[b] = None /\ \A c \in Browsers : c # b => Later(c)
  BY OthersLater DEF AccessInv, Rows
<1>2. revoked' \in [Browsers -> {"no", "out", "late", "outlived"}]
  BY DEF Shut
<1>3. ASSUME NEW c \in Browsers PROVE Kept(c)'
  <2>1. CASE c = b
    BY <1>1, <2>1, KeptAnew DEF Shut
  <2>2. CASE c # b
    BY <1>1, <2>2, KeptOn DEF Shut
  <2> QED BY <2>1, <2>2
<1> QED BY <1>2, <1>3, KeptShut

\* A browser asks: what it asks with its session is refused to one that is
\* out.
LEMMA AskShut ==
    ASSUME AccessInv, Sound, Shut, NEW b \in Browsers, NEW q, request' = [request EXCEPT ![b] = q],
           UNCHANGED <<rows, session, revoked>>,
           Opens(q) => /\ Gate(b) \/ Pending(b)
                       /\ q.user = session[b].user
                       /\ q.kind = "set_up" => q.version = session[b].version
    PROVE  Shut'
<1>1. request'[b] = q /\ \A c \in Browsers : c # b => Later(c)
  BY OthersLater
<1>2. ASSUME Opens(q) PROVE Kept(b)'
  <2>1. session[b] # None /\ ~Stale(session[b])
    <3>1. session[b] # None
      BY <1>2 DEF Gate, Authenticated, Pending
    <3>2. /\ session[b].version = security[session[b].user].version
          /\ session[b].hash = account[session[b].user].password
          /\ session[b].version \in Int /\ session[b].hash \in Int
      BY <1>2, <3>1, TheirAccounts DEF Gate, Authenticated, Pending
    <3> QED BY <3>1, <3>2 DEF Stale
  <2>2. revoked[b] \notin {"out", "late"}
    BY <2>1 DEF Shut, Kept
  <2>3. session[b].version <= security[session[b].user].version
    BY <2>1, TheirAccounts
  <2>4. q.kind = "set_up" => q.version <= security'[q.user].version
    BY <1>2, <2>3 DEF rows
  <2> QED BY <1>1, <1>2, <2>1, <2>2, <2>4 DEF Kept
<1>3. \A c \in Browsers : Kept(c)'
  <2>1. ASSUME ~Opens(q) PROVE Later(b)
    BY <1>1, <2>1 DEF Later
  <2>2. ASSUME NEW c \in Browsers, c # b PROVE Kept(c)'
    BY <1>1, <2>2, KeptOn DEF Shut
  <2>3. Kept(b)'
    BY <1>2, <2>1, KeptOn DEF Shut
  <2> QED BY <2>2, <2>3
<1> QED BY <1>3, KeptShut DEF Shut

LEMMA AsksShut ==
    ASSUME AccessInv, Sound, Shut, NEW b \in Browsers,
           \/ Verify(b) \/ SetUp(b) \/ ChangePassword(b)
           \/ \E u \in Users : SignIn(b, u) \/ Confirm(b, u)
           \/ \E g \in Grants : ResetAccess(b, g)
           \/ \E i \in Invites : \E u \in Others : Register(b, i, u)
    PROVE  Shut'
<1>1. UNCHANGED <<rows, session, revoked>>
  BY DEF Verify, SetUp, ChangePassword, SignIn, Confirm, ResetAccess, Register
<1>2. CASE ChangePassword(b) \/ (\E u \in Users : SignIn(b, u)) \/ (\E g \in Grants : ResetAccess(b, g))
           \/ \E i \in Invites : \E u \in Others : Register(b, i, u)
  <2>1. PICK q \in Request : /\ q.kind \in {"sign_in", "password", "reset", "register"}
                            /\ request' = [request EXCEPT ![b] = q]
    BY <1>2, AskOther DEF AccessInv
  <2>2. ~Opens(q)
    BY <2>1 DEF Opens
  <2> QED BY <1>1, <2>1, <2>2, AskShut
<1>3. CASE Verify(b)
  <2>1. PICK q : /\ request' = [request EXCEPT ![b] = q] /\ q.kind = "verify" /\ q.user = session[b].user
    BY <1>3 DEF Verify, Asks, Blank
  <2> QED BY <1>1, <1>3, <2>1, AskShut DEF Verify
<1>4. CASE SetUp(b)
  <2>1. PICK q : /\ request' = [request EXCEPT ![b] = q] /\ q.user = session[b].user
                 /\ q.version = session[b].version
    BY <1>4 DEF SetUp, Asks, Blank
  <2> QED BY <1>1, <1>4, <2>1, AskShut DEF SetUp
<1>5. ASSUME NEW u \in Users, Confirm(b, u) PROVE Shut'
  <2>1. PICK q \in Request : /\ q.kind \in {"confirm", "act"} /\ q.user = session[b].user
                            /\ request' = [request EXCEPT ![b] = q]
    BY <1>5, AskConfirm DEF AccessInv
  <2>2. Gate(b)
    BY <1>5 DEF Confirm, Works
  <2>3. q.kind # "set_up"
    BY <2>1
  <2> QED BY <1>1, <2>1, <2>2, <2>3, AskShut
<1> QED BY <1>2, <1>3, <1>4, <1>5

\* A request goes on to its next stage.
LEMMA StagesShut ==
    ASSUME AccessInv, Sound, Shut, NEW b \in Browsers, Verified(b) \/ Confirmed(b) \/ Enabled(b)
    PROVE  Shut'
<1> DEFINE r == request[b]
<1>1. /\ r # None /\ UNCHANGED <<session, revoked>>
      /\ \/ Moves(b, "enter") /\ r.kind = "verify"
         \/ Moves(b, "act") /\ r.kind = "confirm"
         \/ Moves(b, "enter") /\ r.kind = "set_up" /\ security[r.user].version = r.version
  BY DEF Verified, Confirmed, Enabled, Served
<1>2. r \in Request /\ Checked(r)
  BY <1>1, Asking DEF AccessInv
<1>3. PICK kind \in {"enter", "act"} : /\ Moves(b, kind)
                                      /\ (kind = "act" => r.kind = "confirm")
                                      /\ (kind = "enter" => r.kind \in {"verify", "set_up"})
  BY <1>1
<1> DEFINE q == [r EXCEPT !.kind = kind]
<1>4. kind \in Kinds
  BY DEF Kinds
<1>5. /\ q.kind = kind /\ q.user = r.user /\ q.seen = r.seen /\ q.version = r.version /\ q.token = r.token
      /\ request' = [request EXCEPT ![b] = q]
  <2>1. request' = [request EXCEPT ![b] = q]
    BY <1>3 DEF Moves
  <2> HIDE DEF r
  <2>2. q.kind = kind /\ q.user = r.user /\ q.seen = r.seen /\ q.version = r.version /\ q.token = r.token
    BY <1>2, <1>4 DEF Request
  <2> QED BY <2>1, <2>2
<1> HIDE DEF q
<1>6. request'[b] = q /\ \A c \in Browsers : c # b => Later(c)
  BY <1>5, OthersLater
<1>7. Later(b)
  <2>1. CASE kind = "act"
    <3>1. r.token \in Token
      BY <1>2, <1>3, <2>1 DEF Checked
    <3>2. None \notin Token
      BY AccessConstants DEF Token, Otp
    <3> QED BY <1>5, <1>6, <2>1, <3>1, <3>2 DEF Later, Opens
  <2>2. CASE kind = "enter"
    <3>1. r.kind = "set_up" => r.version = security[r.user].version
      BY <1>1
    <3>2. Opens(r)
      BY <1>1, <1>3, <2>2 DEF Opens
    <3> HIDE DEF r
    <3> QED BY <1>5, <1>6, <2>2, <3>1, <3>2 DEF Later, r
  <2> QED BY <2>1, <2>2
<1> QED BY <1>1, <1>6, <1>7, ShutSteps

\* The session a request opens is out when the one before it was, unless it
\* was just entering.
LEMMA ContinueShut ==
    ASSUME AccessInv, Sound, Shut, NEW b \in Browsers, NEW kind \in {"pending", "login"}, NEW mfa \in BOOLEAN,
           Opens(request[b]), request[b].kind # "set_up", UNCHANGED rows, Answered(b),
           Continue(b, Session(kind, request[b].user, request[b].seen.password, mfa))
    PROVE  Shut'
<1> DEFINE r == request[b]
           s == Session(kind, r.user, r.seen.password, mfa)
<1>1. /\ session \in [Browsers -> SessionRow \cup {None}]
      /\ revoked \in [Browsers -> {"no", "out", "late", "outlived"}]
  BY DEF AccessInv, Rows, Shut
<1>2. /\ request'[b] = None /\ \A c \in Browsers : c # b => Later(c)
  BY OthersLater DEF Answered
<1>3. s.user = r.user /\ s.hash = r.seen.password
  BY DEF Session
<1>4. ASSUME revoked'[b] \in {"out", "late"} PROVE Stale(session[b])'
  <2>1. revoked[b] = "out"
    BY <1>1, <1>4 DEF Continue
  <2>2. r.seen.password < account[r.user].password
    BY <2>1 DEF Shut, Kept, Dead
  <2>3. session'[b] = s
    BY <1>1 DEF Continue
  <2>4. account' = account
    BY DEF rows
  <2> HIDE DEF s
  <2> QED BY <1>3, <2>2, <2>3, <2>4 DEF Stale
<1>5. Kept(b)'
  BY <1>2, <1>4 DEF Kept, Opens
<1>6. ASSUME NEW c \in Browsers, c # b PROVE Kept(c)'
  <2>1. session'[c] = session[c] /\ revoked'[c] = revoked[c]
    BY <1>1, <1>6 DEF Continue
  <2> QED BY <1>2, <1>6, <2>1, KeptOn DEF Shut
<1>7. revoked' \in [Browsers -> {"no", "out", "late", "outlived"}]
  BY <1>1 DEF Continue
<1> QED BY <1>5, <1>6, <1>7, KeptShut

\* The sessions of an account are ended.
LEMMA EndsShut ==
    ASSUME AccessInv, Sound, Shut, NEW u \in Users, revoked' \in [Browsers -> {"no", "out", "late", "outlived"}],
           \A c \in Browsers :
              \/ revoked'[c] = "no" /\ request'[c] = None
              \/ /\ session'[c] = session[c] /\ request'[c] \in {request[c], None}
                 /\ \/ revoked'[c] = VersionEnds(u)[c] /\ security'[u].version > security[u].version
                    \/ revoked'[c] = PasswordEnds(u)[c] /\ account'[u].password > account[u].password
    PROVE  Shut'
<1>1. ASSUME NEW c \in Browsers PROVE Kept(c)'
  <2>1. CASE revoked'[c] = "no" /\ request'[c] = None
    BY <2>1, KeptAnew
  <2>2. CASE session'[c] = session[c] /\ request'[c] \in {request[c], None} /\ c \notin Begun(u)
             /\ (revoked'[c] = VersionEnds(u)[c] \/ revoked'[c] = PasswordEnds(u)[c])
    <3>1. Later(c) /\ revoked'[c] = revoked[c]
      BY <2>2 DEF Later, Opens, VersionEnds, PasswordEnds
    <3> QED BY <2>2, <3>1, KeptOn DEF Shut
  <2>3. CASE session'[c] = session[c] /\ request'[c] \in {request[c], None} /\ c \in Begun(u)
             /\ revoked'[c] = VersionEnds(u)[c] /\ security'[u].version > security[u].version
    <3>1. Later(c) /\ (request'[c] = request[c] \/ ~Opens(request'[c]))
      BY <2>3 DEF Later, Opens
    <3>2. session[c] # None /\ session[c].user = u
      BY <2>3 DEF Begun
    <3>3. revoked'[c] = IF Entering(c) /\ revoked[c] # "out" THEN "late" ELSE "out"
      BY <2>3 DEF VersionEnds
    <3> QED BY <2>3, <3>1, <3>2, <3>3, KeptOn DEF Shut
  <2>4. CASE session'[c] = session[c] /\ request'[c] \in {request[c], None} /\ c \in Begun(u)
             /\ account'[u].password > account[u].password
    <3>1. Later(c)
      BY <2>4 DEF Later, Opens
    <3>2. session[c] # None /\ session[c].user = u
      BY <2>4 DEF Begun
    <3> QED BY <2>4, <3>1, <3>2, KeptOn DEF Shut
  <2> QED BY <2>1, <2>2, <2>3, <2>4
<1> QED BY <1>1, KeptShut

LEMMA NextVersion ==
    ASSUME AccessInv, NEW u \in Users,
           \/ security' = [security EXCEPT ![u] = revoke_sessions(security[u])]
           \/ security' = [security EXCEPT ![u] = revoke_sessions(Cleared(security[u]))]
    PROVE  security'[u].version > security[u].version
<1> DEFINE sec == security[u]
<1>1. sec \in AccountSecurity /\ sec.version \in Nat /\ security \in [Users -> AccountSecurity]
  BY Integers DEF AccessInv, Rows
<1>2. revoke_sessions(sec).version = sec.version + 1 /\ Cleared(sec) \in AccountSecurity /\ Cleared(sec).version = sec.version
  BY <1>1, SecurityRows
<1>3. revoke_sessions(Cleared(sec)).version = sec.version + 1
  BY <1>2, SecurityRows
<1>4. security'[u] \in {revoke_sessions(sec), revoke_sessions(Cleared(sec))}
  BY <1>1
<1> HIDE DEF sec
<1>5. security'[u].version = sec.version + 1
  BY <1>2, <1>3, <1>4
<1> QED BY <1>1, <1>5 DEF sec

\* With a version: one's own sessions, an administrator's action, the console.
LEMMA VersionShut ==
    ASSUME AccessInv, Sound, Shut, RecoverOwner \/ \E b \in Browsers : Act(b)
    PROVE  Shut'
<1>1. ASSUME NEW u \in Users, Revoked(u), UNCHANGED session, \A c \in Browsers : request'[c] \in {request[c], None},
             \/ security' = [security EXCEPT ![u] = revoke_sessions(security[u])]
             \/ security' = [security EXCEPT ![u] = revoke_sessions(Cleared(security[u]))]
      PROVE  Shut'
  <2>1. security'[u].version > security[u].version /\ revoked' = VersionEnds(u)
    BY <1>1, NextVersion DEF Revoked
  <2>2. revoked' \in [Browsers -> {"no", "out", "late", "outlived"}]
    BY <2>1 DEF VersionEnds, Shut
  <2> QED BY <1>1, <2>1, <2>2, EndsShut
<1>2. CASE RecoverOwner
  BY <1>1, <1>2 DEF RecoverOwner, Users
<1>3. ASSUME NEW b \in Browsers, Act(b) PROVE Shut'
  <2>1. PICK u \in Users : u = request[b].target
    BY <1>3, Asking DEF Act, Served, AccessInv
  <2>2. Revoked(u) /\ UNCHANGED session /\ Answered(b)
    BY <1>3, <2>1 DEF Act
  <2>3. \/ security' = [security EXCEPT ![u] = revoke_sessions(security[u])]
        \/ security' = [security EXCEPT ![u] = revoke_sessions(Cleared(security[u]))]
    BY <1>3, <2>1 DEF Act
  <2>4. \A c \in Browsers : request'[c] \in {request[c], None}
    BY <2>2 DEF Answered, AccessInv, Rows
  <2> QED BY <1>1, <2>2, <2>3, <2>4
<1> QED BY <1>2, <1>3

LEMMA ActOnSelfShut ==
    ASSUME AccessInv, Sound, Shut, NEW b \in Browsers, ActOnSelf(b)
    PROVE  Shut'
<1> DEFINE r == request[b]
<1>1. /\ r # None /\ r.kind = "act" /\ Answered(b) /\ UNCHANGED account
      /\ r.user \in Users
  BY Asking DEF ActOnSelf, Served, AccessInv
<1>2. PICK u \in Users : u = r.user
  BY <1>1
<1>3. CASE /\ security' = [security EXCEPT ![u] = revoke_sessions(security[u])]
           /\ session' = [session EXCEPT ![b] = None] /\ revoked' = [VersionEnds(u) EXCEPT ![b] = "no"]
  <2>1. security'[u].version > security[u].version
    BY <1>3, NextVersion
  <2>2. VersionEnds(u) \in [Browsers -> {"no", "out", "late", "outlived"}]
    BY DEF VersionEnds, Shut
  <2>3. \A c \in Browsers : \/ revoked'[c] = "no" /\ request'[c] = None
                            \/ /\ session'[c] = session[c] /\ request'[c] \in {request[c], None}
                               /\ revoked'[c] = VersionEnds(u)[c]
    BY <1>1, <1>3, <2>2 DEF Answered, AccessInv, Rows
  <2>4. revoked' \in [Browsers -> {"no", "out", "late", "outlived"}]
    BY <1>3, <2>2
  <2> QED BY <2>1, <2>3, <2>4, EndsShut
<1>4. CASE UNCHANGED <<session, revoked>>
  <2>1. request'[b] = None /\ \A c \in Browsers : c # b => Later(c)
    BY <1>1, OthersLater DEF Answered
  <2>2. \A c \in Browsers : Later(c)
    BY <2>1 DEF Later, Opens
  <2> QED BY <1>4, <2>2, ShutSteps
<1>5. CASE /\ r.token = None /\ Continue(b, Session("pending", r.user, r.seen.password, FALSE))
           /\ UNCHANGED <<security, recovery, made>>
  <2>1. Opens(r) /\ r.kind # "set_up" /\ UNCHANGED rows
    BY <1>1, <1>5 DEF Opens, rows, ActOnSelf
  <2> QED BY <1>1, <1>5, <2>1, ContinueShut
<1>6. \/ /\ security' = [security EXCEPT ![u] = revoke_sessions(security[u])]
         /\ session' = [session EXCEPT ![b] = None] /\ revoked' = [VersionEnds(u) EXCEPT ![b] = "no"]
      \/ UNCHANGED <<session, revoked>>
      \/ /\ r.token = None /\ Continue(b, Session("pending", r.user, r.seen.password, FALSE))
         /\ UNCHANGED <<security, recovery, made>>
  BY <1>2 DEF ActOnSelf
<1> QED BY <1>3, <1>4, <1>5, <1>6

\* With a new password.
LEMMA PasswordShut ==
    ASSUME AccessInv, Sound, Shut, NEW b \in Browsers, PasswordChanged(b) \/ AccessReset(b)
    PROVE  Shut'
<1> DEFINE r == request[b]
<1>1. /\ r # None /\ r.kind \in {"password", "reset"} /\ Answered(b) /\ NewPassword
      /\ session' = [session EXCEPT ![b] = None] /\ revoked' = [PasswordEnds(r.user) EXCEPT ![b] = "no"]
  BY DEF PasswordChanged, AccessReset, Served
<1>2. r.user \in Users /\ Exists(r.user) /\ r.seen \in User
  BY <1>1, Asking DEF AccessInv, Checked
<1>3. PICK u \in Users, seen \in User, n \in {made'.passwords} : u = r.user /\ seen = r.seen
  BY <1>2
<1>4. n \in 1 .. MaxPasswords /\ n = made.passwords + 1 /\ made.passwords \in Nat
  BY <1>1, <1>3, PasswordMade DEF AccessInv
<1>5. \/ account' = [account EXCEPT ![u] = [seen EXCEPT !.password = n, !.mustChange = FALSE]]
      \/ account' = [account EXCEPT ![u] = [seen EXCEPT !.password = n]]
  BY <1>3 DEF PasswordChanged, AccessReset
<1>6. account'[u].password = n
  <2>1. [seen EXCEPT !.password = n, !.mustChange = FALSE].password = n /\ [seen EXCEPT !.password = n].password = n
    BY DEF User
  <2> QED BY <1>5, <2>1 DEF AccessInv, Rows
<1>7. account'[u].password > account[u].password
  <2>1. account[u].password \in Nat /\ account[u].password <= made.passwords
    BY <1>2, <1>3, UserPassword DEF AccessInv, Factors
  <2> QED BY <1>4, <1>6, <2>1
<1>8. PasswordEnds(u) \in [Browsers -> {"no", "out", "late", "outlived"}]
  BY DEF PasswordEnds, Shut
<1>9. \A c \in Browsers : \/ revoked'[c] = "no" /\ request'[c] = None
                          \/ /\ session'[c] = session[c] /\ request'[c] \in {request[c], None}
                             /\ revoked'[c] = PasswordEnds(u)[c]
  BY <1>1, <1>3, <1>8 DEF Answered, AccessInv, Rows
<1>10. revoked' \in [Browsers -> {"no", "out", "late", "outlived"}]
  BY <1>1, <1>3, <1>8
<1> QED BY <1>7, <1>9, <1>10, EndsShut

\* A browser's own session, and steps of none.
LEMMA OwnShut ==
    ASSUME AccessInv, Sound, Shut, NEW b \in Browsers,
           Visit(b) \/ SignOut(b) \/ SignedIn(b) \/ Registered(b) \/ Entered(b) \/ Refused(b)
    PROVE  Shut'
<1>1. CASE Visit(b) \/ SignOut(b)
  <2>1. request' = [request EXCEPT ![b] = None]
    BY <1>1 DEF Visit, SignOut, AccessInv, Rows
  <2> QED BY <1>1, <2>1, ShutOwn DEF Visit, SignOut, Close
<1>2. CASE SignedIn(b) \/ Registered(b)
  BY <1>2, ShutOwn DEF SignedIn, Registered, Open, Answered
<1>3. CASE Entered(b)
  <2>1. /\ Opens(request[b]) /\ request[b].kind # "set_up" /\ UNCHANGED rows /\ Answered(b)
        /\ Continue(b, Session("login", request[b].user, request[b].seen.password, TRUE))
    BY <1>3 DEF Entered, Served, Opens
  <2> QED BY <2>1, ContinueShut
<1>4. CASE Refused(b)
  <2>1. request'[b] = None /\ \A c \in Browsers : c # b => Later(c)
    BY <1>4, OthersLater DEF Refused, Answered
  <2>2. Later(b) /\ ~Opens(request'[b])
    BY <2>1 DEF Later, Opens
  <2>3. \A c \in Browsers : revoked'[c] = revoked[c] \/ (c = b /\ revoked[c] = "late" /\ revoked'[c] = "out")
    BY <1>4 DEF Refused, Shut
  <2>4. \A c \in Browsers : Kept(c)'
    BY <1>4, <2>1, <2>2, <2>3, KeptOn DEF Refused, Shut
  <2>5. revoked' \in [Browsers -> {"no", "out", "late", "outlived"}]
    BY <1>4 DEF Refused, Shut
  <2> QED BY <2>4, <2>5, KeptShut
<1> QED BY <1>1, <1>2, <1>3, <1>4

LEMMA ShutStep == AccessInv /\ Shut /\ [Next]_vars => AccessInv' /\ Shut'
<1> SUFFICES ASSUME AccessInv, Shut, [Next]_vars PROVE AccessInv' /\ Shut'
  OBVIOUS
<1>1. Sound
  BY InvariantStep
<1>2. ASSUME NEW b \in Browsers,
             \/ Visit(b) \/ SignOut(b) \/ SignedIn(b) \/ Verify(b) \/ Verified(b) \/ SetUp(b) \/ Enabled(b)
             \/ Entered(b) \/ Refused(b) \/ Confirmed(b) \/ ActOnSelf(b) \/ Act(b)
             \/ ChangePassword(b) \/ PasswordChanged(b) \/ AccessReset(b) \/ Registered(b)
             \/ \E u \in Users : SignIn(b, u) \/ Confirm(b, u)
             \/ \E g \in Grants : ResetAccess(b, g)
             \/ \E i \in Invites : Invite(b, i) \/ RevokeInvite(b, i) \/ \E u \in Others : Register(b, i, u)
      PROVE  Shut'
  <2>1. CASE Visit(b) \/ SignOut(b) \/ SignedIn(b) \/ Registered(b) \/ Entered(b) \/ Refused(b)
    BY <1>1, <2>1, OwnShut
  <2>2. CASE \/ Verify(b) \/ SetUp(b) \/ ChangePassword(b)
             \/ \E u \in Users : SignIn(b, u) \/ Confirm(b, u)
             \/ \E g \in Grants : ResetAccess(b, g)
             \/ \E i \in Invites : \E u \in Others : Register(b, i, u)
    BY <1>1, <2>2, AsksShut
  <2>3. CASE Verified(b) \/ Confirmed(b) \/ Enabled(b)
    BY <1>1, <2>3, StagesShut
  <2>4. CASE ActOnSelf(b)
    BY <1>1, <2>4, ActOnSelfShut
  <2>5. CASE Act(b)
    BY <1>1, <2>5, VersionShut
  <2>6. CASE PasswordChanged(b) \/ AccessReset(b)
    BY <1>1, <2>6, PasswordShut
  <2>7. CASE \E i \in Invites : Invite(b, i) \/ RevokeInvite(b, i)
    BY <1>1, <2>7, SameLater, ShutSteps DEF Invite, RevokeInvite
  <2> QED BY <1>2, <2>1, <2>2, <2>3, <2>4, <2>5, <2>6, <2>7
<1>3. ASSUME (\E package \in Packages : ImportAccounts(package)) \/ Expire \/ Tick \/ UNCHANGED vars
      PROVE  Shut'
  <2>1. UNCHANGED <<session, revoked, request>>
    BY <1>3 DEF ImportAccounts, Expire, Tick, vars
  <2> QED BY <1>1, <2>1, SameLater, ShutSteps
<1>4. ASSUME RecoverOwner PROVE Shut'
  BY <1>1, <1>4, VersionShut
<1>5. Shut'
  BY <1>2, <1>3, <1>4 DEF Next
<1> QED BY <1>1, <1>5 DEF Sound

LEMMA ShutHolds == Spec => [](AccessInv /\ Shut)
<1>1. Init => AccessInv /\ Shut
  <2>1. Init => Shut
    BY DEF Init, Shut, Kept, Opens
  <2> QED BY <2>1, InvariantInit
<1> QED BY <1>1, ShutStep, PTL DEF Spec

\* Every table holds its rows; a second factor has a secret and a counter, and
\* only existing accounts have sessions and recovery codes.
THEOREM Access_Types == Spec => []AccessTypeOK
<1>1. AccessInv /\ Shut => AccessTypeOK
  <2> SUFFICES ASSUME AccessInv, Shut PROVE AccessTypeOK
    OBVIOUS
  <2>1. accepted.again = {}
    BY DEF AccessInv, Codes, OneTimeUse
  <2>2. \A b \in Browsers : session[b] # None => Exists(session[b].user) /\ session[b].kind \in {"pending", "login"}
    BY HasSession, SessionExists DEF AccessInv, SessionRow
  <2> QED BY <2>1, <2>2 DEF AccessInv, Rows, Factors, Shut, AccessTypeOK
<1> QED BY <1>1, ShutHolds, PTL

\* A session or an unfinished sign-in that was there when the sessions of its
\* account were ended is out until somebody signs in there, whatever happens to
\* the account: no unblocking, and no second factor taken away and set up anew,
\* lets it in again.  With a new version of the account's security a request
\* that has checked the session and ends by opening the next one is excepted
\* while it is under way; with a new password nothing is
\* (AccountGateMiddleware, pending_user, revoke_sessions).
THEOREM Access_RevokedIsOut == Spec => []RevokedIsOut
<1>1. AccessInv /\ Shut => RevokedIsOut
  <2> SUFFICES ASSUME AccessInv, Shut, NEW b \in Browsers, revoked[b] \in {"out", "late"}
               PROVE  ~Gate(b) /\ ~Pending(b)
    BY DEF RevokedIsOut
  <2> SUFFICES ASSUME session[b] # None PROVE ~Gate(b) /\ ~Pending(b)
    BY DEF Gate, Authenticated, Pending
  <2>1. Stale(session[b])
    BY DEF Shut, Kept
  <2> DEFINE u == session[b].user
  <2>2. session[b].version < security[u].version \/ session[b].hash < account[u].password
    BY <2>1 DEF Stale
  <2>3. session[b].version \in Nat /\ session[b].hash \in Nat /\ security[u].version \in Nat /\ account[u].password \in Nat
    BY HasSession, SessionExists, UserPassword, Integers DEF AccessInv
  <2>4. session[b].version # security[u].version \/ session[b].hash # account[u].password
    BY <2>2, <2>3
  <2> QED BY <2>4 DEF Gate, Authenticated, Pending
<1> QED BY <1>1, ShutHolds, PTL
=============================================================================
