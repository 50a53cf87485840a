------------------------------- MODULE Access -------------------------------
(* Accounts and how one gets into them (access/, accounts/): invitations,   *)
(* sign-in with a second factor, recovery codes, revoked sessions, the      *)
(* administrator's actions.  The second factor is switched on               *)
(* (DEV_DISABLE_MFA is off); the limits on attempts are left out.           *)
(*                                                                          *)
(* A request of a browser runs in stages, one for each transaction: it      *)
(* reads, consumes a code, acts.  Secrets, passwords and codes are numbers  *)
(* in the order they were made; a new password has a new hash even if it    *)
(* reads the same.                                                          *)
EXTENDS Integers, FiniteSets

CONSTANTS
    None,
    Owner,          \* the superuser
    Others,         \* the other names
    Browsers, Invites, Grants,
    GivenRoles, Packages,   \* roles that are given, sets of accounts that are imported
    Offsets,        \* how far the clock of a telephone is off: -1, 0, 1
    CodesPerList,   \* 8
    MaxTime, MaxRevocations, MaxPasswords, MaxMade  \* bounds of the runs

Users == {Owner} \cup Others

VARIABLES
    now,            \* 30-second steps of the one-time codes
    account,        \* None or [active, role, password, mustChange]
    security,       \* AccountSecurity: [version, enabled, secret, last_counter]
    recovery,       \* unused RecoveryCode rows of a user
    invitation,     \* "none", "open" or "gone": used, revoked or expired
    grant,          \* ResetGrant: None or [user, open], open likewise
    session,        \* of a browser: None, [kind, user, hash, version, mfa]
    request,        \* the request a browser waits for, or None
    made,           \* number of secrets, of passwords, of batches of codes
    accepted,       \* ghost: the one-time things that were accepted ever, and again
    revoked         \* ghost: of a browser, whether its session was ended from elsewhere

rows == <<account, security, recovery, invitation, grant>>
vars == <<now, rows, session, request, made, accepted, revoked>>

Exists(u) == account[u] # None

\* The tables.
User == [active : BOOLEAN, role : GivenRoles \cup {"admin", "student"},
         password : 1 .. MaxPasswords, mustChange : BOOLEAN]
AccountSecurity == [version : Nat \ {0}, enabled : BOOLEAN, secret : 0 .. MaxMade,
                    last_counter : -1 .. MaxTime + 1]
RecoveryCode == {"recovery"} \X (1 .. MaxMade) \X (1 .. CodesPerList)
Invitation == {"none", "open", "gone"}
ResetGrant == [user : Users, open : BOOLEAN]

ASSUME AccessConstants ==
    /\ None \notin User \cup ResetGrant \cup RecoveryCode \cup ({"otp"} \X Nat \X Int)
    /\ CodesPerList \in Nat /\ Offsets \subseteq Int /\ MaxRevocations \in Nat
    /\ MaxTime \in Nat \ {0} /\ MaxPasswords \in Nat \ {0} /\ MaxMade \in Nat \ {0}

\* Of an account a, as it was read.
is_platform_admin(u, a) == a.active /\ (u = Owner \/ a.role = "admin")
can_manage_courses(u, a) == is_platform_admin(u, a) \/ (a.active /\ a.role = "teacher")

List(batch) == {<<"recovery", batch, k>> : k \in 1 .. CodesPerList}
NoSecurity == [version |-> 1, enabled |-> FALSE, secret |-> 0, last_counter |-> -1]

\* An empty installation, or one whose owner has set up his second factor and
\* used the code of the moment.
Init ==
    /\ now = 1
    /\ \/ /\ account = [u \in Users |-> None] /\ security = [u \in Users |-> NoSecurity]
          /\ recovery = [u \in Users |-> {}] /\ made = [secrets |-> 0, passwords |-> 0, batches |-> 0]
       \/ /\ account = [u \in Users |-> IF u = Owner
                           THEN [active |-> TRUE, role |-> "admin", password |-> 1, mustChange |-> FALSE]
                           ELSE None]
          /\ security = [u \in Users |-> IF u = Owner
                            THEN [version |-> 1, enabled |-> TRUE, secret |-> 1, last_counter |-> 1]
                            ELSE NoSecurity]
          /\ recovery = [u \in Users |-> IF u = Owner THEN List(1) ELSE {}]
          /\ made = [secrets |-> 1, passwords |-> 1, batches |-> 1]
    /\ invitation = [i \in Invites |-> "none"] /\ grant = [g \in Grants |-> None]
    /\ session = [b \in Browsers |-> None] /\ request = [b \in Browsers |-> None]
    /\ accepted = [ever |-> {}, again |-> {}] /\ revoked = [b \in Browsers |-> "no"]

(***************************************************************************)
(* Sessions.                                                               *)
(***************************************************************************)
\* A session of Django: the account is active and its password the one the
\* session began with.
Authenticated(b) ==
    LET s == session[b] IN
    /\ s # None /\ s.kind = "login"
    /\ account[s.user].active /\ s.hash = account[s.user].password

\* Teachers, administrators and whoever switched it on sign in with a second
\* factor.
Second(u, a) == can_manage_courses(u, a) \/ security[u].enabled

\* AccountGateMiddleware: whether a request gets to its view.
Gate_NoVersion(b) == Authenticated(b) /\ (Second(session[b].user, account[session[b].user]) => session[b].mfa) \* mutant
Gate(b) ==
    LET u == session[b].user IN
    /\ Authenticated(b)
    /\ session[b].version = security[u].version
    /\ Second(u, account[u]) => session[b].mfa

\* Until an issued password is changed only the page that changes it opens.
Works(b) == Gate(b) /\ ~account[session[b].user].mustChange

\* pending_user
Pending(b) ==
    LET s == session[b] IN
    /\ s # None /\ s.kind = "pending"
    /\ account[s.user].active /\ s.hash = account[s.user].password
    /\ s.version = security[s.user].version

Session(kind, u, hash, mfa) ==
    [kind |-> kind, user |-> u, hash |-> hash, version |-> security[u].version, mfa |-> mfa]

\* finish_login and start_pending: the password hash is the one of the
\* account as it was read, the version is read now.
Open(b, s) == session' = [session EXCEPT ![b] = s] /\ revoked' = [revoked EXCEPT ![b] = "no"]
Close(b) == session' = [session EXCEPT ![b] = None] /\ revoked' = [revoked EXCEPT ![b] = "no"]

\* The same at the end of a request that began with the session it replaces.
Continue(b, s) ==
    /\ session' = [session EXCEPT ![b] = s]
    /\ revoked' = [revoked EXCEPT ![b] = IF @ = "late" THEN "outlived" ELSE @]

\* The browsers with a session of u, or with a sign-in of his that waits for
\* its second factor.
Begun(u) == {b \in Browsers : session[b] # None /\ session[b].user = u}

\* Its request has checked the session, and will read the version again for
\* the session that replaces it.
Entering(b) ==
    /\ request[b] # None
    /\ request[b].kind \in {"verify", "enter"} \/ (request[b].kind = "act" /\ request[b].token = None)

\* What becomes of the sessions of u: with a new version they are out, unless
\* they are just entering; with a new password they are out.
VersionEnds(u) == [b \in Browsers |-> IF b \notin Begun(u) THEN revoked[b]
                                      ELSE IF Entering(b) /\ revoked[b] # "out" THEN "late" ELSE "out"]
PasswordEnds(u) == [b \in Browsers |-> IF b \in Begun(u) THEN "out" ELSE revoked[b]]

Revocations[S \in SUBSET Users] ==
    IF S = {} THEN 0 ELSE LET u == CHOOSE u \in S : TRUE
                          IN  security[u].version - 1 + Revocations[S \ {u}]
Bounded == Revocations[Users] < MaxRevocations

revoke_sessions(sec) == [sec EXCEPT !.version = @ + 1]

\* The second factor taken away.
Cleared_KeepsCounter(sec) == [NoSecurity EXCEPT !.version = sec.version, !.last_counter = sec.last_counter] \* mutant
Cleared(sec) == [NoSecurity EXCEPT !.version = sec.version]

(***************************************************************************)
(* One-time codes.  A code of the second factor is <<"otp", secret,        *)
(* counter>>, a recovery code <<"recovery", batch, number>>.               *)
(***************************************************************************)
counter_for(secret, token) == token[1] = "otp" /\ token[2] = secret /\ token[3] \in now - 1 .. now + 1

Accept(item) == accepted' = [ever |-> accepted.ever \cup {item},
                             again |-> accepted.again \cup ({item} \cap accepted.ever)]

\* consume_otp, its two conditional updates.
Newer_Same(u, counter) == security[u].last_counter <= counter \* mutant
Newer(u, counter) == security[u].last_counter < counter

consume_otp(u, token) ==
    /\ security[u].enabled
    /\ Accept(<<"code", u, token>>)
    /\ \/ /\ counter_for(security[u].secret, token) /\ Newer(u, token[3])
          /\ security' = [security EXCEPT ![u].last_counter = token[3]] /\ UNCHANGED recovery
       \/ /\ ~counter_for(security[u].secret, token) /\ token \in recovery[u]
          /\ recovery' = [recovery EXCEPT ![u] = @ \ {token}] /\ UNCHANGED security

\* The codes a user has at hand: of the app, of his list, and those he has
\* used.
AtHand(u) ==
    {<<"otp", security[u].secret, now + d>> : d \in Offsets} \cup recovery[u]
        \cup {item[3] : item \in {i \in accepted.ever : i[1] = "code" /\ i[2] = u}}

new_recovery_codes(u) ==
    /\ made.batches < MaxMade /\ made' = [made EXCEPT !.batches = @ + 1]
    /\ recovery' = [recovery EXCEPT ![u] = List(made.batches + 1)]

(***************************************************************************)
(* Signing in.                                                             *)
(***************************************************************************)
Asks(b, r) == request[b] = None /\ request' = [request EXCEPT ![b] = r]
Served(b, kind) == request[b] # None /\ request[b].kind = kind
Moves(b, kind) == request' = [request EXCEPT ![b].kind = kind]
Answered(b) == request' = [request EXCEPT ![b] = None]

Blank(kind, u) == [kind |-> kind, user |-> u, seen |-> account[u], token |-> None,
                   what |-> None, target |-> u, version |-> 0]

\* The gate turns a session away that it does not let through; one whose
\* password has changed is dropped, one of a blocked account is kept.
Visit(b) ==
    /\ request[b] = None /\ session[b] # None /\ session[b].kind = "login"
    /\ account[session[b].user].active /\ ~Gate(b)
    /\ Close(b) /\ UNCHANGED <<now, rows, request, made, accepted>>

SignOut(b) == Gate(b) /\ request[b] = None /\ Close(b) /\ UNCHANGED <<now, rows, request, made, accepted>>

\* sign_in, with finish_login, or with start_pending where a second factor is
\* asked for.
SignIn(b, u) ==
    /\ ~Authenticated(b) /\ Exists(u) /\ account[u].active /\ Asks(b, Blank("sign_in", u))
    /\ UNCHANGED <<now, rows, session, made, accepted, revoked>>

SignedIn(b) ==
    LET r == request[b] IN
    /\ Served(b, "sign_in") /\ Answered(b)
    /\ Open(b, Session(IF Second(r.user, r.seen) THEN "pending" ELSE "login", r.user, r.seen.password, FALSE))
    /\ UNCHANGED <<now, rows, made, accepted>>

Verify(b) ==
    LET u == session[b].user IN
    /\ Pending(b) /\ security[u].enabled
    /\ \E token \in AtHand(u) : Asks(b, [Blank("verify", u) EXCEPT !.token = token])
    /\ UNCHANGED <<now, rows, session, made, accepted, revoked>>

Verified(b) ==
    /\ Served(b, "verify") /\ Moves(b, "enter") /\ consume_otp(request[b].user, request[b].token)
    /\ UNCHANGED <<now, account, invitation, grant, session, made, revoked>>

\* A new secret; the first code of it shows that the app has it.
SetUp(b) ==
    LET u == session[b].user IN
    /\ Pending(b) /\ ~security[u].enabled /\ made.secrets < MaxMade
    /\ made' = [made EXCEPT !.secrets = @ + 1]
    /\ \E d \in Offsets :
          Asks(b, [Blank("set_up", u) EXCEPT !.token = <<"otp", made.secrets + 1, now + d>>,
                                             !.version = session[b].version])
    /\ UNCHANGED <<now, rows, session, accepted, revoked>>

Enabled(b) ==
    LET r == request[b]
        u == r.user
    IN  /\ Served(b, "set_up") /\ counter_for(r.token[2], r.token)
        /\ ~security[u].enabled /\ security[u].version = r.version
        /\ security' = [security EXCEPT ![u] = [@ EXCEPT !.enabled = TRUE, !.secret = r.token[2],
                                                         !.last_counter = r.token[3]]]
        /\ Accept(<<"code", u, r.token>>)
        /\ new_recovery_codes(u) /\ Moves(b, "enter")
        /\ UNCHANGED <<now, account, invitation, grant, session, revoked>>

Entered(b) ==
    LET r == request[b] IN
    /\ Served(b, "enter") /\ Answered(b)
    /\ Continue(b, Session("login", r.user, r.seen.password, TRUE))
    /\ UNCHANGED <<now, rows, made, accepted>>

\* A code was refused, another request was faster.
Refused(b) ==
    /\ request[b] # None /\ request[b].kind \in {"verify", "set_up", "confirm", "reset", "register"}
    /\ Answered(b) /\ revoked' = [revoked EXCEPT ![b] = IF @ = "late" THEN "out" ELSE @]
    /\ UNCHANGED <<now, rows, session, made, accepted>>

(***************************************************************************)
(* What needs the password and a fresh code: one's own security, and the   *)
(* administrator's actions on another account.                             *)
(***************************************************************************)
\* The page of one's own security (target = user), or of another person.
\* Which action the form asks for matters when it is carried out.
Confirm(b, target) ==
    LET u == session[b].user
        ask == [Blank("confirm", u) EXCEPT !.target = target]
    IN  /\ Works(b)
        /\ target # u => is_platform_admin(u, account[u]) /\ Exists(target) /\ target # Owner
        /\ \/ target = u /\ ~security[u].enabled /\ Asks(b, [ask EXCEPT !.kind = "act"])
           \/ security[u].enabled /\ \E token \in AtHand(u) : Asks(b, [ask EXCEPT !.token = token])
        /\ UNCHANGED <<now, rows, session, made, accepted, revoked>>

Confirmed(b) ==
    /\ Served(b, "confirm") /\ Moves(b, "act") /\ consume_otp(request[b].user, request[b].token)
    /\ UNCHANGED <<now, account, invitation, grant, session, made, revoked>>

Revoked(u) == Bounded /\ revoked' = VersionEnds(u)

\* security: end all sessions, print new codes, begin to set up.
ActOnSelf(b) ==
    LET r == request[b]
        u == r.user
    IN  /\ Served(b, "act") /\ r.target = u /\ Answered(b)
        /\ \/ /\ Bounded /\ security' = [security EXCEPT ![u] = revoke_sessions(@)]
              /\ session' = [session EXCEPT ![b] = None]
              /\ revoked' = [VersionEnds(u) EXCEPT ![b] = "no"]
              /\ UNCHANGED <<recovery, made>>
           \/ r.token # None /\ new_recovery_codes(u) /\ UNCHANGED <<security, session, revoked>>
           \/ /\ r.token = None /\ Continue(b, Session("pending", u, r.seen.password, FALSE))
              /\ UNCHANGED <<security, recovery, made>>
        /\ UNCHANGED <<now, account, invitation, grant, accepted>>

\* person.  Every action ends the sessions of the account it is about.
Issued(target) == [g \in Grants |-> IF grant[g] # None /\ grant[g].user = target
                                    THEN [grant[g] EXCEPT !.open = FALSE] ELSE grant[g]]
Act(b) ==
    LET u == request[b].target IN
    /\ Served(b, "act") /\ u # request[b].user /\ Answered(b) /\ Revoked(u)
    /\ \/ \E role \in GivenRoles : account' = [account EXCEPT ![u].role = role]
             /\ security' = [security EXCEPT ![u] = revoke_sessions(@)] /\ UNCHANGED <<grant, recovery>>
       \/ /\ account' = [account EXCEPT ![u].active = ~@]
          /\ security' = [security EXCEPT ![u] = revoke_sessions(@)] /\ UNCHANGED <<grant, recovery>>
       \/ /\ \E g \in Grants : /\ grant[g] = None
                               /\ grant' = [Issued(u) EXCEPT ![g] = [user |-> u, open |-> TRUE]]
          /\ security' = [security EXCEPT ![u] = revoke_sessions(@)] /\ UNCHANGED <<account, recovery>>
       \/ /\ security' = [security EXCEPT ![u] = revoke_sessions(Cleared(@))]
          /\ recovery' = [recovery EXCEPT ![u] = {}] /\ UNCHANGED <<account, grant>>
    /\ UNCHANGED <<now, invitation, session, made, accepted>>

\* recover_owner, from the console.
RecoverOwner ==
    /\ Exists(Owner) /\ account[Owner].active /\ Revoked(Owner)
    /\ security' = [security EXCEPT ![Owner] = revoke_sessions(Cleared(@))]
    /\ recovery' = [recovery EXCEPT ![Owner] = {}]
    /\ UNCHANGED <<now, account, invitation, grant, session, request, made, accepted>>

(***************************************************************************)
(* Passwords.  Both forms save the whole account as it was read when the   *)
(* request began.                                                          *)
(***************************************************************************)
NewPassword == made.passwords < MaxPasswords /\ made' = [made EXCEPT !.passwords = @ + 1]

ChangePassword(b) ==
    /\ Gate(b) /\ Asks(b, Blank("password", session[b].user))
    /\ UNCHANGED <<now, rows, session, made, accepted, revoked>>

PasswordChanged(b) ==
    LET u == request[b].user IN
    /\ Served(b, "password") /\ Answered(b) /\ NewPassword
    /\ account' = [account EXCEPT ![u] = [request[b].seen EXCEPT !.password = made'.passwords,
                                                                 !.mustChange = FALSE]]
    /\ session' = [session EXCEPT ![b] = None] /\ revoked' = [PasswordEnds(u) EXCEPT ![b] = "no"]
    /\ UNCHANGED <<now, security, recovery, invitation, grant, accepted>>

ResetAccess(b, g) ==
    /\ grant[g] # None /\ grant[g].open /\ account[grant[g].user].active
    /\ Asks(b, [Blank("reset", grant[g].user) EXCEPT !.what = g])
    /\ UNCHANGED <<now, rows, session, made, accepted, revoked>>

AccessReset(b) ==
    LET r == request[b]
        u == r.user
    IN  /\ Served(b, "reset") /\ grant[r.what].open /\ Answered(b) /\ NewPassword
        /\ Bounded
        /\ grant' = [grant EXCEPT ![r.what].open = FALSE]
        /\ account' = [account EXCEPT ![u] = [r.seen EXCEPT !.password = made'.passwords]]
        /\ security' = [security EXCEPT ![u] = revoke_sessions(@)]
        /\ Accept(<<"grant", r.what>>)
        /\ session' = [session EXCEPT ![b] = None] /\ revoked' = [PasswordEnds(u) EXCEPT ![b] = "no"]
        /\ UNCHANGED <<now, recovery, invitation>>

(***************************************************************************)
(* Accounts come from a package, into an empty installation only, and from *)
(* invitations.                                                            *)
(***************************************************************************)
NewAccount(role, mustChange) ==
    [active |-> TRUE, role |-> role, password |-> made'.passwords, mustChange |-> mustChange]

ImportAccounts(package) ==
    /\ \A u \in Users : ~Exists(u)
    /\ NewPassword
    /\ \E role \in [package -> GivenRoles] :
          account' = [u \in Users |-> IF u \in package
                         THEN NewAccount(IF u = Owner THEN "admin" ELSE role[u], TRUE) ELSE None]
    /\ UNCHANGED <<now, security, recovery, invitation, grant, session, request, accepted, revoked>>

Administers(b) == request[b] = None /\ Works(b) /\ is_platform_admin(session[b].user, account[session[b].user])

Invite(b, i) ==
    /\ Administers(b) /\ invitation[i] = "none"
    /\ invitation' = [invitation EXCEPT ![i] = "open"]
    /\ UNCHANGED <<now, account, security, recovery, grant, session, request, made, accepted, revoked>>

RevokeInvite(b, i) ==
    /\ Administers(b) /\ invitation[i] = "open"
    /\ invitation' = [invitation EXCEPT ![i] = "gone"]
    /\ UNCHANGED <<now, account, security, recovery, grant, session, request, made, accepted, revoked>>

\* register: the invitation is claimed, the account made and signed in in
\* one transaction; a name that is taken undoes it.
Register(b, i, u) ==
    /\ ~Authenticated(b) /\ invitation[i] = "open" /\ ~Exists(u)
    /\ Asks(b, [Blank("register", u) EXCEPT !.what = i])
    /\ UNCHANGED <<now, rows, session, made, accepted, revoked>>

Registered(b) ==
    LET r == request[b]
        u == r.user
    IN  /\ Served(b, "register") /\ invitation[r.what] = "open" /\ ~Exists(u) /\ Answered(b) /\ NewPassword
        /\ invitation' = [invitation EXCEPT ![r.what] = "gone"]
        /\ account' = [account EXCEPT ![u] = NewAccount("student", FALSE)]
        /\ Accept(<<"invitation", r.what>>)
        /\ Open(b, Session("login", u, made'.passwords, FALSE))
        /\ UNCHANGED <<now, security, recovery, grant>>

Expire ==
    /\ \/ \E i \in Invites : /\ invitation[i] = "open"
                             /\ invitation' = [invitation EXCEPT ![i] = "gone"] /\ UNCHANGED grant
       \/ \E g \in Grants : /\ grant[g] # None /\ grant[g].open
                            /\ grant' = [grant EXCEPT ![g].open = FALSE] /\ UNCHANGED invitation
    /\ UNCHANGED <<now, account, security, recovery, session, request, made, accepted, revoked>>

Tick == now < MaxTime /\ now' = now + 1 /\ UNCHANGED <<rows, session, request, made, accepted, revoked>>

Next ==
    \/ \E b \in Browsers :
          \/ Visit(b) \/ SignOut(b) \/ SignedIn(b) \/ Verify(b) \/ Verified(b) \/ SetUp(b) \/ Enabled(b)
          \/ Entered(b) \/ Refused(b) \/ Confirmed(b) \/ ActOnSelf(b) \/ Act(b)
          \/ ChangePassword(b) \/ PasswordChanged(b) \/ AccessReset(b) \/ Registered(b)
          \/ \E u \in Users : SignIn(b, u) \/ Confirm(b, u)
          \/ \E g \in Grants : ResetAccess(b, g)
          \/ \E i \in Invites : Invite(b, i) \/ RevokeInvite(b, i) \/ \E u \in Others : Register(b, i, u)
    \/ \E package \in Packages : ImportAccounts(package)
    \/ RecoverOwner \/ Expire \/ Tick

Spec == Init /\ [][Next]_vars

(***************************************************************************)
(* Properties.                                                             *)
(***************************************************************************)
\* Every table holds its rows; a second factor has a secret and a counter,
\* and only existing accounts have sessions and recovery codes.
AccessTypeOK ==
    /\ account \in [Users -> User \cup {None}] /\ security \in [Users -> AccountSecurity]
    /\ invitation \in [Invites -> Invitation] /\ grant \in [Grants -> ResetGrant \cup {None}]
    /\ \A u \in Users : /\ recovery[u] \subseteq RecoveryCode
                        /\ security[u].enabled <=> security[u].secret > 0
                        /\ security[u].last_counter >= 0 <=> security[u].enabled
                        /\ recovery[u] # {} => Exists(u)
    /\ \A b \in Browsers : session[b] # None => Exists(session[b].user) /\ session[b].kind \in {"pending", "login"}
    /\ revoked \in [Browsers -> {"no", "out", "late", "outlived"}] /\ accepted.again \subseteq accepted.ever

\* Whatever is good for one use is used once: a code of the app or of a list
\* signs in or confirms once, a grant sets one password, an invitation makes
\* one account - also when two requests bring it at the same time, or again
\* while it has not run out (consume_otp, setup, reset_access, register).
OneTimeUse == accepted.again = {}

\* A session or an unfinished sign-in that was there when the sessions of its
\* account were ended - by its owner, by an administrator's action, by a new
\* password - is out until somebody signs in there: not even blocking and
\* unblocking the account, or a second factor taken away and set up anew, lets
\* it in again (revoke_sessions, AccountGateMiddleware, pending_user).  The one
\* exception is a request that was under way, had checked the session and ends
\* by opening the next one: a code just accepted (verify), a second factor just
\* asked for (enable).  It reads the new version and enters.  One that sets a
\* second factor up is no exception, and after a new password none is.
RevokedIsOut == \A b \in Browsers : revoked[b] \in {"out", "late"} => ~Gate(b) /\ ~Pending(b)

=============================================================================
