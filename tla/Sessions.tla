------------------------------ MODULE Sessions ------------------------------
(***************************************************************************)
(* The sessions of version 2 and the tabs of one browser that share them:  *)
(* v2app/security.py, the session routes of v2app/api/core.py and what     *)
(* frontend/src makes of the answers.  The session lives in the cookie, a  *)
(* request carries the cookie of the moment it is sent, and an answer that *)
(* sets it does so whenever it arrives.  Each tab waits for one request.   *)
(*                                                                         *)
(* A login is a number, and its number is also its CSRF token.             *)
(***************************************************************************)
EXTENDS Integers, Sequences

CONSTANTS Users, Tabs,
          Idle, Absolute,     \* SESSION_IDLE_SECONDS, SESSION_ABSOLUTE_SECONDS
          MaxLogins, MaxTime, MaxRevocations,   \* bounds
          None                \* no session, nobody, no request

ASSUME SessionsAssumption ==
    /\ Idle \in Nat /\ Absolute \in Nat
    /\ MaxLogins \in Nat /\ MaxTime \in Nat /\ MaxRevocations \in Nat

VARIABLES now,
          version,   \* users.session_version; a disabled account is a new version
          revoked,   \* how many changes of accounts there were
          logins,    \* every session ever begun, and when it was last used
          cookie,    \* the session of the browser
          tab,       \* what each tab shows and holds
          pending    \* the request each tab waits for

vars == <<now, version, revoked, logins, cookie, tab, pending>>

Cookie == [login : 1 .. MaxLogins, token : 1 .. MaxLogins, active : 0 .. MaxTime] \cup {None}
Passive == {"poll"}
Unsafe == {"login", "logout", "write"}

TypeOK ==
    /\ \A i \in 1 .. Len(logins) :
         logins[i] \in [user : Users, version : 1 .. MaxRevocations + 1,
                        issued : 0 .. MaxTime, used : 0 .. MaxTime]
    /\ cookie \in Cookie
    /\ tab \in [Tabs -> [phase : {"login", "app", "expired"}, shown : Users \cup {None},
                         csrf : 0 .. MaxLogins, held : Users \cup {None}, mixed : BOOLEAN]]

Init ==
    /\ now = 0 /\ version = [u \in Users |-> 1] /\ revoked = 0
    /\ logins = <<>> /\ cookie = None
    /\ tab = [t \in Tabs |-> [phase |-> "login", shown |-> None, csrf |-> 0,
                              held |-> None, mixed |-> FALSE]]
    /\ pending = [t \in Tabs |-> None]

-----------------------------------------------------------------------------
(* The server *)

\* 0 is every token of a browser without a session: it opens no write.
Token(c) == IF c = None THEN 0 ELSE c.token

Unchanged(c) == LET l == logins[c.login] IN version[l.user] = l.version

current_user(c) ==
    /\ c # None
    /\ now - logins[c.login].issued <= Absolute
    /\ now - c.active <= Idle
    /\ Unchanged(c)

\* A mutant: every request counts as activity.
Touched_always(c, kind) == [c EXCEPT !.active = now]

Touched(c, kind) == IF kind \in Passive THEN c ELSE [c EXCEPT !.active = now]

\* A mutant: the session is not cleared, so that its token survives the login.
Opened_uncleared(c) == IF c = None THEN Len(logins) + 1 ELSE c.token

\* The token of a new session.
Opened(c) == Len(logins) + 1

Answer(t, result, who, token, set) ==
    pending' = [pending EXCEPT ![t] = [@ EXCEPT !.step = "answered", !.result = result,
                                                !.user = who, !.token = token, !.set = set,
                                                !.cookie = None, !.csrf = 0]]
Keep == <<>>     \* no Set-Cookie
Set(c) == <<c>>

\* 401: the session is cleared.
Expired(t) == Answer(t, "401", None, 0, Set(None)) /\ UNCHANGED <<logins, cookie, tab>>

Served(t, c) ==
    LET kind == pending[t].kind
        after == Touched(c, kind)
        new == IF after = c THEN Keep ELSE Set(after)
    IN /\ IF kind \in Passive THEN Answer(t, "ok", None, 0, new)
          ELSE Answer(t, "ok", logins[c.login].user, Token(c), new)
       /\ logins' = IF kind \in Passive THEN logins ELSE [logins EXCEPT ![c.login].used = now]
       /\ UNCHANGED <<cookie, tab>>

_csrf_protect(t) == pending[t].kind \in Unsafe => pending[t].csrf = Token(pending[t].cookie)

At(t, kinds, step) == pending[t] # None /\ pending[t].kind \in kinds /\ pending[t].step = step
Clock == UNCHANGED <<now, version, revoked>>

csrf_refuses(t) ==
    /\ At(t, Unsafe, "sent") /\ ~_csrf_protect(t)
    /\ Answer(t, "403", None, 0, Keep) /\ UNCHANGED <<logins, cookie, tab>> /\ Clock

\* Every GET; /session answers a browser without a session as well.
read(t) ==
    LET c == pending[t].cookie
    IN /\ At(t, {"session", "bootstrap", "poll"}, "sent")
       /\ IF current_user(c) THEN Served(t, c) ELSE Expired(t)
       /\ Clock

login(t, u) ==
    /\ At(t, {"login"}, "sent") /\ _csrf_protect(t) /\ Len(logins) < MaxLogins
    /\ logins' = Append(logins, [user |-> u, version |-> version[u], issued |-> now, used |-> now])
    /\ LET c == [login |-> Len(logins) + 1, token |-> Opened(pending[t].cookie), active |-> now]
       IN Answer(t, "ok", u, Token(c), Set(c))
    /\ UNCHANGED <<cookie, tab>> /\ Clock

logout(t) ==
    /\ At(t, {"logout"}, "sent") /\ _csrf_protect(t)
    /\ Answer(t, "ok", None, 0, Set(None)) /\ UNCHANGED <<logins, cookie, tab>> /\ Clock

\* login_required lets the request in, before its transaction takes the lock.
admit(t) ==
    LET c == pending[t].cookie
    IN /\ At(t, {"write"}, "sent") /\ _csrf_protect(t)
       /\ IF current_user(c)
          THEN /\ pending' = [pending EXCEPT ![t].step = "locked", ![t].set = Set(Touched(c, "write"))]
               /\ logins' = [logins EXCEPT ![c.login].used = now]
               /\ UNCHANGED <<cookie, tab>>
          ELSE Expired(t)
       /\ Clock

locked_actor(t) ==
    LET c == pending[t].cookie
    IN /\ At(t, {"write"}, "locked")
       /\ IF Unchanged(c)
          THEN /\ Answer(t, "ok", logins[c.login].user, 0, pending[t].set)
               /\ UNCHANGED <<logins, cookie, tab>>
          ELSE Expired(t)
       /\ Clock

\* A reset of the password, a disabling or a change of the role, of an account
\* whose current version has a session: any other change ends nothing.
revoke(u) ==
    /\ revoked < MaxRevocations /\ revoked' = revoked + 1
    /\ \E i \in 1 .. Len(logins) : logins[i].user = u /\ logins[i].version = version[u]
    /\ version' = [version EXCEPT ![u] = @ + 1]
    /\ UNCHANGED <<now, logins, cookie, tab, pending>>

\* Time counts from the first login.
tick ==
    /\ now < MaxTime /\ logins # <<>> /\ now' = now + 1
    /\ UNCHANGED <<version, revoked, logins, cookie, tab, pending>>

-----------------------------------------------------------------------------
(* The tabs *)

\* request: the cookie and the token of the moment.
Request(t, kind, c, csrf) ==
    [kind |-> kind, cookie |-> c, csrf |-> csrf, step |-> "sent",
     shown |-> IF kind = "write" THEN tab[t].shown ELSE None,
     result |-> "", user |-> None, token |-> 0, set |-> Keep]

send(t, kind) ==
    /\ pending[t] = None
    /\ kind \in (IF tab[t].phase = "app" THEN {"bootstrap", "poll", "write", "logout"}
                 ELSE {"session", "login"})
    /\ pending' = [pending EXCEPT ![t] = Request(t, kind, cookie, tab[t].csrf)]
    /\ UNCHANGED <<logins, cookie, tab>> /\ Clock

\* The answer is taken: its cookie, the new state of the tab, and the request
\* the page sends next without waiting for its user.
Take(t, state, next) ==
    LET set == pending[t].set
    IN /\ cookie' = IF set = Keep THEN cookie ELSE set[1]
       /\ tab' = [tab EXCEPT ![t] = state]
       /\ pending' = [pending EXCEPT ![t] = IF next = "" THEN None
                                            ELSE Request(t, next, cookie', state.csrf)]
       /\ UNCHANGED logins /\ Clock

Arrived(t, kind) == At(t, {kind}, "answered")
Entering(t) == tab[t].phase # "app"
Captured(t) == [tab[t] EXCEPT !.csrf = pending[t].token]

expireSession(t) ==
    /\ \E kind \in {"bootstrap", "poll", "write"} : Arrived(t, kind)
    /\ ~Entering(t) /\ pending[t].result = "401"
    /\ Take(t, [tab[t] EXCEPT !.phase = "expired", !.held = None], "")

\* Nothing of what the tab shows depends on these.
other_answer(t) ==
    /\ \/ pending[t] # None /\ pending[t].step = "answered" /\ pending[t].result = "403"
       \/ \E kind \in {"poll", "write"} : Arrived(t, kind) /\ pending[t].result = "ok"
    /\ Take(t, tab[t], "")

logged_in(t) ==
    /\ Arrived(t, "login") /\ pending[t].result = "ok"
    /\ Take(t, Captured(t), "session")

onLoggedOut(t) ==
    /\ Arrived(t, "logout") /\ pending[t].result = "ok"
    /\ Take(t, [Captured(t) EXCEPT !.phase = "login", !.shown = None, !.held = None,
                                   !.mixed = FALSE], "")

\* start and readAuthenticatedContext read the session first and the bootstrap
\* after it; reauthenticateContext only wants the token for its login.
session_entering(t) ==
    /\ Arrived(t, "session") /\ Entering(t)
    /\ \/ Take(t, Captured(t), "")
       \/ /\ pending[t].result = "ok"
          /\ Take(t, [Captured(t) EXCEPT !.held = pending[t].user], "bootstrap")

Accept(state, who) ==
    [state EXCEPT !.phase = "app", !.shown = who, !.held = None, !.mixed = FALSE]

\* validateAuthenticatedContext: both answers must be of one account.
bootstrap_entering(t) ==
    /\ Arrived(t, "bootstrap") /\ Entering(t)
    /\ IF pending[t].result = "ok" /\ pending[t].user = tab[t].held
       THEN Take(t, Accept(tab[t], pending[t].user), "")
       ELSE Take(t, [tab[t] EXCEPT !.held = None], "")

\* loadBootstrap in a tab that shows an account: another one is confirmed by
\* reading the session, whose token is taken before the two are compared.
loadBootstrap(t) ==
    /\ Arrived(t, "bootstrap") /\ ~Entering(t) /\ pending[t].result = "ok"
    /\ IF pending[t].user = tab[t].shown THEN Take(t, tab[t], "")
       ELSE Take(t, [tab[t] EXCEPT !.held = pending[t].user], "session")

onAuthenticatedContext(t) ==
    /\ Arrived(t, "session") /\ ~Entering(t)
    /\ IF pending[t].user = tab[t].held
       THEN Take(t, Accept(Captured(t), tab[t].held), "")
       ELSE Take(t, [Captured(t) EXCEPT !.held = None, !.mixed = TRUE], "")

Serve(t) ==
    \/ csrf_refuses(t) \/ read(t) \/ logout(t) \/ admit(t) \/ locked_actor(t)
    \/ \E u \in Users : login(t, u)
Page(t) ==
    \/ \E kind \in {"session", "login", "bootstrap", "poll", "write", "logout"} : send(t, kind)
    \/ expireSession(t) \/ other_answer(t) \/ logged_in(t) \/ onLoggedOut(t)
    \/ session_entering(t) \/ bootstrap_entering(t) \/ loadBootstrap(t) \/ onAuthenticatedContext(t)

Next == tick \/ (\E u \in Users : revoke(u)) \/ \E t \in Tabs : Serve(t) \/ Page(t)
Spec == Init /\ [][Next]_vars

-----------------------------------------------------------------------------
(* Properties *)

\* However answers overtake each other and set the cookie back, a session is
\* served for Absolute after its login and for Idle after it was last used; the
\* polls of the page do not use it.
SessionEnds ==
    [][\A t \in Tabs :
         /\ pending[t] # None /\ pending[t].step = "sent"
         /\ pending[t].kind \notin Unsafe \ {"write"}
         /\ pending'[t].step = "locked" \/ pending'[t].result = "ok"
         => LET l == logins[pending[t].cookie.login]
            IN now - l.issued <= Absolute /\ now - l.used <= Idle]_vars

\* What a tab writes is written by the account it showed, although another tab may
\* have changed the account at any time; unless the tab has said that it read two
\* accounts at once.
WritesAsShown ==
    \A t \in Tabs :
        At(t, {"write"}, "answered") /\ pending[t].result = "ok" /\ ~tab[t].mixed =>
            pending[t].user = pending[t].shown
=============================================================================
