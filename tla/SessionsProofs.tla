--------------------------- MODULE SessionsProofs ---------------------------
(***************************************************************************)
(* A tab writes for the account it shows and a session ends with its time: *)
(* for any number of accounts, tabs and logins.                            *)
(***************************************************************************)
EXTENDS Sessions, TLAPS

-----------------------------------------------------------------------------
(* The invariant *)

Login == [user : Users, version : Nat, issued : Nat, used : Nat]
Session == [login : Nat, token : Nat, active : Nat]
Tab == [phase : {"login", "app", "expired"}, shown : Users \cup {None},
        csrf : Nat, held : Users \cup {None}, mixed : BOOLEAN]
Pending == [kind : {"session", "login", "bootstrap", "poll", "write", "logout"},
            cookie : Session \cup {None}, csrf : Nat,
            step : {"sent", "locked", "answered"}, shown : Users \cup {None},
            result : {"", "ok", "401", "403"}, user : Users \cup {None}, token : Nat,
            set : {Keep} \cup {Set(c) : c \in Session \cup {None}}]

SessionsTypes ==
    /\ now \in Nat /\ version \in [Users -> Nat] /\ logins \in Seq(Login)
    /\ cookie \in Session \cup {None}
    /\ tab \in [Tabs -> Tab] /\ pending \in [Tabs -> Pending \cup {None}]

\* A cookie names a session that was begun, carries its token and is not
\* younger than the last use of the session.
Genuine(c) ==
    c # None => /\ c.login \in 1 .. Len(logins) /\ c.token = c.login
                /\ c.active <= logins[c.login].used

\* The token k is that of a session of u, or of no session.
TokenOf(k, u) == k # 0 => k \in 1 .. Len(logins) /\ logins[k].user = u

TabInv(t) ==
    tab[t].phase = "app" /\ ~tab[t].mixed => TokenOf(tab[t].csrf, tab[t].shown)

\* What the request of a tab carries, and what its answer says.
RequestInv(t) ==
    LET p == pending[t] IN
    /\ Genuine(p.cookie)
    /\ p.set # Keep => Genuine(p.set[1])
    /\ p.step = "sent" => p.result = ""
    /\ p.kind = "session" /\ p.step = "answered" => TokenOf(p.token, p.user)
    /\ p.kind = "login" => Entering(t)
    /\ p.kind = "bootstrap" /\ Entering(t) => TokenOf(tab[t].csrf, tab[t].held)
    /\ p.kind = "write" /\ p.step = "sent" =>
         tab[t].phase = "app" /\ p.csrf = tab[t].csrf /\ p.shown = tab[t].shown
    /\ p.kind = "write" /\ p.step = "locked" =>
         p.cookie # None /\ (~tab[t].mixed => logins[p.cookie.login].user = p.shown)
    /\ p.kind = "write" /\ p.step = "answered" /\ p.result = "ok" /\ ~tab[t].mixed =>
         p.user = p.shown

(***************************************************************************)
(* WritesAsShown needs the token of a tab: it is that of the account the   *)
(* tab shows, and a request whose token and cookie agree is of its session.*)
(***************************************************************************)
SessionsInv ==
    /\ SessionsTypes
    /\ \A k \in 1 .. Len(logins) : logins[k].used <= now
    /\ Genuine(cookie)
    /\ \A t \in Tabs : TabInv(t) /\ (pending[t] # None => RequestInv(t))

-----------------------------------------------------------------------------
(* What the helpers do *)

\* An answer changes the request of its tab alone, and keeps what was asked.
LEMMA AnswerIs ==
  ASSUME NEW t \in Tabs, pending \in [Tabs -> Pending \cup {None}], pending[t] # None,
         NEW result \in {"ok", "401", "403"}, NEW who \in Users \cup {None}, NEW token \in Nat,
         NEW set \in {Keep} \cup {Set(c) : c \in Session \cup {None}},
         Answer(t, result, who, token, set)
  PROVE  /\ pending' \in [Tabs -> Pending \cup {None}]
         /\ \A j \in Tabs \ {t} : pending'[j] = pending[j]
         /\ pending'[t].kind = pending[t].kind /\ pending'[t].step = "answered"
         /\ pending'[t].shown = pending[t].shown /\ pending'[t].result = result
         /\ pending'[t].user = who /\ pending'[t].token = token
         /\ pending'[t].set = set /\ pending'[t].cookie = None
  <1> DEFINE p == [pending[t] EXCEPT !.step = "answered", !.result = result, !.user = who,
                                     !.token = token, !.set = set, !.cookie = None, !.csrf = 0]
  <1>1. pending' = [pending EXCEPT ![t] = p]
    BY DEF Answer
  <1>2. pending[t] \in Pending
    OBVIOUS
  <1>3. /\ p \in Pending /\ p.kind = pending[t].kind /\ p.step = "answered"
        /\ p.shown = pending[t].shown /\ p.result = result /\ p.user = who
        /\ p.token = token /\ p.set = set /\ p.cookie = None
    BY <1>2 DEF Pending
  <1> HIDE DEF p
  <1> QED BY <1>1, <1>3

\* No session is lost, and none is taken for another's.
Grown ==
    /\ logins' \in Seq(Login) /\ Len(logins) <= Len(logins')
    /\ \A k \in 1 .. Len(logins) : /\ logins'[k].user = logins[k].user
                                   /\ logins[k].used <= logins'[k].used
                                   /\ logins'[k].issued = logins[k].issued
    /\ \A k \in 1 .. Len(logins') : logins'[k].used <= now

LEMMA UsedGrows ==
  ASSUME SessionsInv, NEW i \in 1 .. Len(logins), logins' = [logins EXCEPT ![i].used = now]
  PROVE  Grown /\ logins'[i].used = now /\ Len(logins') = Len(logins)
  <1> DEFINE l == [logins[i] EXCEPT !.used = now]
  <1>1. /\ logins \in Seq(Login) /\ now \in Nat /\ logins[i] \in Login
        /\ \A k \in 1 .. Len(logins) : logins[k] \in Login /\ logins[k].used <= now
    BY DEF SessionsInv, SessionsTypes
  <1>2. l \in Login /\ l.used = now /\ l.user = logins[i].user /\ l.issued = logins[i].issued
    BY <1>1 DEF Login
  <1>3. logins' = [logins EXCEPT ![i] = l]
    OBVIOUS
  <1>4. \A k \in 1 .. Len(logins) : logins[k].used \in Nat
    BY <1>1 DEF Login
  <1> HIDE DEF l
  <1>5. logins' \in Seq(Login) /\ Len(logins') = Len(logins)
    BY <1>1, <1>2, <1>3
  <1>6. \A k \in 1 .. Len(logins) : logins'[k] = IF k = i THEN l ELSE logins[k]
    BY <1>1, <1>3
  <1> QED BY <1>1, <1>2, <1>4, <1>5, <1>6 DEF Grown

LEMMA BegunGrows ==
  ASSUME SessionsInv, NEW l \in Login, l.used = now, logins' = Append(logins, l)
  PROVE  Grown /\ logins'[Len(logins) + 1] = l /\ Len(logins') = Len(logins) + 1
  <1>1. /\ logins \in Seq(Login) /\ now \in Nat
        /\ \A k \in 1 .. Len(logins) : logins[k] \in Login /\ logins[k].used <= now
    BY DEF SessionsInv, SessionsTypes
  <1>2. \A k \in 1 .. Len(logins) : logins[k].used \in Nat
    BY <1>1 DEF Login
  <1> QED BY <1>1, <1>2 DEF Grown

LEMMA SameGrows ==
  ASSUME SessionsInv, logins' = logins
  PROVE  Grown
  <1>1. /\ logins \in Seq(Login) /\ now \in Nat
        /\ \A k \in 1 .. Len(logins) : logins[k] \in Login /\ logins[k].used <= now
    BY DEF SessionsInv, SessionsTypes
  <1>2. \A k \in 1 .. Len(logins) : logins[k].used \in Nat
    BY <1>1 DEF Login
  <1> QED BY <1>1, <1>2 DEF Grown

LEMMA Lengths ==
  ASSUME SessionsInv, Grown
  PROVE  /\ Len(logins) \in Nat /\ Len(logins') \in Nat /\ Len(logins) <= Len(logins')
         /\ 1 .. Len(logins) \subseteq 1 .. Len(logins')
         /\ \A k \in 1 .. Len(logins) :
              /\ logins[k].used \in Nat /\ logins'[k].used \in Nat
              /\ logins[k].used <= logins'[k].used /\ logins'[k].user = logins[k].user
  <1>1. /\ Len(logins) \in Nat /\ Len(logins') \in Nat /\ Len(logins) <= Len(logins')
        /\ \A k \in 1 .. Len(logins) : logins[k] \in Login
        /\ \A k \in 1 .. Len(logins') : logins'[k] \in Login
    BY DEF SessionsInv, SessionsTypes, Grown
  <1>2. 1 .. Len(logins) \subseteq 1 .. Len(logins')
    BY <1>1
  <1> QED BY <1>1, <1>2 DEF Grown, Login

\* What is known of a tab stays so while it does nothing itself.
LEMMA TabStays ==
  ASSUME SessionsInv, Grown, NEW j \in Tabs, tab'[j] = tab[j]
  PROVE  TabInv(j)'
BY Lengths DEF SessionsInv, TabInv, TokenOf

LEMMA GenuineStays ==
  ASSUME SessionsInv, Grown, NEW j \in Tabs
  PROVE  /\ Genuine(cookie) /\ (cookie' = cookie => Genuine(cookie)')
         /\ pending[j] # None => Genuine(pending[j].cookie)
         /\ pending'[j] = pending[j] /\ pending[j] # None =>
              /\ Genuine(pending[j].cookie)'
              /\ pending[j].set # Keep => Genuine(pending[j].set[1])'
  <1>1. ASSUME NEW c \in Session \cup {None}, Genuine(c)
        PROVE  c # None => /\ c.login \in 1 .. Len(logins') /\ c.token = c.login
                           /\ c.active <= logins'[c.login].used
    <2>1. CASE c # None
      <3>1. c.active \in Nat
        BY <2>1 DEF Session
      <3> QED BY <1>1, <3>1, Lengths DEF Genuine
    <2> QED BY <2>1
  <1>2. cookie \in Session \cup {None} /\ Genuine(cookie)
    BY DEF SessionsInv, SessionsTypes
  <1>3. ASSUME pending[j] # None
        PROVE  /\ pending[j].cookie \in Session \cup {None} /\ Genuine(pending[j].cookie)
               /\ pending[j].set # Keep => /\ pending[j].set[1] \in Session \cup {None}
                                           /\ Genuine(pending[j].set[1])
    <2>1. pending[j] \in Pending /\ RequestInv(j)
      BY <1>3 DEF SessionsInv, SessionsTypes
    <2>2. pending[j].cookie \in Session \cup {None}
      BY <2>1 DEF Pending
    <2>3. pending[j].set # Keep => \E c \in Session \cup {None} : pending[j].set = <<c>>
      BY <2>1 DEF Pending, Set
    <2>4. pending[j].set # Keep => pending[j].set[1] \in Session \cup {None}
      BY <2>3
    <2>5. /\ Genuine(pending[j].cookie)
          /\ pending[j].set # Keep => Genuine(pending[j].set[1])
      BY <2>1 DEF RequestInv
    <2> QED BY <2>2, <2>4, <2>5
  <1> QED BY <1>1, <1>2, <1>3 DEF Genuine

LEMMA RequestStays ==
  ASSUME SessionsInv, Grown, NEW j \in Tabs, tab'[j] = tab[j], pending'[j] = pending[j],
         pending[j] # None
  PROVE  RequestInv(j)'
  <1>1. /\ Genuine(pending[j].cookie)' /\ (pending[j].set # Keep => Genuine(pending[j].set[1])')
        /\ RequestInv(j) /\ pending[j] \in Pending /\ tab[j] \in Tab /\ logins \in Seq(Login)
    BY GenuineStays DEF SessionsInv, SessionsTypes
  <1>2. pending[j].cookie # None => pending[j].cookie.login \in 1 .. Len(logins)
    BY <1>1 DEF RequestInv, Genuine
  <1>3. /\ pending'[j].kind = "session" /\ pending'[j].step = "answered" =>
             TokenOf(pending[j].token, pending[j].user)'
        /\ pending'[j].kind = "bootstrap" /\ Entering(j)' => TokenOf(tab[j].csrf, tab[j].held)'
    BY <1>1, Lengths DEF RequestInv, TokenOf, Entering
  <1> QED BY <1>1, <1>2, <1>3, Lengths DEF RequestInv, Keep, Entering

\* A step of the server for the request of t.
LEMMA ServerStep ==
  ASSUME SessionsInv, Grown, NEW t \in Tabs, UNCHANGED <<cookie, tab, now, version>>,
         pending' \in [Tabs -> Pending \cup {None}], RequestInv(t)',
         \A j \in Tabs \ {t} : pending'[j] = pending[j]
  PROVE  SessionsInv'
  <1>1. SessionsTypes'
    BY DEF SessionsInv, SessionsTypes, Grown
  <1>2. Genuine(cookie)'
    BY GenuineStays
  <1>3. ASSUME NEW j \in Tabs  PROVE TabInv(j)' /\ (pending'[j] # None => RequestInv(j)')
    BY TabStays, RequestStays
  <1>4. (\A k \in 1 .. Len(logins) : logins[k].used <= now)'
    BY DEF Grown
  <1> QED BY <1>1, <1>2, <1>3, <1>4 DEF SessionsInv

\* c is a cookie that is genuine after the step.
Lasting(c) ==
    c # None => /\ c.login \in 1 .. Len(logins') /\ c.token = c.login
                /\ c.active <= logins'[c.login].used

\* An answer that tells the truth about the session keeps the invariant.
LEMMA AnswerKeepsInv ==
  ASSUME SessionsInv, Grown, NEW t \in Tabs, UNCHANGED <<cookie, tab, now, version>>,
         pending[t] # None,
         NEW result \in {"ok", "401", "403"}, NEW who \in Users \cup {None}, NEW token \in Nat,
         NEW set \in {Keep} \cup {Set(c) : c \in Session \cup {None}},
         Answer(t, result, who, token, set),
         set # Keep => Lasting(set[1]),
         pending[t].kind = "session" /\ token # 0 =>
           token \in 1 .. Len(logins) /\ logins[token].user = who,
         pending[t].kind = "write" /\ result = "ok" /\ ~tab[t].mixed => who = pending[t].shown
  PROVE  SessionsInv'
  <1>1. pending \in [Tabs -> Pending \cup {None}] /\ RequestInv(t) /\ tab[t] \in Tab
    BY DEF SessionsInv, SessionsTypes
  <1>2. /\ pending' \in [Tabs -> Pending \cup {None}]
        /\ \A j \in Tabs \ {t} : pending'[j] = pending[j]
        /\ pending'[t].kind = pending[t].kind /\ pending'[t].step = "answered"
        /\ pending'[t].shown = pending[t].shown /\ pending'[t].result = result
        /\ pending'[t].user = who /\ pending'[t].token = token
        /\ pending'[t].set = set /\ pending'[t].cookie = None
    BY <1>1, AnswerIs
  <1>3. /\ Genuine(pending[t].cookie)'
        /\ (pending[t].set # Keep => Genuine(pending[t].set[1]))'
    BY <1>2 DEF Genuine, Lasting, Keep
  <1>4. /\ (pending[t].kind = "session" => TokenOf(pending[t].token, pending[t].user))'
        /\ (pending[t].kind = "bootstrap" /\ Entering(t) => TokenOf(tab[t].csrf, tab[t].held))'
    BY <1>1, <1>2, Lengths DEF RequestInv, TokenOf, Entering
  <1>5. RequestInv(t)'
    BY <1>1, <1>2, <1>3, <1>4 DEF RequestInv, Entering
  <1> QED BY <1>2, <1>5, ServerStep

-----------------------------------------------------------------------------
(* The server *)

LEMMA ServeKeepsInv ==
  ASSUME SessionsInv, NEW t \in Tabs, Serve(t)
  PROVE  SessionsInv'
  <1> DEFINE c == pending[t].cookie
             Sets == {Keep} \cup {Set(x) : x \in Session \cup {None}}
  <1>1. pending[t] # None /\ UNCHANGED <<cookie, tab, now, version>>
    BY DEF Serve, csrf_refuses, read, logout, admit, locked_actor, login, At, Clock, Served,
       Expired
  <1>2. /\ pending \in [Tabs -> Pending \cup {None}] /\ pending[t] \in Pending
        /\ c \in Session \cup {None} /\ RequestInv(t) /\ Genuine(c)
        /\ now \in Nat /\ version \in [Users -> Nat]
    BY <1>1 DEF SessionsInv, SessionsTypes, RequestInv, Pending
  <1>3. c # None => /\ c.login \in 1 .. Len(logins) /\ logins[c.login] \in Login
                    /\ Token(c) = c.login /\ c.login \in Nat /\ c.login # 0
    BY <1>2 DEF SessionsInv, SessionsTypes, Genuine, Token
  <1>4. Keep \in Sets /\ Set(None) \in Sets /\ (Set(None) # Keep => Lasting(Set(None)[1]))
    BY DEF Set, Lasting
  <1>5. CASE csrf_refuses(t)
    <2>1. Answer(t, "403", None, 0, Keep) /\ Grown
      BY <1>5, SameGrows DEF csrf_refuses
    <2> QED BY <1>1, <1>4, <2>1, AnswerKeepsInv
  <1>6. ASSUME Expired(t)  PROVE SessionsInv'
    <2>1. Answer(t, "401", None, 0, Set(None)) /\ Grown
      BY <1>6, SameGrows DEF Expired
    <2> QED BY <1>1, <1>4, <2>1, AnswerKeepsInv
  <1>7. ASSUME Served(t, c), current_user(c), pending[t].kind # "write"  PROVE SessionsInv'
    <2> DEFINE after == Touched(c, pending[t].kind)
               new == IF after = c THEN Keep ELSE Set(after)
    <2>1. c # None /\ logins[c.login].user \in Users
      BY <1>3, <1>7 DEF current_user, Login
    <2>2. after \in Session /\ after.login = c.login /\ after.token = c.token
          /\ after.active = IF pending[t].kind \in Passive THEN c.active ELSE now
      BY <1>2, <2>1 DEF Touched, Session
    <2> HIDE DEF after
    <2>3. new \in Sets
      BY <2>2
    <2>4. Grown /\ (pending[t].kind \notin Passive => logins'[c.login].used = now)
      BY <1>3, <1>7, <2>1, SameGrows, UsedGrows DEF Served
    <2>5. Lasting(after)
      BY <1>2, <1>3, <2>1, <2>2, <2>4, Lengths DEF Genuine, Session, Lasting
    <2>6. new # Keep => Lasting(new[1])
      BY <2>5 DEF Set
    <2>7. CASE pending[t].kind \in Passive
      <3>1. Answer(t, "ok", None, 0, new)
        BY <1>7, <2>7 DEF Served, after
      <3> HIDE DEF new
      <3> QED BY <1>1, <1>7, <2>3, <2>4, <2>6, <3>1, AnswerKeepsInv
    <2>8. CASE pending[t].kind \notin Passive
      <3>1. Answer(t, "ok", logins[c.login].user, Token(c), new)
        BY <1>7, <2>8 DEF Served, after
      <3> HIDE DEF new
      <3> QED BY <1>1, <1>3, <1>7, <2>1, <2>3, <2>4, <2>6, <3>1, AnswerKeepsInv
    <2> QED BY <2>7, <2>8
  <1>8. CASE read(t)
    BY <1>6, <1>7, <1>8 DEF read, At
  <1>9. CASE logout(t)
    <2>1. Answer(t, "ok", None, 0, Set(None)) /\ Grown /\ pending[t].kind = "logout"
      BY <1>9, SameGrows DEF logout, At
    <2> QED BY <1>1, <1>4, <2>1, AnswerKeepsInv
  <1>10. ASSUME NEW u \in Users, login(t, u)  PROVE SessionsInv'
    <2> DEFINE l == [user |-> u, version |-> version[u], issued |-> now, used |-> now]
               new == [login |-> Len(logins) + 1, token |-> Opened(c), active |-> now]
    <2>1. l \in Login /\ l.used = now
      BY <1>2 DEF Login
    <2>2. Grown /\ logins'[Len(logins) + 1] = l /\ Len(logins') = Len(logins) + 1
      BY <1>10, <2>1, BegunGrows DEF login
    <2>3. Len(logins) \in Nat
      BY <2>2, Lengths
    <2>4. new \in Session /\ new.login = Len(logins) + 1 /\ new.token = new.login
          /\ new.active = now
      BY <1>2, <2>3 DEF Opened, Session
    <2>5. Answer(t, "ok", u, Token(new), Set(new)) /\ pending[t].kind = "login"
      BY <1>10 DEF login, At
    <2> HIDE DEF new
    <2>6. Lasting(new)
      BY <1>2, <2>1, <2>2, <2>3, <2>4 DEF Lasting
    <2>7. Set(new) \in Sets /\ Lasting(Set(new)[1]) /\ Token(new) \in Nat
      BY <2>3, <2>4, <2>6 DEF Set, Token
    <2> QED BY <1>1, <2>2, <2>5, <2>7, AnswerKeepsInv
  <1>11. CASE admit(t) /\ current_user(c)
    <2> DEFINE after == Touched(c, "write")
               p == [pending[t] EXCEPT !.step = "locked", !.set = Set(after)]
    <2>1. c # None /\ logins[c.login].user \in Users
      BY <1>3, <1>11 DEF current_user, Login
    <2>2. after \in Session /\ after.login = c.login /\ after.token = c.token
          /\ after.active = now
      BY <1>2, <2>1 DEF Touched, Session, Passive
    <2>3. Grown /\ logins'[c.login].used = now
      BY <1>3, <1>11, <2>1, UsedGrows DEF admit
    <2> HIDE DEF after
    <2>4. Lasting(after) /\ Lasting(c)
      BY <1>2, <1>3, <2>1, <2>2, <2>3, Lengths DEF Genuine, Lasting, Session
    <2>5. p \in Pending /\ p.kind = pending[t].kind /\ p.cookie = c /\ p.shown = pending[t].shown
          /\ p.step = "locked" /\ p.set = Set(after)
      BY <1>2, <2>2 DEF Pending
    <2> HIDE DEF p
    <2>6. pending' = [pending EXCEPT ![t] = p]
      BY <1>2, <1>11 DEF admit, after, p
    <2>7. pending[t].kind = "write" /\ pending[t].step = "sent" /\ pending[t].csrf = Token(c)
      BY <1>11 DEF admit, At, _csrf_protect, Unsafe
    <2>8. c.login = tab[t].csrf /\ pending[t].shown = tab[t].shown /\ tab[t].phase = "app"
      BY <1>2, <1>3, <2>1, <2>7 DEF RequestInv
    <2>9. ~tab[t].mixed => logins[c.login].user = pending[t].shown
      BY <1>3, <2>1, <2>8 DEF SessionsInv, TabInv, TokenOf
    <2>10. pending' \in [Tabs -> Pending \cup {None}] /\ pending'[t] = p
           /\ \A j \in Tabs \ {t} : pending'[j] = pending[j]
      BY <1>2, <2>5, <2>6
    <2>11. Genuine(pending[t].cookie)' /\ (pending[t].set # Keep => Genuine(pending[t].set[1]))'
      BY <2>4, <2>5, <2>10 DEF Genuine, Lasting, Set
    <2>12. RequestInv(t)'
      BY <1>1, <1>3, <2>1, <2>3, <2>5, <2>7, <2>9, <2>10, <2>11, Lengths DEF RequestInv
    <2> QED BY <1>1, <2>3, <2>10, <2>12, ServerStep
  <1>12. CASE admit(t) /\ ~current_user(c)
    BY <1>6, <1>12 DEF admit
  <1>13. CASE locked_actor(t) /\ Unchanged(c)
    <2>1. /\ c # None /\ logins[c.login].user \in Users
          /\ ~tab[t].mixed => logins[c.login].user = pending[t].shown
      BY <1>2, <1>3, <1>13 DEF locked_actor, At, RequestInv, Login
    <2>2. Answer(t, "ok", logins[c.login].user, 0, pending[t].set) /\ pending[t].kind = "write"
          /\ logins' = logins
      BY <1>13 DEF locked_actor, At
    <2>3. Grown
      BY <2>2, SameGrows
    <2>4. pending[t].set \in Sets
      BY <1>2 DEF Pending
    <2>5. pending[t].set # Keep => Lasting(pending[t].set[1])
      BY <1>2, <2>2 DEF RequestInv, Genuine, Lasting
    <2> QED BY <1>1, <2>1, <2>2, <2>3, <2>4, <2>5, AnswerKeepsInv
  <1>14. CASE locked_actor(t) /\ ~Unchanged(c)
    BY <1>6, <1>14 DEF locked_actor
  <1> QED BY <1>5, <1>8, <1>9, <1>10, <1>11, <1>12, <1>13, <1>14 DEF Serve

-----------------------------------------------------------------------------
(* The page *)

\* An answer is taken: the cookie is one of those known to be genuine, and what
\* the tab shows next has to agree with its token.
LEMMA TakeKeepsInv ==
  ASSUME SessionsInv, NEW t \in Tabs, pending[t] # None,
         NEW state \in Tab, NEW next \in {"", "session", "bootstrap"},
         Take(t, state, next),
         state.phase = "app" /\ ~state.mixed => TokenOf(state.csrf, state.shown),
         next = "bootstrap" /\ state.phase # "app" => TokenOf(state.csrf, state.held)
  PROVE  SessionsInv'
  <1> DEFINE new == Request(t, next, cookie', state.csrf)
  <1>1. /\ logins' = logins /\ now' = now /\ version' = version
        /\ tab' = [tab EXCEPT ![t] = state]
        /\ pending' = [pending EXCEPT ![t] = IF next = "" THEN None ELSE new]
    BY DEF Take, Clock
  <1>2. Grown
    BY <1>1, SameGrows
  <1>3. pending[t] \in Pending /\ RequestInv(t) /\ SessionsTypes /\ Genuine(cookie)
    BY DEF SessionsInv, SessionsTypes
  <1>4. cookie' \in Session \cup {None} /\ Genuine(cookie)'
    <2>1. CASE pending[t].set = Keep
      BY <1>2, <1>3, <2>1, GenuineStays DEF Take, SessionsTypes
    <2>2. CASE pending[t].set # Keep
      <3>1. PICK c \in Session \cup {None} : pending[t].set = Set(c)
        BY <1>3, <2>2 DEF Pending
      <3>2. cookie' = c /\ Genuine(c)
        <4>1. cookie' = pending[t].set[1] /\ Genuine(pending[t].set[1])
          BY <1>3, <2>2 DEF Take, RequestInv
        <4>2. Set(c)[1] = c
          BY DEF Set
        <4> QED BY <3>1, <4>1, <4>2
      <3> QED BY <1>1, <3>2 DEF Genuine
    <2> QED BY <2>1, <2>2
  <1>5. next # "" => /\ new \in Pending /\ new.kind = next /\ new.cookie = cookie'
                     /\ new.step = "sent" /\ new.result = "" /\ new.set = Keep
    BY <1>4 DEF Request, Pending, Tab
  <1> HIDE DEF new
  <1>6. SessionsTypes'
    BY <1>1, <1>3, <1>4, <1>5 DEF SessionsTypes
  <1>7. ASSUME NEW j \in Tabs, j # t  PROVE TabInv(j)' /\ (pending'[j] # None => RequestInv(j)')
    <2>1. tab'[j] = tab[j] /\ pending'[j] = pending[j]
      BY <1>1, <1>3, <1>7 DEF SessionsTypes
    <2> QED BY <1>2, <2>1, TabStays, RequestStays
  <1>8. tab'[t] = state /\ pending'[t] = IF next = "" THEN None ELSE new
    BY <1>1, <1>3 DEF SessionsTypes
  <1>9. TabInv(t)' /\ (pending'[t] # None => RequestInv(t)')
    BY <1>1, <1>4, <1>5, <1>8 DEF TabInv, TokenOf, RequestInv, Genuine, Entering
  <1>10. (\A k \in 1 .. Len(logins) : logins[k].used <= now)'
    BY <1>1 DEF SessionsInv
  <1> QED BY <1>4, <1>6, <1>7, <1>9, <1>10 DEF SessionsInv

LEMMA SendKeepsInv ==
  ASSUME SessionsInv, NEW t \in Tabs,
         NEW kind \in {"session", "login", "bootstrap", "poll", "write", "logout"}, send(t, kind)
  PROVE  SessionsInv'
  <1> DEFINE new == Request(t, kind, cookie, tab[t].csrf)
  <1>1. /\ pending' = [pending EXCEPT ![t] = new] /\ UNCHANGED <<logins, cookie, tab, now, version>>
        /\ kind = "write" => tab[t].phase = "app"
        /\ kind = "bootstrap" => ~Entering(t)
        /\ kind = "login" => Entering(t)
    BY DEF send, Clock, Entering
  <1>2. SessionsTypes /\ Genuine(cookie) /\ Grown
    BY <1>1, SameGrows DEF SessionsInv
  <1>3. /\ new \in Pending /\ new.kind = kind /\ new.cookie = cookie /\ new.csrf = tab[t].csrf
        /\ new.step = "sent" /\ new.result = "" /\ new.set = Keep
        /\ kind = "write" => new.shown = tab[t].shown
    BY <1>2 DEF Request, Pending, Tab, SessionsTypes
  <1> HIDE DEF new
  <1>4. /\ pending' \in [Tabs -> Pending \cup {None}] /\ pending'[t] = new
        /\ \A j \in Tabs \ {t} : pending'[j] = pending[j]
    BY <1>1, <1>2, <1>3 DEF SessionsTypes
  <1>5. RequestInv(t)'
    BY <1>1, <1>2, <1>3, <1>4 DEF RequestInv, Genuine, Entering
  <1> QED BY <1>1, <1>2, <1>4, <1>5, ServerStep

LEMMA PageKeepsInv ==
  ASSUME SessionsInv, NEW t \in Tabs, Page(t)
  PROVE  SessionsInv'
  <1> USE DEF Arrived, At, Entering
  <1>1. CASE \E kind \in {"session", "login", "bootstrap", "poll", "write", "logout"} : send(t, kind)
    BY <1>1, SendKeepsInv
  <1>2. SUFFICES ASSUME pending[t] # None  PROVE SessionsInv'
    BY <1>1 DEF Page, expireSession, other_answer, logged_in, onLoggedOut, session_entering,
         bootstrap_entering, loadBootstrap, onAuthenticatedContext
  <1>3. /\ tab[t] \in Tab /\ pending[t] \in Pending /\ TabInv(t) /\ RequestInv(t)
    BY <1>2 DEF SessionsInv, SessionsTypes
  <1>4. /\ pending[t].user \in Users \cup {None} /\ pending[t].token \in Nat
        /\ Captured(t) \in Tab /\ Captured(t) = [tab[t] EXCEPT !.csrf = pending[t].token]
    BY <1>3 DEF Pending, Tab, Captured
  <1>5. CASE expireSession(t)
    <2> DEFINE s == [tab[t] EXCEPT !.phase = "expired", !.held = None]
    <2>1. s \in Tab /\ s.phase = "expired" /\ Take(t, s, "")
      BY <1>3, <1>5 DEF Tab, expireSession
    <2> HIDE DEF s
    <2> QED BY <1>2, <2>1, TakeKeepsInv
  <1>6. CASE other_answer(t)
    BY <1>2, <1>3, <1>6, TakeKeepsInv DEF other_answer, TabInv
  <1>7. CASE logged_in(t)
    <2>1. Captured(t).phase # "app" /\ Take(t, Captured(t), "session")
      BY <1>3, <1>4, <1>7 DEF logged_in, RequestInv, Tab
    <2> QED BY <1>2, <1>4, <2>1, TakeKeepsInv
  <1>8. CASE onLoggedOut(t)
    <2> DEFINE s == [Captured(t) EXCEPT !.phase = "login", !.shown = None, !.held = None,
                                        !.mixed = FALSE]
    <2>1. s \in Tab /\ s.phase = "login" /\ Take(t, s, "")
      BY <1>4, <1>8 DEF Tab, onLoggedOut
    <2> HIDE DEF s
    <2> QED BY <1>2, <2>1, TakeKeepsInv
  <1>9. CASE session_entering(t)
    <2> DEFINE s == [Captured(t) EXCEPT !.held = pending[t].user]
    <2>1. /\ Captured(t).phase # "app" /\ TokenOf(pending[t].token, pending[t].user)
          /\ Take(t, Captured(t), "") \/ Take(t, s, "bootstrap")
      BY <1>3, <1>4, <1>9 DEF session_entering, RequestInv, Tab
    <2>2. s \in Tab /\ s.phase # "app" /\ s.csrf = pending[t].token /\ s.held = pending[t].user
      BY <1>3, <1>4, <2>1 DEF Tab
    <2> HIDE DEF s
    <2> QED BY <1>2, <1>4, <2>1, <2>2, TakeKeepsInv
  <1>10. CASE bootstrap_entering(t)
    <2> DEFINE s == Accept(tab[t], pending[t].user)
               r == [tab[t] EXCEPT !.held = None]
    <2>1. /\ s \in Tab /\ s.csrf = tab[t].csrf /\ s.shown = pending[t].user
          /\ r \in Tab /\ r.phase # "app"
      BY <1>3, <1>4, <1>10 DEF Accept, Tab, bootstrap_entering
    <2>2. \/ pending[t].user = tab[t].held /\ Take(t, s, "")
          \/ Take(t, r, "")
      BY <1>10 DEF bootstrap_entering
    <2>3. TokenOf(tab[t].csrf, tab[t].held)
      BY <1>3, <1>10 DEF bootstrap_entering, RequestInv
    <2> HIDE DEF s, r
    <2> QED BY <1>2, <2>1, <2>2, <2>3, TakeKeepsInv
  <1>11. CASE loadBootstrap(t)
    <2> DEFINE s == [tab[t] EXCEPT !.held = pending[t].user]
    <2>1. /\ s \in Tab /\ s.csrf = tab[t].csrf /\ s.shown = tab[t].shown
          /\ s.mixed = tab[t].mixed /\ s.phase = tab[t].phase
      BY <1>3, <1>4 DEF Tab
    <2>2. Take(t, tab[t], "") \/ Take(t, s, "session")
      BY <1>11 DEF loadBootstrap
    <2> HIDE DEF s
    <2> QED BY <1>2, <1>3, <2>1, <2>2, TakeKeepsInv DEF TabInv
  <1>12. CASE onAuthenticatedContext(t)
    <2> DEFINE s == Accept(Captured(t), tab[t].held)
               r == [Captured(t) EXCEPT !.held = None, !.mixed = TRUE]
    <2>1. /\ s \in Tab /\ s.csrf = pending[t].token /\ s.shown = tab[t].held
          /\ r \in Tab /\ r.mixed
      BY <1>3, <1>4 DEF Accept, Tab
    <2>2. \/ pending[t].user = tab[t].held /\ Take(t, s, "")
          \/ Take(t, r, "")
      BY <1>12 DEF onAuthenticatedContext
    <2>3. TokenOf(pending[t].token, pending[t].user)
      BY <1>3, <1>12 DEF onAuthenticatedContext, RequestInv
    <2> HIDE DEF s, r
    <2> QED BY <1>2, <2>1, <2>2, <2>3, TakeKeepsInv
  <1> QED BY <1>1, <1>5, <1>6, <1>7, <1>8, <1>9, <1>10, <1>11, <1>12 DEF Page

\* Time and the administrators change nothing a cookie or a tab says.
LEMMA WorldStep ==
  ASSUME SessionsInv, UNCHANGED <<logins, cookie, tab, pending>>,
         now' \in Nat, now <= now', version' \in [Users -> Nat]
  PROVE  SessionsInv'
  <1>1. Grown
    BY SameGrows
  <1>2. SessionsTypes' /\ Genuine(cookie)'
    BY <1>1, GenuineStays DEF SessionsInv, SessionsTypes, Genuine
  <1>3. (\A k \in 1 .. Len(logins) : logins[k].used <= now)'
    BY <1>1, Lengths DEF SessionsInv, SessionsTypes
  <1>4. ASSUME NEW t \in Tabs  PROVE TabInv(t)' /\ (pending'[t] # None => RequestInv(t)')
    BY <1>1, TabStays, RequestStays
  <1> QED BY <1>2, <1>3, <1>4 DEF SessionsInv

LEMMA SessionsInvHolds == Spec => []SessionsInv
  <1>1. Init => SessionsInv
    <2> SUFFICES ASSUME Init  PROVE SessionsInv
      OBVIOUS
    <2>1. SessionsTypes
      BY DEF Init, SessionsTypes, Tab
    <2> QED BY <2>1 DEF Init, SessionsInv, Genuine, TabInv
  <1>2. SessionsInv /\ [Next]_vars => SessionsInv'
    <2> SUFFICES ASSUME SessionsInv, [Next]_vars  PROVE SessionsInv'
      OBVIOUS
    <2>1. CASE tick
      BY <2>1, WorldStep DEF tick, SessionsInv, SessionsTypes
    <2>2. ASSUME NEW u \in Users, revoke(u)  PROVE SessionsInv'
      BY <2>2, WorldStep DEF revoke, SessionsInv, SessionsTypes
    <2>3. CASE UNCHANGED vars
      BY <2>3, WorldStep DEF vars, SessionsInv, SessionsTypes
    <2> QED BY <2>1, <2>2, <2>3, ServeKeepsInv, PageKeepsInv DEF Next
  <1> QED BY <1>1, <1>2, PTL DEF Spec

-----------------------------------------------------------------------------
(* Theorems *)

\* A tab writes for the account it shows, however many tabs of the browser
\* change the account (security.py _csrf_protect, locked_actor, App.jsx).
THEOREM WritesAlwaysAsShown == Spec => []WritesAsShown
  <1>1. SessionsInv => WritesAsShown
    BY DEF SessionsInv, WritesAsShown, RequestInv, At
  <1> QED BY <1>1, SessionsInvHolds, PTL

\* A step of another tab, of the administrators or of time.
LEMMA NotOurs ==
  ASSUME SessionsInv, NEW t \in Tabs, pending[t] # None, pending[t].step = "sent",
         [Next]_vars, ~Serve(t)
  PROVE  pending'[t] = pending[t]
  <1>1. pending \in [Tabs -> Pending \cup {None}]
    BY DEF SessionsInv, SessionsTypes
  <1>2. ~Page(t)
    BY DEF Page, send, expireSession, other_answer, logged_in, onLoggedOut, session_entering,
         bootstrap_entering, loadBootstrap, onAuthenticatedContext, Arrived, At
  <1>3. ASSUME NEW j \in Tabs, j # t, Serve(j) \/ Page(j)  PROVE pending'[t] = pending[t]
    <2>1. \E p : pending' = [pending EXCEPT ![j] = p]
      BY <1>3 DEF Serve, csrf_refuses, read, logout, admit, locked_actor, login, Served, Expired,
           Answer, Page, send, expireSession, other_answer, logged_in, onLoggedOut,
           session_entering, bootstrap_entering, loadBootstrap, onAuthenticatedContext, Take
    <2> QED BY <1>1, <1>3, <2>1
  <1> QED BY <1>2, <1>3 DEF Next, tick, revoke, vars

\* A request that is let in has the session of its cookie, within its times.
LEMMA ServedInTime ==
  ASSUME SessionsInv, NEW t \in Tabs, pending[t] # None, pending[t].step = "sent",
         pending[t].kind \notin Unsafe \ {"write"}, Serve(t),
         pending'[t].step = "locked" \/ pending'[t].result = "ok"
  PROVE  current_user(pending[t].cookie)
  <1>1. pending \in [Tabs -> Pending \cup {None}] /\ Set(None) \in {Set(c) : c \in Session \cup {None}}
    BY DEF SessionsInv, SessionsTypes
  <1>2. ~Expired(t) /\ ~csrf_refuses(t)
    <2>1. ASSUME Answer(t, "401", None, 0, Set(None)) \/ Answer(t, "403", None, 0, Keep)
          PROVE  FALSE
      BY <1>1, <2>1, AnswerIs
    <2> QED BY <2>1 DEF Expired, csrf_refuses
  <1> QED BY <1>2 DEF Serve, read, logout, admit, locked_actor, login, At, Unsafe

\* A session is served for Absolute after its login and for Idle after its last
\* use, however answers overtake each other and set the cookie back.
THEOREM SessionsAlwaysEnd == Spec => SessionEnds
  <1>1. ASSUME SessionsInv, [Next]_vars, NEW t \in Tabs,
               pending[t] # None, pending[t].step = "sent",
               pending[t].kind \notin Unsafe \ {"write"},
               pending'[t].step = "locked" \/ pending'[t].result = "ok"
        PROVE  LET l == logins[pending[t].cookie.login]
               IN now - l.issued <= Absolute /\ now - l.used <= Idle
    <2> DEFINE c == pending[t].cookie
    <2>1. RequestInv(t) /\ pending[t] \in Pending /\ now \in Nat /\ logins \in Seq(Login)
      BY <1>1 DEF SessionsInv, SessionsTypes
    <2>2. Serve(t)
      BY <1>1, <2>1, NotOurs DEF RequestInv
    <2>3. current_user(c)
      BY <1>1, <2>2, ServedInTime
    <2>4. c \in Session /\ c.active \in Nat /\ c.login \in 1 .. Len(logins)
          /\ c.active <= logins[c.login].used
      BY <2>1, <2>3 DEF RequestInv, Genuine, Pending, Session, current_user
    <2>5. logins[c.login].used \in Nat
      <3>1. logins[c.login] \in Login
        BY <2>1, <2>4
      <3> QED BY <3>1 DEF Login
    <2> QED BY <2>1, <2>3, <2>4, <2>5, SessionsAssumption DEF current_user
  <1>2. SessionsInv /\ [Next]_vars =>
          [\A t \in Tabs :
             /\ pending[t] # None /\ pending[t].step = "sent"
             /\ pending[t].kind \notin Unsafe \ {"write"}
             /\ pending'[t].step = "locked" \/ pending'[t].result = "ok"
             => LET l == logins[pending[t].cookie.login]
                IN now - l.issued <= Absolute /\ now - l.used <= Idle]_vars
    BY <1>1
  <1> QED BY <1>2, SessionsInvHolds, PTL DEF Spec, SessionEnds
=============================================================================
