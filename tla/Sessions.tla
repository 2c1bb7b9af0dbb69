-------------------------------- MODULE Sessions --------------------------------
(***************************************************************************)
(* Sessions: the signed tokens of the back end (auth/session.go), the      *)
(* middleware that renews them on every request (auth/middleware.go), the  *)
(* handlers for login, logout and session info (api/auth_handlers.go), and *)
(* the session store of the tabs of one browser (store/session.ts,         *)
(* lib/api.ts).                                                            *)
(*                                                                         *)
(* The back end keeps nothing: a token is all there is of a session.  The  *)
(* tabs share the cookie that holds it; each has its own store and its own *)
(* queue of changes.  Replies are handled in any order, and a reply sets   *)
(* the cookie when the browser gets it, whatever the page does with it.    *)
(***************************************************************************)
EXTENDS Naturals, FiniteSets

CONSTANTS
  Users,
  NoUser,
  Tabs,
  Slots,          \* bound: requests under way at once
  SessionTTL,
  MaxAbsoluteSessionTTL,
  MaxTime,        \* bound: the clock stops there
  MaxLogins,      \* bound: successful logins, and sessions begun in a tab
  Disturbances    \* subset of {"reload", "lost_reply"}

ASSUME SessionsAssumption ==
  /\ NoUser \notin Users
  /\ SessionTTL \in Nat \ {0}
  /\ MaxAbsoluteSessionTTL \in Nat \ {0}
  /\ MaxTime \in Nat
  /\ MaxLogins \in Nat

VARIABLES
  now,        \* the clock
  cookie,     \* the session cookie of the browser
  tab,        \* the session store and the queue of each tab
  request,    \* the requests under way
  loggedIn    \* history: who logged in when

vars == <<now, cookie, tab, request, loggedIn>>

-----------------------------------------------------------------------------
(* Tokens.                                                                 *)
Token == [sub : Users, iat : Nat, exp : Nat]
NoToken == [sub |-> NoUser, iat |-> 0, exp |-> 0]

Issue(user) == [sub |-> user, iat |-> now, exp |-> now + SessionTTL]

Expired(token) == token = NoToken \/ now > token.exp

(* The definitions called ...Uncapped, ...Expired and the like are mistakes *)
(* one could make in the one that follows, for the mutants.                *)
RenewedExpUncapped(token) == now + SessionTTL

(* Renewing slides the end of the session, never past the absolute cap.    *)
RenewedExp(token) ==
  LET cap == token.iat + MaxAbsoluteSessionTTL
  IN IF now + SessionTTL > cap THEN cap ELSE now + SessionTTL

RenewableExpired(token) == RenewedExp(token) > now
Renewable(token) == ~Expired(token) /\ RenewedExp(token) > now

RenewReissued(token) == Issue(token.sub)
Renew(token) == [token EXCEPT !.exp = RenewedExp(token)]

-----------------------------------------------------------------------------
(* Requests.  A reply leaves the cookie alone or sets it; logout sets it   *)
(* to nothing.                                                             *)
Kinds == {"login", "check", "work", "logout"}
Keep == [set |-> FALSE, token |-> NoToken]
SetCookie(token) == [set |-> TRUE, token |-> token]

Free == [stage |-> "free", kind |-> "work", tab |-> NoUser, generation |-> 0, session |-> 0,
         cookie |-> NoToken, user |-> NoUser, ok |-> FALSE, reply |-> Keep]

(* The generation is captured and the cookie attached when it is sent;     *)
(* session is a history field: the session the tab was in.                 *)
Send(t, kind, user) ==
  \E s \in Slots :
    /\ request[s].stage = "free"
    /\ request' = [request EXCEPT ![s] =
         [Free EXCEPT !.stage = "sent", !.kind = kind, !.tab = t, !.generation = tab[t].generation,
                      !.session = tab[t].session, !.cookie = cookie, !.user = user]]

Waiting(t, kind) == \E s \in Slots : request[s].stage # "free" /\ request[s].tab = t /\ request[s].kind = kind

NewTab == [status |-> "unknown", user |-> NoUser, lastUser |-> NoUser, generation |-> 0,
           queue |-> {}, session |-> 0, reloaded |-> FALSE]

Init ==
  /\ now = 0
  /\ cookie = NoToken
  /\ tab = [t \in Tabs |-> NewTab]
  /\ request = [s \in Slots |-> Free]
  /\ loggedIn = {}

-----------------------------------------------------------------------------
(* The tabs.                                                               *)

(* ProtectedRoute asks who is signed in while it does not know.            *)
CheckSession(t) ==
  /\ tab[t].status = "unknown" /\ ~Waiting(t, "check")
  /\ Send(t, "check", NoUser)
  /\ UNCHANGED <<now, cookie, tab, loggedIn>>

(* The login page is busy while a login is under way.                      *)
Login(t, user) ==
  /\ tab[t].status = "anonymous" /\ ~Waiting(t, "login")
  /\ Send(t, "login", user)
  /\ UNCHANGED <<now, cookie, tab, loggedIn>>

Work(t) ==
  /\ tab[t].status = "authenticated"
  /\ Send(t, "work", NoUser)
  /\ UNCHANGED <<now, cookie, tab, loggedIn>>

Logout(t) ==
  /\ tab[t].status = "authenticated" /\ ~Waiting(t, "logout")
  /\ Send(t, "logout", NoUser)
  /\ UNCHANGED <<now, cookie, tab, loggedIn>>

(* The user queues a change; the queue remembers whose changes it holds.   *)
QueueChange(t) ==
  /\ tab[t].status = "authenticated"
  /\ tab' = [tab EXCEPT ![t].queue = @ \cup {tab[t].user}]
  /\ UNCHANGED <<now, cookie, request, loggedIn>>

(* A reload aborts the requests of the tab and forgets the store; the      *)
(* queue is in sessionStorage.  Bound: one reload of each tab.             *)
Reload(t) ==
  /\ "reload" \in Disturbances /\ ~tab[t].reloaded
  /\ tab' = [tab EXCEPT ![t] = [NewTab EXCEPT !.queue = tab[t].queue, !.session = tab[t].session, !.reloaded = TRUE]]
  /\ request' = [s \in Slots |-> IF request[s].tab = t THEN Free ELSE request[s]]
  /\ UNCHANGED <<now, cookie, loggedIn>>

-----------------------------------------------------------------------------
(* The back end.                                                           *)
Answer(s, ok, reply, user) ==
  request' = [request EXCEPT ![s].stage = "answered", ![s].ok = ok, ![s].reply = reply, ![s].user = user,
                             ![s].cookie = NoToken]

(* Whether the credentials are right is decided elsewhere.                 *)
HandleLogin(s) ==
  /\ request[s].stage = "sent" /\ request[s].kind = "login"
  /\ \/ /\ Cardinality(loggedIn) < MaxLogins
        /\ Answer(s, TRUE, SetCookie(Issue(request[s].user)), request[s].user)
        /\ loggedIn' = loggedIn \cup {<<request[s].user, now>>}
     \/ Answer(s, FALSE, Keep, request[s].user) /\ UNCHANGED loggedIn
  /\ UNCHANGED <<now, cookie, tab>>

(* RequireSession: an expired token is answered with 401, any other is     *)
(* renewed in the reply, and logout then clears what was just set.         *)
RequireSession(s) ==
  /\ request[s].stage = "sent" /\ request[s].kind # "login"
  /\ LET token == request[s].cookie IN
     IF Renewable(token)
     THEN Answer(s, TRUE, SetCookie(IF request[s].kind = "logout" THEN NoToken ELSE Renew(token)), token.sub)
     ELSE Answer(s, FALSE, Keep, NoUser)
  /\ UNCHANGED <<now, cookie, tab, loggedIn>>

-----------------------------------------------------------------------------
(* What the store does with a reply.                                       *)
SignedIn(st, user) ==
  [st EXCEPT !.user = user, !.lastUser = user, !.status = "authenticated",
             !.generation = @ + 1, !.session = @ + 1]

SignedOut(st) == [st EXCEPT !.user = NoUser, !.status = "anonymous"]

CheckDoneUndecided(st, r) == IF r.ok THEN SignedIn(st, r.user) ELSE st
CheckDone(st, r) == IF r.ok THEN SignedIn(st, r.user) ELSE SignedOut(st)

LoginDoneKeepsQueue(st, r) == IF r.ok THEN SignedIn(st, r.user) ELSE st

(* Changes queued by someone else must not be committed (or seen).         *)
LoginDone(st, r) ==
  IF ~r.ok THEN st
  ELSE SignedIn([st EXCEPT !.queue = IF st.lastUser \notin {NoUser, r.user} THEN {} ELSE @], r.user)

HandleUnauthorizedAlways(st, r) == SignedOut(st)

(* A 401 counts only for the generation in which the request was issued.   *)
HandleUnauthorized(st, r) == IF r.generation = st.generation THEN SignedOut(st) ELSE st

WorkDone(st, r) == IF r.ok THEN st ELSE HandleUnauthorized(st, r)

(* logout() ends the session in the tab whatever the reply is.             *)
LogoutDone(st) == [SignedOut(st) EXCEPT !.lastUser = NoUser, !.queue = {}]

Handled(st, r) ==
  CASE r.kind = "check" -> CheckDone(st, r)
    [] r.kind = "login" -> LoginDone(st, r)
    [] r.kind = "work" -> WorkDone(st, r)
    [] r.kind = "logout" -> LogoutDone(st)

(* The browser takes the cookie, the store takes the reply.                *)
Deliver(s) ==
  LET r == request[s] IN
  /\ r.stage = "answered"
  /\ cookie' = IF r.reply.set THEN r.reply.token ELSE cookie
  /\ tab' = [tab EXCEPT ![r.tab] = Handled(@, r)]
  /\ request' = [request EXCEPT ![s] = Free]
  /\ UNCHANGED <<now, loggedIn>>

(* No answer: fetch() throws.  The probe takes that for "not signed in",   *)
(* logout() signs the tab out, the others leave the store alone.           *)
Lose(s) ==
  LET r == request[s] IN
  /\ "lost_reply" \in Disturbances /\ r.stage # "free"
  /\ tab' = [tab EXCEPT ![r.tab] = CASE r.kind = "check" -> SignedOut(@)
                                     [] r.kind = "logout" -> LogoutDone(@)
                                     [] OTHER -> @]
  /\ request' = [request EXCEPT ![s] = Free]
  /\ UNCHANGED <<now, cookie, loggedIn>>

Tick == now < MaxTime /\ now' = now + 1 /\ UNCHANGED <<cookie, tab, request, loggedIn>>

(* Bound: a tab begins at most MaxLogins sessions.                         *)
MayBegin(t) == tab[t].session < MaxLogins

TabStep(t) ==
  \/ MayBegin(t) /\ CheckSession(t)
  \/ MayBegin(t) /\ \E user \in Users : Login(t, user)
  \/ Work(t)
  \/ Logout(t)
  \/ QueueChange(t)
  \/ Reload(t)

Reply(s) == HandleLogin(s) \/ RequireSession(s) \/ Deliver(s)

Next ==
  \/ \E t \in Tabs : TabStep(t)
  \/ \E s \in Slots : Reply(s) \/ Lose(s)
  \/ Tick

Spec == Init /\ [][Next]_vars

(* The page sends its probe by itself, and the back end answers.  That the *)
(* tabs compete for the slots is the bound's doing, hence SF.              *)
FairSpec ==
  /\ Spec
  /\ \A t \in Tabs : SF_vars(MayBegin(t) /\ CheckSession(t))
  /\ \A s \in Slots : WF_vars(Reply(s))

-----------------------------------------------------------------------------
(* The state stays in its type: cookies are tokens that the server issues. *)
TypeOK ==
  /\ now \in 0..MaxTime
  /\ cookie \in Token \cup {NoToken}
  /\ \A t \in Tabs : tab[t].status \in {"unknown", "anonymous", "authenticated"} /\ tab[t].queue \subseteq Users
  /\ \A s \in Slots : request[s].stage \in {"free", "sent", "answered"} /\ request[s].cookie \in Token \cup {NoToken}
  /\ loggedIn \subseteq Users \X Nat

Tokens == {cookie} \cup {request[s].cookie : s \in Slots} \cup {request[s].reply.token : s \in Slots}

(* However often it is renewed, a token says truly who logged in and when, *)
(* and it never outlives the absolute cap counted from that login          *)
(* (session.go, MaxAbsoluteSessionTTL).                                    *)
TokensAreBounded ==
  \A token \in Tokens \ {NoToken} :
    /\ <<token.sub, token.iat>> \in loggedIn
    /\ token.exp =< token.iat + MaxAbsoluteSessionTTL \/ token.exp = token.iat + SessionTTL

(* A request is accepted only while the session it belongs to is young     *)
(* enough, and never on behalf of anybody but the one who logged in.       *)
AcceptedInTime ==
  [][\A s \in Slots :
       RequireSession(s) /\ request'[s].ok =>
         \E login \in loggedIn : login[1] = request'[s].user /\ now =< login[2] + MaxAbsoluteSessionTTL]_vars

(* The answer to a request of an earlier session never ends a later one,   *)
(* except that of logout (session.ts, handleUnauthorized).                 *)
StaleReplyNeverSignsOut ==
  [][\A s \in Slots :
       /\ Deliver(s) /\ request[s].kind # "logout"
       /\ tab[request[s].tab].status = "authenticated"
       /\ tab'[request[s].tab].status # "authenticated"
       => request[s].session = tab[request[s].tab].session]_vars

Foreign(t) == tab[t].status = "authenticated" /\ \E user \in tab[t].queue : user # tab[t].user

(* A signed-in user sees no changes of somebody else, unless the tab was   *)
(* reloaded and so forgot whose queue it holds.                            *)
ForeignChangesOnlyAfterReload == \A t \in Tabs : Foreign(t) => tab[t].reloaded

(* "Changes queued by someone else must not be committed (or seen) by this *)
(* user" (session.ts, login).                                              *)
NoForeignChanges == \A t \in Tabs : ~Foreign(t)

(* A tab does not show "Loading..." for ever.                              *)
StatusSettles == \A t \in Tabs : tab[t].status = "unknown" /\ MayBegin(t) ~> tab[t].status # "unknown"
=============================================================================
