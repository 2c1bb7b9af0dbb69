----------------------------- MODULE SessionsProofs -----------------------------
(***************************************************************************)
(* What TLAPS proves about Sessions: for any users, tabs, requests under   *)
(* way, lifetimes, bounds and disturbances.                                *)
(***************************************************************************)
EXTENDS Sessions, TLAPS

USE SessionsAssumption

(* The types of tabs and requests in full.                                 *)
MaybeToken == Token \cup {NoToken}
MaybeUser == Users \cup {NoUser}

TabState ==
  [status : {"unknown", "anonymous", "authenticated"}, user : MaybeUser, lastUser : MaybeUser,
   generation : Nat, queue : SUBSET Users, session : Nat, reloaded : BOOLEAN]

SlotState ==
  [stage : {"free", "sent", "answered"}, kind : Kinds, tab : Tabs \cup {NoUser},
   generation : Nat, session : Nat, cookie : MaybeToken, user : MaybeUser, ok : BOOLEAN,
   reply : [set : BOOLEAN, token : MaybeToken]]

StateOK ==
  /\ now \in 0..MaxTime /\ cookie \in MaybeToken
  /\ tab \in [Tabs -> TabState] /\ request \in [Slots -> SlotState]
  /\ loggedIn \subseteq Users \X Nat

(* A tab whose status is unknown has probes under way and nothing else; in *)
(* any other it has none.  A request that carries the generation of its    *)
(* tab was sent in the session the tab is in.  Who is to be signed in is a *)
(* user.                                                                   *)
SoundRequest(s) ==
  LET r == request[s] IN
  r.stage # "free" =>
    /\ r.tab \in Tabs
    /\ r.kind = "check" <=> tab[r.tab].status = "unknown"
    /\ r.generation =< tab[r.tab].generation
    /\ r.generation = tab[r.tab].generation => r.session = tab[r.tab].session
    /\ r.kind = "login" => r.user \in Users
    /\ r.stage = "answered" /\ r.ok /\ r.kind = "check" => r.user \in Users

(* A tab sends one probe at a time.                                        *)
OneProbe ==
  \A s1, s2 \in Slots :
    /\ request[s1].stage # "free" /\ request[s1].kind = "check"
    /\ request[s2].stage # "free" /\ request[s2].kind = "check"
    /\ request[s1].tab = request[s2].tab
    => s1 = s2

(* A tab knows whose changes it holds, until it is reloaded.               *)
KnowsItsQueue(st) ==
  /\ st.status = "authenticated" => st.user = st.lastUser /\ st.user \in Users
  /\ ~st.reloaded => st.queue \subseteq {st.lastUser}
  /\ ~st.reloaded /\ st.status = "unknown" => st.queue = {}

(* The inductive invariant.                                                *)
SessionsInv ==
  /\ StateOK
  /\ \A s \in Slots : SoundRequest(s)
  /\ OneProbe
  /\ \A t \in Tabs : KnowsItsQueue(tab[t])
  /\ TokensAreBounded

-----------------------------------------------------------------------------
(* Tokens.                                                                 *)

(* What TokensAreBounded says of one token, when these logins happened.    *)
Bounded(token, logins) ==
  token # NoToken =>
    /\ <<token.sub, token.iat>> \in logins
    /\ token.exp =< token.iat + MaxAbsoluteSessionTTL \/ token.exp = token.iat + SessionTTL

AllBounded(logins) ==
  /\ Bounded(cookie, logins)
  /\ \A s \in Slots : Bounded(request[s].cookie, logins) /\ Bounded(request[s].reply.token, logins)

LEMMA BoundedTokens == TokensAreBounded <=> AllBounded(loggedIn)
<1>1. \A token : token \in Tokens <=>
        \/ token = cookie
        \/ \E s \in Slots : token = request[s].cookie \/ token = request[s].reply.token
  BY DEF Tokens
<1>2. TokensAreBounded <=> \A token \in Tokens : Bounded(token, loggedIn)
  BY DEF TokensAreBounded, Bounded
<1> QED
  BY <1>1, <1>2 DEF AllBounded

LEMMA BoundedTokensNext == TokensAreBounded' <=> AllBounded(loggedIn)'
BY BoundedTokens, PTL

LEMMA BoundedStays ==
  ASSUME NEW token, NEW logins, NEW more, logins \subseteq more, Bounded(token, logins)
  PROVE  Bounded(token, more)
BY DEF Bounded

LEMMA NoTokenIsBounded == \A logins : Bounded(NoToken, logins)
BY DEF Bounded

(* A token just issued is bounded by the login it is issued for.           *)
LEMMA IssueFacts ==
  ASSUME NEW user \in Users, now \in 0..MaxTime
  PROVE  /\ Issue(user) \in MaybeToken
         /\ \A logins : <<user, now>> \in logins => Bounded(Issue(user), logins)
<1>1. /\ Issue(user) \in Token
      /\ Issue(user).sub = user /\ Issue(user).iat = now /\ Issue(user).exp = now + SessionTTL
  BY DEF Issue, Token
<1> QED
  BY <1>1 DEF Bounded, MaybeToken

(* A renewed token names the same login and ends at the cap at the latest; *)
(* one that may be renewed is younger than the cap.                        *)
LEMMA RenewFacts ==
  ASSUME NEW token \in MaybeToken, now \in 0..MaxTime, Renewable(token)
  PROVE  /\ token \in Token /\ token # NoToken
         /\ Renew(token) \in MaybeToken
         /\ \A logins : Bounded(token, logins) => Bounded(Renew(token), logins)
         /\ now =< token.iat + MaxAbsoluteSessionTTL
<1>1. token \in Token /\ token # NoToken
  BY DEF Renewable, Expired, MaybeToken
<1>2. /\ token.sub \in Users /\ token.iat \in Nat
      /\ RenewedExp(token) \in Nat
      /\ RenewedExp(token) =< token.iat + MaxAbsoluteSessionTTL
  BY <1>1 DEF Token, RenewedExp
<1>3. /\ Renew(token) \in Token
      /\ Renew(token).sub = token.sub /\ Renew(token).iat = token.iat
      /\ Renew(token).exp = RenewedExp(token)
  BY <1>1, <1>2 DEF Renew, Token
<1>4. now =< token.iat + MaxAbsoluteSessionTTL
  BY <1>2 DEF Renewable
<1> QED
  BY <1>1, <1>2, <1>3, <1>4 DEF Bounded, MaybeToken

-----------------------------------------------------------------------------
(* What the store does with a reply.                                       *)

(* A session that begins leaves the generation of the requests before it.  *)
Advances(st, next) ==
  /\ next.generation >= st.generation
  /\ next.generation = st.generation => next.session = st.session

LEMMA SignedInFacts ==
  ASSUME NEW st \in TabState, NEW user \in Users,
         ~st.reloaded => st.queue \subseteq {user}
  PROVE  /\ SignedIn(st, user) \in TabState
         /\ KnowsItsQueue(SignedIn(st, user))
         /\ Advances(st, SignedIn(st, user))
         /\ SignedIn(st, user).status = "authenticated"
<1> DEFINE next == SignedIn(st, user)
<1>1. next \in TabState
  <2>1. /\ user \in MaybeUser /\ "authenticated" \in {"unknown", "anonymous", "authenticated"}
        /\ st.generation + 1 \in Nat /\ st.session + 1 \in Nat
    BY DEF TabState, MaybeUser
  <2>2. next = [st EXCEPT !.user = user, !.lastUser = user, !.status = "authenticated",
                          !.generation = st.generation + 1, !.session = st.session + 1]
    BY DEF SignedIn, TabState
  <2> QED
    BY <2>1, <2>2, Zenon DEF TabState
<1>2. /\ next.status = "authenticated" /\ next.user = user /\ next.lastUser = user
      /\ next.generation = st.generation + 1
      /\ next.queue = st.queue /\ next.reloaded = st.reloaded
  BY DEF SignedIn, TabState
<1>3. st.generation \in Nat
  BY DEF TabState
<1> QED
  BY <1>1, <1>2, <1>3 DEF KnowsItsQueue, Advances

(* SignedOut leaves everything but the user and the status alone.          *)
LEMMA SignedOutFields ==
  ASSUME NEW st \in TabState
  PROVE  /\ SignedOut(st) \in TabState
         /\ SignedOut(st).status = "anonymous"
         /\ SignedOut(st).lastUser = st.lastUser /\ SignedOut(st).queue = st.queue
         /\ SignedOut(st).reloaded = st.reloaded
         /\ SignedOut(st).generation = st.generation /\ SignedOut(st).session = st.session
BY DEF SignedOut, TabState, MaybeUser

LEMMA SignedOutFacts ==
  ASSUME NEW st \in TabState, KnowsItsQueue(st)
  PROVE  /\ SignedOut(st) \in TabState
         /\ KnowsItsQueue(SignedOut(st))
         /\ Advances(st, SignedOut(st))
         /\ SignedOut(st).status = "anonymous"
<1>1. st.generation \in Nat
  BY DEF TabState
<1> QED
  BY <1>1, SignedOutFields DEF KnowsItsQueue, Advances

LEMMA LogoutDoneFacts ==
  ASSUME NEW st \in TabState
  PROVE  /\ LogoutDone(st) \in TabState
         /\ KnowsItsQueue(LogoutDone(st))
         /\ Advances(st, LogoutDone(st))
         /\ LogoutDone(st).status = "anonymous"
<1> DEFINE out == SignedOut(st)
           next == LogoutDone(st)
<1>0. out \in TabState /\ out.status = "anonymous"
      /\ out.generation = st.generation /\ out.session = st.session
  BY SignedOutFields
<1>1. next = [out EXCEPT !.lastUser = NoUser, !.queue = {}]
  BY DEF LogoutDone
<1> HIDE DEF out, next
<1>2. next \in TabState /\ next.status = "anonymous" /\ next.queue = {}
      /\ next.generation = out.generation /\ next.session = out.session
  BY <1>0, <1>1 DEF TabState, MaybeUser
<1>3. st.generation \in Nat
  BY DEF TabState
<1>4. KnowsItsQueue(next) /\ Advances(st, next)
  BY <1>0, <1>2, <1>3 DEF KnowsItsQueue, Advances
<1> QED
  BY <1>2, <1>4 DEF next

LEMMA StaysFacts ==
  ASSUME NEW st \in TabState
  PROVE  Advances(st, st)
BY DEF Advances, TabState

(* What a reply makes of the tab it is for: it keeps its queue apart, it   *)
(* never goes back to an earlier session, and it is known afterwards who   *)
(* is signed in, if the reply was to the probe.                            *)
LEMMA HandledFacts ==
  ASSUME NEW st \in TabState, KnowsItsQueue(st), NEW r \in SlotState,
         r.kind = "check" <=> st.status = "unknown",
         r.kind \in {"check", "login"} /\ r.ok => r.user \in Users
  PROVE  /\ Handled(st, r) \in TabState
         /\ KnowsItsQueue(Handled(st, r))
         /\ Advances(st, Handled(st, r))
         /\ Handled(st, r).status # "unknown"
<1>0. r.kind \in Kinds
  BY DEF SlotState
<1>1. CASE r.kind = "check"
  <2>1. Handled(st, r) = IF r.ok THEN SignedIn(st, r.user) ELSE SignedOut(st)
    BY <1>1 DEF Handled, CheckDone
  <2>2. ~st.reloaded => st.queue \subseteq {r.user}
    BY <1>1 DEF KnowsItsQueue
  <2> QED
    BY <1>1, <2>1, <2>2, SignedInFacts, SignedOutFacts
<1>2. CASE r.kind = "login"
  <2> DEFINE kept == [st EXCEPT !.queue = IF st.lastUser \notin {NoUser, r.user} THEN {} ELSE @]
  <2>1. Handled(st, r) = IF r.ok THEN SignedIn(kept, r.user) ELSE st
    BY <1>2 DEF Handled, LoginDone
  <2>2. CASE ~r.ok
    BY <1>2, <2>1, <2>2, StaysFacts
  <2>3. CASE r.ok
    <3>1. /\ kept \in TabState
          /\ kept.generation = st.generation /\ kept.session = st.session
          /\ kept.reloaded = st.reloaded
          /\ kept.queue = IF st.lastUser \notin {NoUser, r.user} THEN {} ELSE st.queue
      BY DEF TabState
    <3>2. ~kept.reloaded => kept.queue \subseteq {r.user}
      <4>1. st.queue \subseteq Users
        BY DEF TabState
      <4> QED
        BY <3>1, <4>1 DEF KnowsItsQueue
    <3> HIDE DEF kept
    <3>3. /\ SignedIn(kept, r.user) \in TabState
          /\ KnowsItsQueue(SignedIn(kept, r.user))
          /\ Advances(kept, SignedIn(kept, r.user))
          /\ SignedIn(kept, r.user).status = "authenticated"
      BY <1>2, <2>3, <3>1, <3>2, SignedInFacts
    <3> QED
      BY <2>1, <2>3, <3>1, <3>3 DEF Advances
  <2> QED
    BY <2>2, <2>3
<1>3. CASE r.kind = "work"
  <2>1. Handled(st, r) = st \/ Handled(st, r) = SignedOut(st)
    BY <1>3 DEF Handled, WorkDone, HandleUnauthorized
  <2> QED
    BY <1>3, <2>1, StaysFacts, SignedOutFacts
<1>4. CASE r.kind = "logout"
  BY <1>4, LogoutDoneFacts DEF Handled
<1> QED
  BY <1>0, <1>1, <1>2, <1>3, <1>4 DEF Kinds

-----------------------------------------------------------------------------
(* The invariant, step by step.                                            *)

LEMMA FreeIsASlot == Free \in SlotState /\ Free.cookie = NoToken /\ Free.reply.token = NoToken
BY DEF Free, Keep, SlotState, Kinds, MaybeToken, MaybeUser

LEMMA NewTabIsATab == NewTab \in TabState /\ KnowsItsQueue(NewTab) /\ NewTab.status = "unknown"
BY DEF NewTab, TabState, MaybeUser, KnowsItsQueue

LEMMA InitSessions == Init => SessionsInv
<1> SUFFICES ASSUME Init PROVE SessionsInv
  OBVIOUS
<1>1. StateOK
  BY FreeIsASlot, NewTabIsATab DEF Init, StateOK, MaybeToken
<1>2. \A s \in Slots : request[s] = Free /\ request[s].stage = "free"
  BY DEF Init, Free
<1>3. \A t \in Tabs : KnowsItsQueue(tab[t])
  BY NewTabIsATab DEF Init
<1>4. TokensAreBounded
  BY <1>2, FreeIsASlot, NoTokenIsBounded, BoundedTokens DEF AllBounded, Init
<1> QED
  BY <1>1, <1>2, <1>3, <1>4 DEF SessionsInv, SoundRequest, OneProbe

(* One request is replaced by r; nothing else of the browser changes.      *)
LEMMA SlotMovesOn ==
  ASSUME SessionsInv, NEW s \in Slots, NEW r \in SlotState,
         request' = [request EXCEPT ![s] = r],
         UNCHANGED <<now, cookie, tab>>,
         loggedIn \subseteq loggedIn', loggedIn' \subseteq Users \X Nat,
         SoundRequest(s)',
         Bounded(r.cookie, loggedIn'), Bounded(r.reply.token, loggedIn'),
         r.kind = "check" =>
           \A o \in Slots \ {s} : request[o].stage # "free" /\ request[o].kind = "check" => request[o].tab # r.tab
  PROVE  SessionsInv'
<1> USE DEF SessionsInv
<1>0. \A o \in Slots : request'[o] = IF o = s THEN r ELSE request[o]
  BY DEF StateOK
<1>1. StateOK'
  BY DEF StateOK
<1>2. ASSUME NEW o \in Slots PROVE SoundRequest(o)'
  <2>1. CASE o = s
    BY <2>1
  <2>2. CASE o # s
    BY <1>0, <2>2 DEF SoundRequest
  <2> QED
    BY <2>1, <2>2
<1>3. OneProbe'
  BY <1>0 DEF OneProbe
<1>4. \A t \in Tabs : KnowsItsQueue(tab[t])'
  BY DEF KnowsItsQueue
<1>5. TokensAreBounded'
  <2>1. AllBounded(loggedIn)
    BY BoundedTokens
  <2>2. Bounded(cookie, loggedIn')
    BY <2>1, BoundedStays DEF AllBounded
  <2>3. \A o \in Slots : Bounded(request[o].cookie, loggedIn') /\ Bounded(request[o].reply.token, loggedIn')
    BY <2>1, BoundedStays DEF AllBounded
  <2>4. \A o \in Slots : Bounded(request'[o].cookie, loggedIn') /\ Bounded(request'[o].reply.token, loggedIn')
    BY <1>0, <2>3
  <2>5. Bounded(cookie', loggedIn')
    BY <2>2
  <2> QED
    BY <2>4, <2>5, BoundedTokensNext DEF AllBounded, Bounded
<1> QED
  BY <1>1, <1>2, <1>3, <1>4, <1>5

LEMMA SendKeepsInv ==
  ASSUME SessionsInv, NEW t \in Tabs, NEW kind \in Kinds, NEW user \in MaybeUser,
         Send(t, kind, user), UNCHANGED <<now, cookie, tab, loggedIn>>,
         kind = "check" <=> tab[t].status = "unknown",
         kind = "check" => ~Waiting(t, "check"),
         kind = "login" => user \in Users
  PROVE  SessionsInv'
<1> USE DEF SessionsInv
<1> DEFINE r == [Free EXCEPT !.stage = "sent", !.kind = kind, !.tab = t, !.generation = tab[t].generation,
                             !.session = tab[t].session, !.cookie = cookie, !.user = user]
<1>1. PICK s \in Slots : request[s].stage = "free" /\ request' = [request EXCEPT ![s] = r]
  BY DEF Send
<1>2. tab[t].generation \in Nat /\ tab[t].session \in Nat /\ cookie \in MaybeToken
  BY DEF StateOK, TabState
<1>3. /\ r.stage = "sent" /\ r.kind = kind /\ r.tab = t /\ r.generation = tab[t].generation
      /\ r.session = tab[t].session /\ r.cookie = cookie /\ r.user = user
      /\ r.reply.token = NoToken
  BY DEF Free, Keep
<1>4. r \in SlotState
  BY <1>2, FreeIsASlot, Zenon DEF SlotState
<1> HIDE DEF r
<1>5. request'[s] = r
  BY <1>1 DEF StateOK
<1>6. SoundRequest(s)'
  BY <1>2, <1>3, <1>5 DEF SoundRequest
<1>7. Bounded(r.cookie, loggedIn) /\ Bounded(r.reply.token, loggedIn)
  BY <1>3, BoundedTokens, NoTokenIsBounded DEF AllBounded
<1>8. ASSUME r.kind = "check", NEW o \in Slots \ {s},
             request[o].stage # "free", request[o].kind = "check"
      PROVE  request[o].tab # r.tab
  BY <1>3, <1>8 DEF Waiting
<1>9. loggedIn \subseteq Users \X Nat
  BY DEF StateOK
<1> QED
  BY <1>1, <1>4, <1>6, <1>7, <1>8, <1>9, SlotMovesOn

LEMMA AnswerKeepsInv ==
  ASSUME SessionsInv, NEW s \in Slots, request[s].stage = "sent",
         NEW ok \in BOOLEAN, NEW user \in MaybeUser,
         NEW reply \in [set : BOOLEAN, token : MaybeToken],
         Answer(s, ok, reply, user), UNCHANGED <<now, cookie, tab>>,
         loggedIn \subseteq loggedIn', loggedIn' \subseteq Users \X Nat,
         Bounded(reply.token, loggedIn'),
         request[s].kind = "login" \/ (request[s].kind = "check" /\ ok) => user \in Users
  PROVE  SessionsInv'
<1> USE DEF SessionsInv
<1> DEFINE old == request[s]
           r == [old EXCEPT !.stage = "answered", !.ok = ok, !.reply = reply, !.user = user,
                            !.cookie = NoToken]
<1>1. old \in SlotState /\ SoundRequest(s)
  BY DEF StateOK
<1>2. request' = [request EXCEPT ![s] = r]
  BY DEF Answer, StateOK
<1>3. r \in SlotState /\ r.cookie = NoToken /\ r.reply = reply
      /\ r.stage = "answered" /\ r.ok = ok /\ r.user = user /\ r.kind = old.kind
      /\ r.tab = old.tab /\ r.generation = old.generation /\ r.session = old.session
  <2>1. NoToken \in MaybeToken /\ "answered" \in {"free", "sent", "answered"}
    BY DEF MaybeToken
  <2>2. r \in SlotState
    BY <1>1, <2>1, Zenon DEF SlotState
  <2> QED
    BY <1>1, <2>2 DEF SlotState
<1> HIDE DEF r
<1>4. request'[s] = r
  BY <1>2 DEF StateOK
<1>5. SoundRequest(s)'
  <2>1. /\ old.tab \in Tabs
        /\ old.kind = "check" <=> tab[old.tab].status = "unknown"
        /\ old.generation =< tab[old.tab].generation
        /\ old.generation = tab[old.tab].generation => old.session = tab[old.tab].session
    BY <1>1 DEF SoundRequest
  <2>2. /\ r.tab \in Tabs
        /\ r.kind = "check" <=> tab'[r.tab].status = "unknown"
        /\ r.generation =< tab'[r.tab].generation
        /\ r.generation = tab'[r.tab].generation => r.session = tab'[r.tab].session
    BY <1>3, <2>1
  <2>3. r.kind = "login" \/ (r.kind = "check" /\ r.ok) => r.user \in Users
    BY <1>3
  <2> QED
    BY <1>4, <2>2, <2>3 DEF SoundRequest
<1>6. Bounded(r.cookie, loggedIn') /\ Bounded(r.reply.token, loggedIn')
  BY <1>3, NoTokenIsBounded
<1>7. ASSUME r.kind = "check", NEW o \in Slots \ {s},
             request[o].stage # "free", request[o].kind = "check"
      PROVE  request[o].tab # r.tab
  BY <1>3, <1>7 DEF OneProbe
<1> QED
  BY <1>2, <1>3, <1>5, <1>6, <1>7, SlotMovesOn

LEMMA HandleLoginKeepsInv ==
  ASSUME SessionsInv, NEW s \in Slots, HandleLogin(s)
  PROVE  SessionsInv'
<1> USE DEF SessionsInv
<1> DEFINE user == request[s].user
<1>1. /\ request[s].stage = "sent" /\ request[s].kind = "login"
      /\ UNCHANGED <<now, cookie, tab>>
  BY DEF HandleLogin
<1>2. user \in Users /\ user \in MaybeUser
  BY <1>1 DEF SoundRequest, MaybeUser
<1>3. now \in 0..MaxTime /\ now \in Nat /\ loggedIn \subseteq Users \X Nat
  BY DEF StateOK
<1>4. CASE /\ Answer(s, TRUE, SetCookie(Issue(user)), user)
           /\ loggedIn' = loggedIn \cup {<<user, now>>}
  <2>1. Issue(user) \in MaybeToken /\ Bounded(Issue(user), loggedIn')
    BY <1>2, <1>3, <1>4, IssueFacts
  <2>2. SetCookie(Issue(user)) \in [set : BOOLEAN, token : MaybeToken]
        /\ SetCookie(Issue(user)).token = Issue(user)
    BY <2>1 DEF SetCookie
  <2>3. loggedIn \subseteq loggedIn' /\ loggedIn' \subseteq Users \X Nat
    BY <1>2, <1>3, <1>4
  <2> HIDE DEF user
  <2> QED
    BY <1>1, <1>2, <1>4, <2>1, <2>2, <2>3, AnswerKeepsInv
<1>5. CASE Answer(s, FALSE, Keep, user) /\ UNCHANGED loggedIn
  <2>1. Keep \in [set : BOOLEAN, token : MaybeToken] /\ Keep.token = NoToken
    BY DEF Keep, MaybeToken
  <2> HIDE DEF user
  <2> QED
    BY <1>1, <1>2, <1>3, <1>5, <2>1, NoTokenIsBounded, AnswerKeepsInv
<1> QED
  BY <1>4, <1>5 DEF HandleLogin

LEMMA RequireSessionKeepsInv ==
  ASSUME SessionsInv, NEW s \in Slots, RequireSession(s)
  PROVE  SessionsInv'
<1> USE DEF SessionsInv
<1> DEFINE token == request[s].cookie
           next == IF request[s].kind = "logout" THEN NoToken ELSE Renew(token)
<1>1. /\ request[s].stage = "sent" /\ request[s].kind # "login"
      /\ UNCHANGED <<now, cookie, tab, loggedIn>>
  BY DEF RequireSession
<1>2. now \in 0..MaxTime /\ loggedIn \subseteq Users \X Nat /\ token \in MaybeToken
      /\ Bounded(token, loggedIn)
  BY BoundedTokens DEF StateOK, SlotState, AllBounded
<1>3. CASE Renewable(token) /\ Answer(s, TRUE, SetCookie(next), token.sub)
  <2>1. token.sub \in Users /\ token.sub \in MaybeUser
    BY <1>2, <1>3, RenewFacts DEF Token, MaybeUser
  <2>2. next \in MaybeToken /\ Bounded(next, loggedIn)
    BY <1>2, <1>3, RenewFacts, NoTokenIsBounded DEF MaybeToken
  <2> HIDE DEF next, token
  <2>3. SetCookie(next) \in [set : BOOLEAN, token : MaybeToken] /\ SetCookie(next).token = next
    BY <2>2 DEF SetCookie
  <2> QED
    BY <1>1, <1>2, <1>3, <2>1, <2>2, <2>3, AnswerKeepsInv
<1>4. CASE Answer(s, FALSE, Keep, NoUser)
  <2>1. Keep \in [set : BOOLEAN, token : MaybeToken] /\ Keep.token = NoToken
    BY DEF Keep, MaybeToken
  <2>2. NoUser \in MaybeUser
    BY DEF MaybeUser
  <2> QED
    BY <1>1, <1>2, <1>4, <2>1, <2>2, NoTokenIsBounded, AnswerKeepsInv
<1> QED
  BY <1>3, <1>4 DEF RequireSession

LEMMA QueueChangeKeepsInv ==
  ASSUME SessionsInv, NEW t \in Tabs, QueueChange(t)
  PROVE  SessionsInv'
<1> USE DEF SessionsInv
<1> DEFINE st == [tab[t] EXCEPT !.queue = @ \cup {tab[t].user}]
<1>1. /\ tab' = [tab EXCEPT ![t] = st] /\ UNCHANGED <<now, cookie, request, loggedIn>>
      /\ tab[t].status = "authenticated"
  BY DEF QueueChange, StateOK
<1>2. tab[t] \in TabState /\ KnowsItsQueue(tab[t])
  BY DEF StateOK
<1>3. /\ st \in TabState /\ st.status = "authenticated" /\ st.generation = tab[t].generation
      /\ st.session = tab[t].session /\ st.user = tab[t].user /\ st.lastUser = tab[t].lastUser
      /\ st.reloaded = tab[t].reloaded /\ st.queue = tab[t].queue \cup {tab[t].user}
  BY <1>1, <1>2 DEF TabState, KnowsItsQueue
<1>4. KnowsItsQueue(st)
  BY <1>1, <1>2, <1>3 DEF KnowsItsQueue
<1> HIDE DEF st
<1>5. \A u \in Tabs : tab'[u] = IF u = t THEN st ELSE tab[u]
  BY <1>1 DEF StateOK
<1>6. StateOK'
  BY <1>1, <1>3 DEF StateOK
<1>7. ASSUME NEW s \in Slots PROVE SoundRequest(s)'
  BY <1>1, <1>3, <1>5 DEF SoundRequest
<1>8. OneProbe' /\ TokensAreBounded'
  BY <1>1 DEF OneProbe, TokensAreBounded, Tokens
<1>9. \A u \in Tabs : KnowsItsQueue(tab'[u])
  BY <1>4, <1>5
<1> QED
  BY <1>6, <1>7, <1>8, <1>9 DEF KnowsItsQueue

LEMMA ReloadKeepsInv ==
  ASSUME SessionsInv, NEW t \in Tabs, Reload(t)
  PROVE  SessionsInv'
<1> USE DEF SessionsInv
<1> DEFINE st == [NewTab EXCEPT !.queue = tab[t].queue, !.session = tab[t].session, !.reloaded = TRUE]
<1>1. /\ tab' = [tab EXCEPT ![t] = st] /\ UNCHANGED <<now, cookie, loggedIn>>
      /\ request' = [s \in Slots |-> IF request[s].tab = t THEN Free ELSE request[s]]
  BY DEF Reload
<1>2. st \in TabState /\ KnowsItsQueue(st)
  <2>1. tab[t].queue \subseteq Users /\ tab[t].session \in Nat
    BY DEF StateOK, TabState
  <2>2. st \in TabState
    BY <2>1, NewTabIsATab, Zenon DEF TabState
  <2>3. st.status = "unknown" /\ st.reloaded = TRUE
    BY DEF NewTab
  <2> QED
    BY <2>2, <2>3 DEF KnowsItsQueue
<1> HIDE DEF st
<1>3. \A u \in Tabs : tab'[u] = IF u = t THEN st ELSE tab[u]
  BY <1>1 DEF StateOK
<1>4. \A s \in Slots : \/ request'[s] = Free
                       \/ request'[s] = request[s] /\ request[s].tab # t
  BY <1>1
<1>5. Free.stage = "free"
  BY DEF Free
<1>6. StateOK'
  <2>1. request' \in [Slots -> SlotState]
    BY <1>1, FreeIsASlot DEF StateOK
  <2> QED
    BY <1>1, <1>2, <2>1 DEF StateOK
<1>7. ASSUME NEW s \in Slots PROVE SoundRequest(s)'
  BY <1>3, <1>4, <1>5 DEF SoundRequest
<1>8. OneProbe'
  BY <1>4, <1>5 DEF OneProbe
<1>9. \A u \in Tabs : KnowsItsQueue(tab'[u])
  BY <1>2, <1>3
<1>10. TokensAreBounded'
  <2>1. AllBounded(loggedIn)
    BY BoundedTokens
  <2>2. \A s \in Slots : Bounded(request'[s].cookie, loggedIn) /\ Bounded(request'[s].reply.token, loggedIn)
    BY <1>4, <2>1, FreeIsASlot, NoTokenIsBounded DEF AllBounded
  <2> QED
    BY <1>1, <2>1, <2>2, BoundedTokensNext DEF AllBounded, Bounded
<1> QED
  BY <1>6, <1>7, <1>8, <1>9, <1>10 DEF KnowsItsQueue

(* A request ends, in whatever way: its tab moves on, knowing by then      *)
(* whether it is signed in.                                                *)
LEMMA RequestEnds ==
  ASSUME SessionsInv, NEW s \in Slots, request[s].stage # "free",
         NEW st \in TabState, KnowsItsQueue(st),
         Advances(tab[request[s].tab], st), st.status # "unknown",
         tab' = [tab EXCEPT ![request[s].tab] = st],
         request' = [request EXCEPT ![s] = Free],
         cookie' = cookie \/ cookie' = request[s].reply.token,
         UNCHANGED <<now, loggedIn>>
  PROVE  SessionsInv'
<1> USE DEF SessionsInv
<1> DEFINE t == request[s].tab
<1>0. t \in Tabs
  BY DEF SoundRequest
<1>1. \A u \in Tabs : tab'[u] = IF u = t THEN st ELSE tab[u]
  BY DEF StateOK
<1>2. \A o \in Slots : request'[o] = IF o = s THEN Free ELSE request[o]
  BY DEF StateOK
<1>3. Free.stage = "free"
  BY DEF Free
<1>4. StateOK'
  <2>1. request[s].reply.token \in MaybeToken
    BY DEF StateOK, SlotState
  <2> QED
    BY <2>1, FreeIsASlot DEF StateOK
<1>5. ASSUME NEW o \in Slots PROVE SoundRequest(o)'
  <2>1. CASE o = s \/ request[o].tab # t
    BY <1>1, <1>2, <1>3, <2>1 DEF SoundRequest
  <2>2. CASE o # s /\ request[o].tab = t /\ request[o].stage # "free"
    <3>1. tab[t].status # "unknown" /\ request[o].kind # "check"
      BY <2>2 DEF SoundRequest, OneProbe
    <3>2. /\ tab[t].generation \in Nat /\ st.generation \in Nat
          /\ request[o].generation \in Nat
      BY <1>0 DEF StateOK, TabState, SlotState
    <3>3. /\ request[o].generation =< tab[t].generation
          /\ request[o].generation = tab[t].generation => request[o].session = tab[t].session
          /\ request[o].kind = "login" => request[o].user \in Users
      BY <2>2 DEF SoundRequest
    <3>4. /\ st.generation >= tab[t].generation
          /\ st.generation = tab[t].generation => st.session = tab[t].session
      BY DEF Advances
    <3>5. /\ request[o].generation =< st.generation
          /\ request[o].generation = st.generation => request[o].session = st.session
      BY <3>2, <3>3, <3>4
    <3>6. request'[o] = request[o] /\ tab'[t] = st
      BY <1>0, <1>1, <1>2, <2>2
    <3> HIDE DEF t
    <3> QED
      BY <1>0, <2>2, <3>1, <3>3, <3>5, <3>6 DEF SoundRequest
  <2>3. CASE o # s /\ request[o].stage = "free"
    BY <1>2, <2>3 DEF SoundRequest
  <2> QED
    BY <2>1, <2>2, <2>3
<1>6. OneProbe'
  BY <1>2, <1>3 DEF OneProbe
<1>7. \A u \in Tabs : KnowsItsQueue(tab'[u])
  BY <1>1
<1>8. TokensAreBounded'
  <2>1. AllBounded(loggedIn)
    BY BoundedTokens
  <2>2. \A o \in Slots : Bounded(request'[o].cookie, loggedIn) /\ Bounded(request'[o].reply.token, loggedIn)
    BY <1>2, <2>1, FreeIsASlot, NoTokenIsBounded DEF AllBounded
  <2>3. Bounded(cookie', loggedIn)
    BY <2>1 DEF AllBounded
  <2> QED
    BY <2>2, <2>3, BoundedTokensNext DEF AllBounded, Bounded
<1> QED
  BY <1>4, <1>5, <1>6, <1>7, <1>8 DEF KnowsItsQueue

LEMMA DeliverKeepsInv ==
  ASSUME SessionsInv, NEW s \in Slots, Deliver(s)
  PROVE  SessionsInv'
<1> USE DEF SessionsInv
<1> DEFINE r == request[s]
           st == Handled(tab[r.tab], r)
<1>1. /\ r.stage = "answered"
      /\ tab' = [tab EXCEPT ![r.tab] = st]
      /\ request' = [request EXCEPT ![s] = Free]
      /\ cookie' = cookie \/ cookie' = r.reply.token
      /\ UNCHANGED <<now, loggedIn>>
  BY DEF Deliver, StateOK
<1>2. /\ r \in SlotState /\ r.tab \in Tabs /\ tab[r.tab] \in TabState /\ KnowsItsQueue(tab[r.tab])
      /\ r.kind = "check" <=> tab[r.tab].status = "unknown"
      /\ r.kind \in {"check", "login"} /\ r.ok => r.user \in Users
  BY <1>1 DEF StateOK, SoundRequest
<1>3. st \in TabState /\ KnowsItsQueue(st) /\ Advances(tab[r.tab], st) /\ st.status # "unknown"
  BY <1>2, HandledFacts
<1> HIDE DEF st
<1> QED
  BY <1>1, <1>3, RequestEnds

LEMMA LoseKeepsInv ==
  ASSUME SessionsInv, NEW s \in Slots, Lose(s)
  PROVE  SessionsInv'
<1> USE DEF SessionsInv
<1> DEFINE r == request[s]
           old == tab[r.tab]
           st == CASE r.kind = "check" -> SignedOut(old)
                   [] r.kind = "logout" -> LogoutDone(old)
                   [] OTHER -> old
<1>1. /\ r.stage # "free"
      /\ tab' = [tab EXCEPT ![r.tab] = st]
      /\ request' = [request EXCEPT ![s] = Free]
      /\ UNCHANGED <<now, cookie, loggedIn>>
  BY DEF Lose, StateOK
<1>2. /\ r.tab \in Tabs /\ old \in TabState /\ KnowsItsQueue(old)
      /\ r.kind = "check" <=> old.status = "unknown"
  BY <1>1 DEF StateOK, SoundRequest
<1>3. st \in TabState /\ KnowsItsQueue(st) /\ Advances(old, st) /\ st.status # "unknown"
  <2> HIDE DEF r, old
  <2>1. CASE r.kind = "check"
    BY <1>2, <2>1, SignedOutFacts
  <2>2. CASE r.kind = "logout"
    BY <1>2, <2>2, LogoutDoneFacts
  <2>3. CASE r.kind \notin {"check", "logout"}
    BY <1>2, <2>3, StaysFacts
  <2> QED
    BY <2>1, <2>2, <2>3
<1> HIDE DEF st
<1> QED
  BY <1>1, <1>3, RequestEnds

LEMMA TabStepKeepsInv ==
  ASSUME SessionsInv, NEW t \in Tabs, TabStep(t)
  PROVE  SessionsInv'
<1>0. NoUser \in MaybeUser /\ {"login", "check", "work", "logout"} \subseteq Kinds
  BY DEF MaybeUser, Kinds
<1>1. CASE CheckSession(t)
  BY <1>0, <1>1, SendKeepsInv DEF CheckSession
<1>2. ASSUME NEW user \in Users, Login(t, user) PROVE SessionsInv'
  <2>1. user \in MaybeUser
    BY DEF MaybeUser
  <2> QED
    BY <1>0, <1>2, <2>1, SendKeepsInv DEF Login
<1>3. CASE Work(t)
  BY <1>0, <1>3, SendKeepsInv DEF Work
<1>4. CASE Logout(t)
  BY <1>0, <1>4, SendKeepsInv DEF Logout
<1>5. CASE QueueChange(t)
  BY <1>5, QueueChangeKeepsInv
<1>6. CASE Reload(t)
  BY <1>6, ReloadKeepsInv
<1> QED
  BY <1>1, <1>2, <1>3, <1>4, <1>5, <1>6 DEF TabStep

LEMMA NextKeepsInv == SessionsInv /\ [Next]_vars => SessionsInv'
<1> SUFFICES ASSUME SessionsInv, [Next]_vars PROVE SessionsInv'
  OBVIOUS
<1>1. ASSUME NEW t \in Tabs, TabStep(t) PROVE SessionsInv'
  BY <1>1, TabStepKeepsInv
<1>2. ASSUME NEW s \in Slots, HandleLogin(s) PROVE SessionsInv'
  BY <1>2, HandleLoginKeepsInv
<1>3. ASSUME NEW s \in Slots, RequireSession(s) PROVE SessionsInv'
  BY <1>3, RequireSessionKeepsInv
<1>4. ASSUME NEW s \in Slots, Deliver(s) PROVE SessionsInv'
  BY <1>4, DeliverKeepsInv
<1>5. ASSUME NEW s \in Slots, Lose(s) PROVE SessionsInv'
  BY <1>5, LoseKeepsInv
<1>6. ASSUME UNCHANGED <<cookie, tab, request, loggedIn>>, now' \in 0..MaxTime PROVE SessionsInv'
  BY <1>6 DEF SessionsInv, StateOK, SoundRequest, OneProbe, KnowsItsQueue, TokensAreBounded, Tokens
<1>7. CASE Tick
  BY <1>6, <1>7 DEF Tick, SessionsInv, StateOK
<1>8. CASE UNCHANGED vars
  BY <1>6, <1>8 DEF vars, SessionsInv, StateOK
<1> QED
  BY <1>1, <1>2, <1>3, <1>4, <1>5, <1>7, <1>8 DEF Next, Reply

(* The inductive invariant holds in every behaviour.                       *)
THEOREM SessionsInvariant == Spec => []SessionsInv
BY InitSessions, NextKeepsInv, PTL DEF Spec

(* Type correctness: the browser only ever holds tokens the back end makes. *)
THEOREM TypeCorrect == Spec => []TypeOK
<1>1. SessionsInv => TypeOK
  BY DEF SessionsInv, StateOK, TypeOK, TabState, SlotState, MaybeToken
<1> QED
  BY <1>1, SessionsInvariant, PTL

(* However often RequireSession renews a token, it names a login that did  *)
(* happen and ends at the cap counted from that login.                     *)
THEOREM TokensAreAlwaysBounded == Spec => []TokensAreBounded
<1>1. SessionsInv => TokensAreBounded
  BY DEF SessionsInv
<1> QED
  BY <1>1, SessionsInvariant, PTL

(* Changes of somebody else are in the queue of a signed-in user only in a *)
(* tab that was reloaded: every other way in (login, checkSession, a late  *)
(* reply of either) finds whose queue it is.                               *)
THEOREM NoForeignChangesUntilReload == Spec => []ForeignChangesOnlyAfterReload
<1>1. SessionsInv => ForeignChangesOnlyAfterReload
  BY DEF SessionsInv, KnowsItsQueue, ForeignChangesOnlyAfterReload, Foreign
<1> QED
  BY <1>1, SessionsInvariant, PTL

(* RequireSession lets nobody in but who logged in, within the cap.        *)
THEOREM AlwaysAcceptedInTime == Spec => AcceptedInTime
<1>1. ASSUME SessionsInv, NEW s \in Slots, RequireSession(s), request'[s].ok
      PROVE  \E login \in loggedIn :
               login[1] = request'[s].user /\ now =< login[2] + MaxAbsoluteSessionTTL
  <2> DEFINE token == request[s].cookie
  <2>1. /\ now \in 0..MaxTime /\ request \in [Slots -> SlotState] /\ token \in MaybeToken
        /\ Bounded(token, loggedIn)
    BY <1>1, BoundedTokens DEF SessionsInv, StateOK, SlotState, AllBounded
  <2>2. /\ Renewable(token)
        /\ request'[s].user = token.sub
    <3>1. \/ /\ Renewable(token)
             /\ \E reply : Answer(s, TRUE, reply, token.sub)
          \/ Answer(s, FALSE, Keep, NoUser)
      BY <1>1 DEF RequireSession
    <3>2. ~Answer(s, FALSE, Keep, NoUser)
      BY <1>1, <2>1 DEF Answer, SlotState
    <3>3. PICK reply : Renewable(token) /\ Answer(s, TRUE, reply, token.sub)
      BY <3>1, <3>2, Zenon
    <3>4. request'[s].user = token.sub
      BY <2>1, <3>3 DEF Answer, SlotState
    <3> QED
      BY <3>3, <3>4
  <2>3. <<token.sub, token.iat>> \in loggedIn /\ now =< token.iat + MaxAbsoluteSessionTTL
    BY <2>1, <2>2, RenewFacts DEF Bounded
  <2> QED
    BY <2>2, <2>3
<1>2. SessionsInv /\ [Next]_vars =>
        [\A s \in Slots :
           RequireSession(s) /\ request'[s].ok =>
             \E login \in loggedIn :
               login[1] = request'[s].user /\ now =< login[2] + MaxAbsoluteSessionTTL]_vars
  BY <1>1
<1> QED
  BY <1>2, SessionsInvariant, PTL DEF Spec, AcceptedInTime

(* handleUnauthorized: the answer to a request of an earlier session never *)
(* ends a later one, because the generation grows with every session.      *)
THEOREM StaleRepliesNeverSignOut == Spec => StaleReplyNeverSignsOut
<1>1. ASSUME SessionsInv, NEW s \in Slots, Deliver(s), request[s].kind # "logout",
             tab[request[s].tab].status = "authenticated",
             tab'[request[s].tab].status # "authenticated"
      PROVE  request[s].session = tab[request[s].tab].session
  <2> DEFINE r == request[s]
             st == tab[r.tab]
  <2>1. /\ r \in SlotState /\ r.stage # "free" /\ r.tab \in Tabs /\ st \in TabState /\ SoundRequest(s)
        /\ KnowsItsQueue(st)
        /\ tab'[r.tab] = Handled(st, r)
    BY <1>1 DEF Deliver, SessionsInv, StateOK, SoundRequest
  <2>2. r.kind # "check"
    BY <1>1, <2>1 DEF SoundRequest
  <2>3. r.kind # "login"
    <3>1. ASSUME r.kind = "login", r.ok PROVE FALSE
      <4>1. Handled(st, r) =
              SignedIn([st EXCEPT !.queue = IF st.lastUser \notin {NoUser, r.user} THEN {} ELSE @], r.user)
        BY <3>1 DEF Handled, LoginDone
      <4>2. Handled(st, r).status = "authenticated"
        BY <2>1, <4>1 DEF SignedIn, TabState
      <4> QED
        BY <1>1, <2>1, <4>2
    <3>2. ASSUME r.kind = "login", ~r.ok PROVE FALSE
      BY <1>1, <2>1, <3>2 DEF Handled, LoginDone
    <3> QED
      BY <3>1, <3>2
  <2>4. r.kind = "work"
    BY <1>1, <2>1, <2>2, <2>3 DEF SlotState, Kinds
  <2>5. Handled(st, r) = WorkDone(st, r)
    BY <2>4 DEF Handled
  <2>6. r.generation = st.generation
    BY <1>1, <2>1, <2>5 DEF WorkDone, HandleUnauthorized
  <2> QED
    BY <2>1, <2>6 DEF SoundRequest
<1>2. SessionsInv /\ [Next]_vars =>
        [\A s \in Slots :
           /\ Deliver(s) /\ request[s].kind # "logout"
           /\ tab[request[s].tab].status = "authenticated"
           /\ tab'[request[s].tab].status # "authenticated"
           => request[s].session = tab[request[s].tab].session]_vars
  BY <1>1
<1> QED
  BY <1>2, SessionsInvariant, PTL DEF Spec, StaleReplyNeverSignsOut
=============================================================================
