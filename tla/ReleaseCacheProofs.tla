--------------------------- MODULE ReleaseCacheProofs ---------------------------
(***************************************************************************)
(* What TLAPS proves about ReleaseCache: for any requests, times to live   *)
(* and number of releases, however fetches, failures and answers from the  *)
(* cache interleave.                                                       *)
(***************************************************************************)
EXTENDS ReleaseCache, TLAPS

USE TTLAssumption, MaxReleasesAssumption

(* A release that is not out has no age yet.                               *)
UnpublishedIsNew == \A r \in 2..MaxReleases : r > latest => age[r] = 0

(* A result on its way to the cache misses only what was published since   *)
(* GitHub gave it, within the time limit of the call, and nothing that was *)
(* out at the click when the call is forced.                               *)
SoundReply(q) ==
  /\ request[q].phase # "idle" => request[q].from =< latest
  /\ request[q].phase = "fetched" =>
       /\ request[q].got \in 1..latest /\ request[q].from =< request[q].got
       /\ request[q].got < latest => age[request[q].got + 1] =< Timeout - request[q].left

(* The inductive invariant.                                                *)
CacheInv ==
  /\ TypeOK
  /\ UnpublishedIsNew
  /\ cached =< latest
  /\ \A q \in Requests : SoundReply(q)
  /\ FreshIsRecent /\ KnownResultBeatsError /\ ForcedIsCurrent

(* Whoever asked GitHub and has been answered finds a result or a failure  *)
(* in the cache until NegativeCacheTTL after it asked.                     *)
AnsweredFromCache ==
  \A q \in Requests :
    request[q].phase = "idle" =>
      \/ fresh + spared[q] >= NegativeCacheTTL
      \/ quiet + spared[q] >= NegativeCacheTTL
(* What is known of a request on its way. *)
Request == [phase : Phases, left : 0..Timeout,
            got : {None} \cup Releases, from : {None} \cup Releases]

LEMMA IdleIsARequest == Idle \in Request
BY DEF Idle, Request, Phases, None, Releases

(* What Answer can show for a result that is not behind what is asked.     *)
LEMMA AnswerFacts ==
  ASSUME NEW what \in {None} \cup Releases, NEW floor \in {None} \cup Releases,
         Answer(what, floor),
         what # None => floor =< what
  PROVE  /\ answer' \in Answers
         /\ answer' # "behind"
         /\ answer' = "error" => what = None
BY DEF Answer, Answers, None, Releases

LEMMA InitCache == Init => CacheInv /\ AnsweredFromCache
<1> SUFFICES ASSUME Init PROVE CacheInv /\ AnsweredFromCache
  OBVIOUS
<1>1. TypeOK
  BY IdleIsARequest DEF Init, TypeOK, Answers, None, Releases, Old, Request
<1>2. CacheInv
  BY <1>1 DEF Init, CacheInv, UnpublishedIsNew, SoundReply, FreshIsRecent,
     KnownResultBeatsError, ForcedIsCurrent, Idle, None
<1>3. AnsweredFromCache
  BY DEF Init, AnsweredFromCache
<1> QED
  BY <1>2, <1>3

LEMMA PublishKeepsInv == CacheInv /\ Publish => CacheInv'
<1> SUFFICES ASSUME CacheInv, Publish PROVE CacheInv'
  OBVIOUS
<1> USE DEF CacheInv, Publish, cache, history
<1>1. TypeOK'
  BY DEF TypeOK, Releases
<1>2. UnpublishedIsNew' /\ cached' =< latest'
  BY DEF TypeOK, UnpublishedIsNew, Releases, None
<1>3. \A r \in 2..MaxReleases : r = latest + 1 => age[r] = 0
  BY DEF TypeOK, UnpublishedIsNew, Releases
<1>4. ASSUME NEW q \in Requests PROVE SoundReply(q)'
  BY <1>3 DEF TypeOK, SoundReply, Releases, None
<1>5. FreshIsRecent'
  BY <1>3 DEF TypeOK, FreshIsRecent, Releases, None
<1>6. KnownResultBeatsError' /\ ForcedIsCurrent'
  BY DEF KnownResultBeatsError, ForcedIsCurrent
<1> QED
  BY <1>1, <1>2, <1>4, <1>5, <1>6

LEMMA OutageKeepsInv == CacheInv /\ Outage => CacheInv'
BY DEF CacheInv, Outage, cache, history, TypeOK, UnpublishedIsNew, SoundReply,
   FreshIsRecent, KnownResultBeatsError, ForcedIsCurrent

(* The age of a release and what is left of a result or a call move by one *)
(* tick in opposite directions.                                            *)
LEMMA TickFacts ==
  ASSUME TypeOK, Tick
  PROVE  /\ \A r \in 2..MaxReleases : age'[r] \in 0..Old /\ age'[r] =< age[r] + 1
         /\ \A r \in 2..MaxReleases : r > latest => age'[r] = age[r]
         /\ fresh' \in 0..CacheTTL /\ (fresh > 0 => fresh' = fresh - 1) /\ (fresh = 0 => fresh' = 0)
         /\ quiet' \in 0..NegativeCacheTTL /\ (quiet > 0 => quiet' = quiet - 1)
         /\ \A q \in Requests :
              /\ request'[q].left \in 0..Timeout
              /\ request[q].phase # "idle" => request'[q].left = request[q].left - 1
              /\ request'[q].phase = request[q].phase
              /\ request'[q].got = request[q].got
              /\ request'[q].from = request[q].from
<1>1. \A r \in 2..MaxReleases :
        age'[r] = IF r =< latest THEN (IF age[r] = Old THEN Old ELSE age[r] + 1) ELSE age[r]
  BY DEF TypeOK, Tick, Older
<1>2. Old \in Nat
  BY DEF Old
<1>3. \A r \in 2..MaxReleases : age[r] \in 0..Old
  BY DEF TypeOK
<1>4. latest \in Nat
  BY DEF TypeOK, Releases
<1>5. \A r \in 2..MaxReleases : age'[r] \in 0..Old /\ age'[r] =< age[r] + 1
  BY <1>1, <1>2, <1>3
<1>6. \A r \in 2..MaxReleases : r > latest => age'[r] = age[r]
  BY <1>1, <1>4
<1>7. /\ fresh' \in 0..CacheTTL /\ (fresh > 0 => fresh' = fresh - 1) /\ (fresh = 0 => fresh' = 0)
      /\ quiet' \in 0..NegativeCacheTTL /\ (quiet > 0 => quiet' = quiet - 1)
  BY DEF TypeOK, Tick, Less
<1>8. ASSUME NEW q \in Requests
      PROVE  /\ request'[q].left \in 0..Timeout
             /\ request[q].phase # "idle" => request'[q].left = request[q].left - 1
             /\ request'[q].phase = request[q].phase
             /\ request'[q].got = request[q].got
             /\ request'[q].from = request[q].from
  <2>1. request'[q] = [request[q] EXCEPT !.left = Less(request[q].left)]
    BY DEF Tick
  <2>2. request[q].left \in 0..Timeout
    BY DEF TypeOK
  <2>3. request[q].phase # "idle" => request[q].left > 0
    BY DEF Tick
  <2> QED
    BY <2>1, <2>2, <2>3 DEF TypeOK, Less
<1> QED
  BY <1>5, <1>6, <1>7, <1>8

LEMMA TickKeepsInv == CacheInv /\ Tick => CacheInv'
<1> SUFFICES ASSUME CacheInv, Tick PROVE CacheInv'
  OBVIOUS
<1> USE DEF CacheInv
<1>0. latest' = latest /\ reachable' = reachable /\ cached' = cached /\ answer' = answer
  BY DEF Tick
<1>1. TypeOK'
  <2>1. age' \in [2..MaxReleases -> 0..Old]
    <3>1. DOMAIN age = 2..MaxReleases
      BY DEF TypeOK
    <3>2. age' = [r \in 2..MaxReleases |-> age'[r]]
      BY <3>1 DEF Tick
    <3> QED
      BY <3>2, TickFacts
  <2>2. request' \in [Requests -> Request]
    <3>1. request' = [q \in Requests |-> [request[q] EXCEPT !.left = Less(@)]]
      BY DEF Tick
    <3>2. \A q \in Requests : request[q] \in Request /\ Less(request[q].left) \in 0..Timeout
      BY DEF TypeOK, Request, Less
    <3> QED
      BY <3>1, <3>2 DEF Request
  <2>3. spared' \in [Requests -> 0..NegativeCacheTTL]
    BY DEF TypeOK, Tick
  <2>4. fresh' > 0 => cached' # None
    BY <1>0, TickFacts DEF TypeOK
  <2> QED
    BY <1>0, <2>1, <2>2, <2>3, <2>4, TickFacts DEF TypeOK, Request
<1>2. UnpublishedIsNew'
  BY <1>0, TickFacts DEF UnpublishedIsNew, TypeOK
<1>3. ASSUME NEW q \in Requests PROVE SoundReply(q)'
  <2>1. SoundReply(q)
    OBVIOUS
  <2>2. ASSUME request[q].phase = "fetched", request[q].got < latest
        PROVE  age'[request[q].got + 1] =< Timeout - request'[q].left
    <3>1. request[q].got + 1 \in 2..MaxReleases /\ request[q].left \in 0..Timeout
      BY <2>1, <2>2 DEF SoundReply, TypeOK, Releases
    <3>2. age[request[q].got + 1] \in 0..Old
      BY <3>1 DEF TypeOK
    <3>3. age'[request[q].got + 1] =< age[request[q].got + 1] + 1 /\ age'[request[q].got + 1] \in 0..Old
      BY <3>1, TickFacts
    <3>4. request'[q].left = request[q].left - 1
      BY <2>2, TickFacts
    <3>5. Old \in Nat
      BY DEF Old
    <3> QED
      BY <2>1, <2>2, <3>1, <3>2, <3>3, <3>4, <3>5 DEF SoundReply
  <2> QED
    BY <1>0, <2>1, <2>2, TickFacts DEF SoundReply
<1>4. FreshIsRecent'
  <2> SUFFICES ASSUME fresh' > 0, cached < latest
               PROVE  age'[cached + 1] =< CacheTTL - fresh' + Timeout
    BY <1>0 DEF FreshIsRecent
  <2>1. fresh > 0 /\ fresh \in Nat /\ fresh' = fresh - 1
    BY TickFacts DEF TypeOK
  <2>2. cached + 1 \in 2..MaxReleases
    BY <2>1 DEF TypeOK, Releases, None
  <2>3. age[cached + 1] \in 0..Old /\ Old \in Nat
    BY <2>2 DEF TypeOK, Old
  <2>4. age'[cached + 1] =< age[cached + 1] + 1 /\ age'[cached + 1] \in 0..Old
    BY <2>2, TickFacts
  <2> QED
    BY <2>1, <2>3, <2>4 DEF FreshIsRecent
<1> QED
  BY <1>0, <1>1, <1>2, <1>3, <1>4 DEF KnownResultBeatsError, ForcedIsCurrent

LEMMA AnswerCachedFacts ==
  ASSUME TypeOK, Answer(cached, None)
  PROVE  /\ answer' \in Answers
         /\ answer' # "behind"
         /\ answer' = "error" => cached = None
<1>1. cached \in {None} \cup Releases /\ None =< cached
  BY DEF TypeOK, None, Releases
<1> QED
  BY <1>1, AnswerFacts

LEMMA AnswerFromCacheKeepsInv ==
  ASSUME CacheInv, NEW q \in Requests, AnswerFromCache(q)
  PROVE  CacheInv'
<1>1. Answer(cached, None) /\ UNCHANGED <<latest, age, reachable, cached, fresh, quiet, request, spared>>
  BY DEF AnswerFromCache, github, cache
<1>2. answer' \in Answers /\ answer' # "behind" /\ (answer' = "error" => cached = None)
  BY <1>1, AnswerCachedFacts DEF CacheInv
<1> QED
  BY <1>1, <1>2 DEF CacheInv, TypeOK, UnpublishedIsNew, SoundReply, FreshIsRecent,
     KnownResultBeatsError, ForcedIsCurrent

(* A step that only moves one request on, for what concerns the others.    *)
LEMMA RequestMovesOn ==
  ASSUME CacheInv, NEW q \in Requests, NEW r \in Request,
         request' = [request EXCEPT ![q] = r],
         UNCHANGED <<github, cache, answer>>,
         spared' \in [Requests -> 0..NegativeCacheTTL],
         SoundReply(q)'
  PROVE  CacheInv'
<1>1. TypeOK'
  BY DEF CacheInv, TypeOK, github, cache, Request
<1>2. ASSUME NEW p \in Requests PROVE SoundReply(p)'
  <2>1. CASE p = q
    BY <2>1
  <2>2. CASE p # q
    BY <2>2 DEF CacheInv, SoundReply, github, TypeOK
  <2> QED
    BY <2>1, <2>2
<1> QED
  BY <1>1, <1>2 DEF CacheInv, UnpublishedIsNew, FreshIsRecent, KnownResultBeatsError,
     ForcedIsCurrent, github, cache

LEMMA FetchKeepsInv ==
  ASSUME CacheInv, NEW q \in Requests, NEW force \in BOOLEAN, Fetch(q, force),
         spared' \in [Requests -> 0..NegativeCacheTTL]
  PROVE  CacheInv'
<1> DEFINE r == [phase |-> "fetching", left |-> Timeout,
                 got |-> None, from |-> IF force THEN latest ELSE None]
<1>1. r \in Request /\ latest \in Nat
  BY DEF Request, Phases, CacheInv, TypeOK, None, Releases
<1>2. request' = [request EXCEPT ![q] = r] /\ UNCHANGED <<github, cache, answer>>
  BY DEF Fetch
<1>3. request'[q] = r
  BY <1>2 DEF CacheInv, TypeOK
<1>4. SoundReply(q)'
  BY <1>1, <1>2, <1>3 DEF SoundReply, github, None
<1> QED
  BY <1>1, <1>2, <1>4, RequestMovesOn

LEMMA ReplyKeepsInv ==
  ASSUME CacheInv, NEW q \in Requests, Reply(q) \/ Failure(q)
  PROVE  CacheInv'
<1> USE DEF CacheInv
<1>0. request[q] \in Request /\ request[q].phase = "fetching" /\ SoundReply(q)
  BY DEF Reply, Failure, TypeOK, Request
<1>1. CASE Reply(q)
  <2> DEFINE r == [request[q] EXCEPT !.phase = "fetched", !.got = latest]
  <2>1. r \in Request
    BY <1>0 DEF Request, Phases, TypeOK
  <2>2. request' = [request EXCEPT ![q] = r] /\ UNCHANGED <<github, cache, answer, spared>>
    BY <1>1 DEF Reply, history, TypeOK
  <2>3. request'[q] = r
    BY <2>2 DEF TypeOK
  <2>4. SoundReply(q)'
    BY <1>0, <2>2, <2>3 DEF SoundReply, github, TypeOK, Releases, Request
  <2>5. spared' \in [Requests -> 0..NegativeCacheTTL]
    BY <2>2 DEF TypeOK
  <2> QED
    BY <2>1, <2>2, <2>4, <2>5, RequestMovesOn
<1>2. CASE Failure(q)
  <2> DEFINE r == [request[q] EXCEPT !.phase = "failed"]
  <2>1. r \in Request
    BY <1>0 DEF Request, Phases
  <2>2. request' = [request EXCEPT ![q] = r] /\ UNCHANGED <<github, cache, answer, spared>>
    BY <1>2 DEF Failure, history, TypeOK
  <2>3. request'[q] = r
    BY <2>2 DEF TypeOK
  <2>4. SoundReply(q)'
    BY <1>0, <2>2, <2>3 DEF SoundReply, github, Request
  <2>5. spared' \in [Requests -> 0..NegativeCacheTTL]
    BY <2>2 DEF TypeOK
  <2> QED
    BY <2>1, <2>2, <2>4, <2>5, RequestMovesOn
<1> QED
  BY <1>1, <1>2

LEMMA StoreKeepsInv ==
  ASSUME CacheInv, NEW q \in Requests, Store(q)
  PROVE  CacheInv'
<1> USE DEF CacheInv
<1> DEFINE got == request[q].got
<1>0. /\ latest \in Releases /\ got \in Releases /\ got =< latest
      /\ request[q].from \in {None} \cup Releases /\ request[q].from =< got
      /\ request[q].left \in 0..Timeout
      /\ got < latest => age[got + 1] =< Timeout - request[q].left
  BY DEF Store, SoundReply, TypeOK, Releases
<1>1. /\ cached' = got /\ fresh' = CacheTTL /\ quiet' = 0
      /\ request' = [request EXCEPT ![q] = Idle]
      /\ UNCHANGED <<latest, age, reachable, spared>>
  BY DEF Store, github
<1>2. answer' \in Answers /\ answer' # "behind" /\ answer' # "error"
  BY <1>0, AnswerFacts DEF Store, None, Releases
<1>3. TypeOK'
  <2>1. request' \in [Requests -> Request]
    BY <1>1, IdleIsARequest DEF TypeOK, Request
  <2> QED
    BY <1>0, <1>1, <1>2, <2>1 DEF TypeOK, Request, None, Releases
<1>4. ASSUME NEW p \in Requests PROVE SoundReply(p)'
  <2>1. SoundReply(p) /\ request'[p] = IF p = q THEN Idle ELSE request[p]
    BY <1>1 DEF TypeOK
  <2> QED
    BY <1>1, <2>1 DEF SoundReply, Idle
<1>5. FreshIsRecent'
  <2> SUFFICES ASSUME got < latest PROVE age[got + 1] =< CacheTTL - CacheTTL + Timeout
    BY <1>1 DEF FreshIsRecent
  <2>1. got + 1 \in 2..MaxReleases
    BY <1>0 DEF Releases
  <2>2. age[got + 1] \in 0..Old /\ Old \in Nat
    BY <2>1 DEF TypeOK, Old
  <2> QED
    BY <1>0, <2>2
<1> QED
  BY <1>0, <1>1, <1>2, <1>3, <1>4, <1>5 DEF UnpublishedIsNew, KnownResultBeatsError, ForcedIsCurrent

LEMMA StoreFailureKeepsInv ==
  ASSUME CacheInv, NEW q \in Requests, StoreFailure(q)
  PROVE  CacheInv'
<1> USE DEF CacheInv
<1>1. /\ fresh' = fresh /\ quiet' = NegativeCacheTTL /\ Answer(cached, None)
      /\ request' = [request EXCEPT ![q] = Idle]
      /\ UNCHANGED <<latest, age, reachable, cached, spared>>
  BY DEF StoreFailure, StoreFailureAs, github
<1>2. answer' \in Answers /\ answer' # "behind" /\ (answer' = "error" => cached = None)
  BY <1>1, AnswerCachedFacts
<1>3. TypeOK'
  <2>1. request' \in [Requests -> Request]
    BY <1>1, IdleIsARequest DEF TypeOK, Request
  <2> QED
    BY <1>1, <1>2, <2>1 DEF TypeOK, Request
<1>4. ASSUME NEW p \in Requests PROVE SoundReply(p)'
  <2>1. SoundReply(p) /\ request'[p] = IF p = q THEN Idle ELSE request[p]
    BY <1>1 DEF TypeOK
  <2> QED
    BY <1>1, <2>1 DEF SoundReply, Idle
<1> QED
  BY <1>1, <1>2, <1>3, <1>4 DEF UnpublishedIsNew, FreshIsRecent, KnownResultBeatsError, ForcedIsCurrent

LEMMA NextKeepsInv == CacheInv /\ [Next]_vars => CacheInv'
<1> SUFFICES ASSUME CacheInv, [Next]_vars PROVE CacheInv'
  OBVIOUS
<1>0. spared \in [Requests -> 0..NegativeCacheTTL]
  BY DEF CacheInv, TypeOK
<1>1. CASE Publish
  BY <1>1, PublishKeepsInv
<1>2. CASE Outage
  BY <1>2, OutageKeepsInv
<1>3. CASE Tick
  BY <1>3, TickKeepsInv
<1>4. ASSUME NEW q \in Requests, AnswerFromCache(q) PROVE CacheInv'
  BY <1>4, AnswerFromCacheKeepsInv
<1>5. ASSUME NEW q \in Requests, ListReleases(q) PROVE CacheInv'
  <2>1. spared' \in [Requests -> 0..NegativeCacheTTL]
    BY <1>0, <1>5 DEF ListReleases
  <2>2. Fetch(q, FALSE)
    BY <1>5 DEF ListReleases
  <2> QED
    BY <2>1, <2>2, FetchKeepsInv
<1>6. ASSUME NEW q \in Requests, ForceRefresh(q) PROVE CacheInv'
  BY <1>0, <1>6, FetchKeepsInv DEF ForceRefresh
<1>7. ASSUME NEW q \in Requests, Reply(q) \/ Failure(q) PROVE CacheInv'
  BY <1>7, ReplyKeepsInv
<1>8. ASSUME NEW q \in Requests, Store(q) PROVE CacheInv'
  BY <1>8, StoreKeepsInv
<1>9. ASSUME NEW q \in Requests, StoreFailure(q) PROVE CacheInv'
  BY <1>9, StoreFailureKeepsInv
<1>10. CASE UNCHANGED vars
  BY <1>10 DEF vars, CacheInv, TypeOK, UnpublishedIsNew, SoundReply, FreshIsRecent,
     KnownResultBeatsError, ForcedIsCurrent
<1> QED
  BY <1>1, <1>2, <1>3, <1>4, <1>5, <1>6, <1>7, <1>8, <1>9, <1>10 DEF Next

(* The inductive invariant holds in every behaviour.                       *)
THEOREM CacheInvariant == Spec => []CacheInv
<1>1. Init => CacheInv
  BY InitCache
<1> QED
  BY <1>1, NextKeepsInv, PTL DEF Spec

(* Type correctness, whatever the times to live and the number of requests *)
(* and releases.                                                           *)
THEOREM TypeCorrect == Spec => []TypeOK
<1>1. CacheInv => TypeOK
  BY DEF CacheInv
<1> QED
  BY <1>1, CacheInvariant, PTL

(* However late an older result is stored (fetchAndCache, outside the      *)
(* mutex), a fresh result misses no release that was out for longer than   *)
(* the result has been stored plus the time limit of one call.             *)
THEOREM FreshIsAlwaysRecent == Spec => []FreshIsRecent
<1>1. CacheInv => FreshIsRecent
  BY DEF CacheInv
<1> QED
  BY <1>1, CacheInvariant, PTL

(* A click on Refresh shows every release that was out at the click.       *)
THEOREM ForcedIsAlwaysCurrent == Spec => []ForcedIsCurrent
<1>1. CacheInv => ForcedIsCurrent
  BY DEF CacheInv
<1> QED
  BY <1>1, CacheInvariant, PTL

(* A good result that anybody stored beats the failure of one's own fetch. *)
THEOREM ErrorMeansNothingKnown == Spec => []KnownResultBeatsError
<1>1. CacheInv => KnownResultBeatsError
  BY DEF CacheInv
<1> QED
  BY <1>1, CacheInvariant, PTL

(* AnsweredFromCache survives every step: a fetch that ends leaves a result *)
(* or a failure, either of which lasts for NegativeCacheTTL at least.      *)
LEMMA SparingStep ==
  CacheInv /\ AnsweredFromCache /\ [Next]_vars => AnsweredFromCache'
<1> SUFFICES ASSUME CacheInv, AnsweredFromCache, [Next]_vars, NEW p \in Requests,
                    request'[p].phase = "idle"
             PROVE  \/ fresh' + spared'[p] >= NegativeCacheTTL
                    \/ quiet' + spared'[p] >= NegativeCacheTTL
  BY DEF AnsweredFromCache
<1> DEFINE Lasts == \/ fresh' + spared'[p] >= NegativeCacheTTL
                    \/ quiet' + spared'[p] >= NegativeCacheTTL
<1>0. /\ request \in [Requests -> Request] /\ spared \in [Requests -> 0..NegativeCacheTTL]
      /\ spared[p] \in 0..NegativeCacheTTL
      /\ fresh \in 0..CacheTTL /\ quiet \in 0..NegativeCacheTTL
  BY DEF CacheInv, TypeOK, Request
<1>1. ASSUME UNCHANGED <<fresh, quiet, spared>>, request'[p].phase = request[p].phase
      PROVE  Lasts
  BY <1>1 DEF AnsweredFromCache
<1>2. CASE Publish \/ Outage \/ UNCHANGED vars
  BY <1>1, <1>2 DEF Publish, Outage, vars, cache, history
<1>3. CASE Tick
  <2>1. request[p].phase = "idle"
    BY <1>3, TickFacts DEF CacheInv
  <2>2. spared'[p] = IF spared[p] = NegativeCacheTTL THEN spared[p] ELSE spared[p] + 1
    BY <1>0, <1>3 DEF Tick
  <2>3. /\ fresh' = Less(fresh) /\ quiet' = Less(quiet)
    BY <1>3 DEF Tick
  <2> QED
    BY <1>0, <2>1, <2>2, <2>3 DEF AnsweredFromCache, Less
<1>4. ASSUME NEW q \in Requests, AnswerFromCache(q) PROVE Lasts
  BY <1>1, <1>4 DEF AnswerFromCache, cache
<1>5. ASSUME NEW q \in Requests, NEW force \in BOOLEAN, Fetch(q, force),
             spared' = [spared EXCEPT ![q] = 0] \/ UNCHANGED spared
      PROVE  Lasts
  <2>1. p # q /\ request'[p] = request[p]
    BY <1>0, <1>5 DEF Fetch
  <2>2. spared'[p] = spared[p] /\ fresh' = fresh /\ quiet' = quiet
    BY <1>0, <1>5, <2>1 DEF Fetch, cache
  <2> QED
    BY <2>1, <2>2 DEF AnsweredFromCache
<1>6. ASSUME NEW q \in Requests, Reply(q) \/ Failure(q) PROVE Lasts
  <2>1. p # q /\ request'[p] = request[p]
    BY <1>0, <1>6 DEF Reply, Failure, Request
  <2> QED
    BY <1>1, <1>6, <2>1 DEF Reply, Failure, cache, history
<1>7. ASSUME NEW q \in Requests, Store(q) PROVE Lasts
  BY <1>0, <1>7, TTLOrderAssumption DEF Store
<1>8. ASSUME NEW q \in Requests, StoreFailure(q) PROVE Lasts
  BY <1>0, <1>8 DEF StoreFailure, StoreFailureAs
<1> QED
  BY <1>2, <1>3, <1>4, <1>5, <1>6, <1>7, <1>8 DEF Next, ListReleases, ForceRefresh

(* A browser whose loads reached GitHub does not reach it again before     *)
(* NegativeCacheTTL, because a good result is kept at least that long.     *)
THEOREM GitHubIsAlwaysSpared == Spec => GitHubIsSpared
<1>1. ASSUME CacheInv, AnsweredFromCache, [Next]_vars, NEW p \in Requests,
             spared'[p] = 0, spared[p] # 0
      PROVE  spared[p] = NegativeCacheTTL
  <2>0. /\ spared \in [Requests -> 0..NegativeCacheTTL] /\ spared[p] \in 0..NegativeCacheTTL
        /\ fresh \in Nat /\ quiet \in Nat
    BY <1>1 DEF CacheInv, TypeOK
  <2>1. CASE Tick
    <3>1. spared'[p] = IF spared[p] = NegativeCacheTTL THEN spared[p] ELSE spared[p] + 1
      BY <2>0, <2>1 DEF Tick
    <3> QED
      BY <1>1, <2>0, <3>1
  <2>2. ASSUME NEW q \in Requests, ListReleases(q) PROVE spared[p] = NegativeCacheTTL
    <3>1. p = q
      BY <1>1, <2>0, <2>2 DEF ListReleases
    <3>2. request[p].phase = "idle" /\ fresh = 0 /\ quiet = 0
      BY <2>0, <2>2, <3>1 DEF ListReleases, HasAnswer
    <3> QED
      BY <1>1, <2>0, <3>2 DEF AnsweredFromCache
  <2>3. CASE UNCHANGED spared
    BY <1>1, <2>3
  <2> QED
    BY <1>1, <2>1, <2>2, <2>3 DEF Next, vars, history, Publish, Outage, AnswerFromCache,
       ForceRefresh, Reply, Failure, Store, StoreFailure, StoreFailureAs
<1>2. CacheInv /\ AnsweredFromCache /\ [Next]_vars =>
        [\A q \in Requests : spared'[q] = 0 /\ spared[q] # 0 => spared[q] = NegativeCacheTTL]_vars
  BY <1>1
<1>3. Spec => []AnsweredFromCache
  <2>1. Init => AnsweredFromCache
    BY InitCache
  <2> QED
    BY <2>1, SparingStep, CacheInvariant, PTL DEF Spec
<1> QED
  BY <1>2, <1>3, CacheInvariant, PTL DEF Spec, GitHubIsSpared
=============================================================================
