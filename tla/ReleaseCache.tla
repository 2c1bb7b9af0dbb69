------------------------------ MODULE ReleaseCache ------------------------------
(***************************************************************************)
(* The cache of this app's releases on GitHub (selfupgrade/client.go) and  *)
(* the requests of the Upgrades page that share it.                        *)
(*                                                                         *)
(* The mutex covers reading the cache and storing a result, never the      *)
(* fetch between them: a request is three steps, and several fetches may   *)
(* run at once.  Releases are numbered by their publication; a list of     *)
(* releases is the number of its newest one.                               *)
(*                                                                         *)
(* Time is kept as what remains of each window, so that behaviours need no *)
(* bound on the time that passes: `fresh` ticks of cachedAt + CacheTTL,    *)
(* `quiet` ticks of lastErrAt + NegativeCacheTTL, `left` ticks of a fetch. *)
(***************************************************************************)
EXTENDS Integers, FiniteSets

CONSTANTS
  Requests,          \* requests of browsers that may be under way at once
  CacheTTL,          \* how long a good result is reused
  NegativeCacheTTL,  \* how long a failure is remembered
  Timeout,           \* how long a call to GitHub may take
  MaxReleases        \* bound: releases published

ASSUME TTLAssumption == CacheTTL \in Nat \ {0} /\ NegativeCacheTTL \in Nat \ {0} /\ Timeout \in Nat \ {0}
(* "deliberately much shorter than defaultCacheTTL" (client.go:35).         *)
ASSUME TTLOrderAssumption == NegativeCacheTTL =< CacheTTL
ASSUME MaxReleasesAssumption == MaxReleases \in Nat \ {0}

None == 0        \* no result yet, no answer, no error

VARIABLES
  latest,     \* the newest release on GitHub
  age,        \* for each release but the first, ticks since it was published (saturating)
  reachable,  \* whether GitHub answers
  cached,     \* Client.cached
  fresh,      \* what is left of the cache's time to live
  quiet,      \* what is left of the failure's; 0 when there is none
  request,    \* the requests: phase, time left, what GitHub said, and for a forced
              \* one what was out when it began
  answer,     \* history: what the last answer given was
  spared      \* history: for each request, ticks since it last asked GitHub unforced

vars == <<latest, age, reachable, cached, fresh, quiet, request, answer, spared>>
github == <<latest, age, reachable>>
cache == <<cached, fresh, quiet>>
history == <<answer, spared>>

Releases == 1..MaxReleases
Old == CacheTTL + Timeout + 1       \* older than any fresh result can be

Phases == {"idle", "fetching", "fetched", "failed"}
Idle == [phase |-> "idle", left |-> 0, got |-> None, from |-> None]
Answers == {"none", "error", "behind", "known"}

(* The state stays in its type, and what is fresh is not empty.            *)
TypeOK ==
  /\ latest \in Releases /\ cached \in {None} \cup Releases
  /\ age \in [2..MaxReleases -> 0..Old] /\ reachable \in BOOLEAN
  /\ fresh \in 0..CacheTTL /\ quiet \in 0..NegativeCacheTTL
  /\ request \in [Requests -> [phase : Phases, left : 0..Timeout,
                               got : {None} \cup Releases, from : {None} \cup Releases]]
  /\ answer \in Answers
  /\ spared \in [Requests -> 0..NegativeCacheTTL]
  /\ fresh > 0 => cached # None

Init ==
  /\ latest = 1 /\ age = [r \in 2..MaxReleases |-> 0]
  /\ reachable = TRUE
  /\ cached = None /\ fresh = 0 /\ quiet = 0
  /\ request = [q \in Requests |-> Idle]
  /\ answer = "none" /\ spared = [q \in Requests |-> NegativeCacheTTL]

-----------------------------------------------------------------------------
(* GitHub and the clock.                                                   *)

Publish ==
  /\ latest < MaxReleases
  /\ latest' = latest + 1
  /\ UNCHANGED <<age, reachable, cache, request, history>>

Outage ==
  /\ reachable' = ~reachable
  /\ UNCHANGED <<latest, age, cache, request, history>>

Less(n) == IF n = 0 THEN 0 ELSE n - 1
Older(n) == IF n = Old THEN Old ELSE n + 1

(* A call ends at its timeout at the latest, so the clock waits for it.    *)
Tick ==
  /\ \A q \in Requests : request[q].phase # "idle" => request[q].left > 0
  /\ age' = [r \in DOMAIN age |-> IF r =< latest THEN Older(age[r]) ELSE age[r]]
  /\ fresh' = Less(fresh) /\ quiet' = Less(quiet)
  /\ request' = [q \in Requests |-> [request[q] EXCEPT !.left = Less(@)]]
  /\ spared' = [q \in Requests |-> IF spared[q] = NegativeCacheTTL THEN spared[q] ELSE spared[q] + 1]
  /\ UNCHANGED <<latest, reachable, cached, answer>>

-----------------------------------------------------------------------------
(* ListReleases and ForceRefresh.  None as an answer is 502 Bad Gateway.   *)

(* What is shown may be behind what was out when a forced request began.   *)
Answer(what, floor) ==
  answer' = CASE what = None -> "error" [] what \in 1..(floor - 1) -> "behind" [] OTHER -> "known"

Fetch(q, force) ==
  /\ request' = [request EXCEPT ![q] = [phase |-> "fetching", left |-> Timeout,
                                        got |-> None, from |-> IF force THEN latest ELSE None]]
  /\ UNCHANGED <<github, cache, answer>>

(* A fresh result, or the remembered failure with the last good result     *)
(* behind it, is the answer.                                               *)
HasAnswer == fresh > 0 \/ quiet > 0

AnswerFromCache(q) ==
  /\ request[q].phase = "idle" /\ HasAnswer
  /\ Answer(cached, None)
  /\ UNCHANGED <<github, cache, request, spared>>

ListReleases(q) ==
  /\ request[q].phase = "idle" /\ ~HasAnswer
  /\ Fetch(q, FALSE)
  /\ spared' = [spared EXCEPT ![q] = 0]

ForceRefreshFromCache(q) ==
  /\ request[q].phase = "idle"
  /\ \/ ~HasAnswer /\ Fetch(q, TRUE) /\ UNCHANGED spared
     \/ HasAnswer /\ Answer(cached, latest) /\ UNCHANGED <<github, cache, request, spared>>

ForceRefresh(q) ==
  /\ request[q].phase = "idle"
  /\ Fetch(q, TRUE)
  /\ UNCHANGED spared

(* GitHub's reply, outside the mutex.  A failure is an outage, the         *)
(* timeout, or the browser that went away and cancelled the context.       *)
Reply(q) ==
  /\ request[q].phase = "fetching" /\ reachable
  /\ request' = [request EXCEPT ![q].phase = "fetched", ![q].got = latest]
  /\ UNCHANGED <<github, cache, history>>

Failure(q) ==
  /\ request[q].phase = "fetching"
  /\ request' = [request EXCEPT ![q].phase = "failed"]
  /\ UNCHANGED <<github, cache, history>>

(* The rest of fetchAndCache, under the mutex again.  ForceRefreshFromCache *)
(* above, StoreOnce and the other StoreFailures are mistakes one could     *)
(* make there, for the mutants.                                            *)
StoreOnce(q) ==
  /\ request[q].phase = "fetched"
  /\ cached' = (IF cached = None THEN request[q].got ELSE cached) /\ fresh' = CacheTTL /\ quiet' = 0
  /\ Answer(cached', request[q].from)
  /\ request' = [request EXCEPT ![q] = Idle]
  /\ UNCHANGED <<github, spared>>

Store(q) ==
  /\ request[q].phase = "fetched"
  /\ cached' = request[q].got /\ fresh' = CacheTTL /\ quiet' = 0
  /\ Answer(request[q].got, request[q].from)
  /\ request' = [request EXCEPT ![q] = Idle]
  /\ UNCHANGED <<github, spared>>

StoreFailureAs(q, freshNext, quietNext, shown) ==
  /\ request[q].phase = "failed"
  /\ fresh' = freshNext /\ quiet' = quietNext
  /\ Answer(shown, None)
  /\ request' = [request EXCEPT ![q] = Idle]
  /\ UNCHANGED <<github, cached, spared>>

StoreFailureRenews(q) == StoreFailureAs(q, IF cached = None THEN 0 ELSE CacheTTL, NegativeCacheTTL, cached)
StoreFailureStamped(q) == StoreFailureAs(q, CacheTTL, NegativeCacheTTL, cached)
StoreFailureForgets(q) == StoreFailureAs(q, fresh, NegativeCacheTTL, None)
StoreFailureIfUnknown(q) == StoreFailureAs(q, fresh, IF cached = None THEN NegativeCacheTTL ELSE quiet, cached)

StoreFailure(q) == StoreFailureAs(q, fresh, NegativeCacheTTL, cached)

Next ==
  \/ Publish \/ Outage \/ Tick
  \/ \E q \in Requests : \/ AnswerFromCache(q) \/ ListReleases(q) \/ ForceRefresh(q)
                         \/ Reply(q) \/ Failure(q) \/ Store(q) \/ StoreFailure(q)

Spec == Init /\ [][Next]_vars

(* The clock runs, the runtime runs a request that has its reply, and the  *)
(* page asks again and again; GitHub answers a call it gets the chance to  *)
(* answer often enough.                                                    *)
FairSpec ==
  /\ Spec /\ WF_vars(Tick)
  /\ \A q \in Requests : /\ WF_vars(Store(q)) /\ WF_vars(StoreFailure(q))
                         /\ SF_vars(ListReleases(q)) /\ SF_vars(Reply(q))
                         /\ WF_vars(Failure(q) /\ request[q].left = 0)
-----------------------------------------------------------------------------
(* A result counts as fresh for CacheTTL from the moment it is stored, not *)
(* from the moment GitHub gave it: with several fetches under way an older *)
(* one may be stored last.  It still misses no release that was out for    *)
(* longer than the result has been stored plus one call's timeout.         *)
FreshIsRecent ==
  fresh > 0 /\ cached < latest => age[cached + 1] =< CacheTTL - fresh + Timeout

(* "concurrent call that filled the cache meanwhile wins over this call's  *)
(* error": once any request has stored a result, no request is answered    *)
(* with an error, whatever was the case when its own fetch began.          *)
KnownResultBeatsError == answer = "error" => cached = None

(* "can always see a release newer than whatever's currently cached": the  *)
(* answer GitHub gave to a click on Refresh misses no release that was out *)
(* at the click, although other fetches store their results meanwhile.     *)
ForcedIsCurrent == answer # "behind"

(* "so repeated page loads during an outage/rate-limit don't each retry":  *)
(* a browser whose loads reached GitHub unforced does so again only after  *)
(* NegativeCacheTTL, however its fetch, those of others and their failures *)
(* and successes interleave.                                               *)
GitHubIsSpared ==
  [][\A q \in Requests : spared'[q] = 0 /\ spared[q] # 0 => spared[q] = NegativeCacheTTL]_vars

(* After the last release and the last outage every page shows the newest  *)
(* release for good, although failures and older results were stored.      *)
NewestIsSeen == (<>[]reachable) => <>[](cached = latest)
=============================================================================
