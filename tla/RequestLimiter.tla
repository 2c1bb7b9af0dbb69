--------------------------- MODULE RequestLimiter ---------------------------
(***************************************************************************)
(* The rolling-window limiter in front of commit, confirm, rollback and    *)
(* import (auth/requestlimiter.go). Its map is read and written under one  *)
(* mutex, so a call of Allow is one step.                                  *)
(*                                                                         *)
(* A recorded request carries a serial number besides its time: several    *)
(* requests of one key may be granted at the same instant and each counts. *)
(***************************************************************************)
EXTENDS Integers, FiniteSets

CONSTANTS
  Keys,             \* authenticated user names
  Max,              \* requests a key may make within the window
  Window,           \* the rolling window
  MaxTrackedKeys,   \* keys tracked before a sweep
  Horizon           \* bound on the time that passes

ASSUME MaxAssumption == Max \in Nat \ {0}
ASSUME WindowAssumption == Window \in Nat \ {0}
ASSUME MaxTrackedKeysAssumption == MaxTrackedKeys \in Nat
ASSUME HorizonAssumption == Horizon \in Nat

VARIABLES
  now,       \* the clock the back end reads
  hits,      \* RequestLimiter.hits: a map, tracking some of the keys
  granted,   \* history: every request let through, of each key
  serial     \* of each key, the serial number of its next such request

vars == <<now, hits, granted, serial>>

Hit == [n : Nat, at : Nat]

TypeOK ==
  /\ now \in Nat
  /\ DOMAIN hits \subseteq Keys
  /\ \A k \in DOMAIN hits : hits[k] \subseteq Hit
  /\ granted \in [Keys -> SUBSET Hit]
  /\ serial \in [Keys -> Nat]

NoHits == [k \in {} |-> {}]

Init ==
  /\ now = 0
  /\ hits = NoHits
  /\ granted = [k \in Keys |-> {}]
  /\ serial = [k \in Keys |-> 0]

-----------------------------------------------------------------------------
(* Allow and its helpers. EvictPartlyStale, FilterAfterShort and           *)
(* SweptWhenOver are mistakes one could make there, for the mutants.       *)

FilterAfterShort(times, cutoff) == {h \in times : h.at > cutoff + 1}

FilterAfter(times, cutoff) == {h \in times : h.at > cutoff}

Cutoff == now - Window

(* What the map holds for a key: a missing entry reads as no hits.         *)
HitsOf(m, k) == IF k \in DOMAIN m THEN m[k] ELSE {}

EvictPartlyStale(cutoff) ==
  [k \in {j \in DOMAIN hits : FilterAfter(hits[j], cutoff) = hits[j]} |->
     FilterAfter(hits[k], cutoff)]

(* evictExpiredLocked: keys without a live hit go, the others keep those.  *)
EvictExpired(cutoff) ==
  [k \in {j \in DOMAIN hits : FilterAfter(hits[j], cutoff) # {}} |->
     FilterAfter(hits[k], cutoff)]

SweptWhenOver ==
  IF Cardinality(DOMAIN hits) > MaxTrackedKeys
  THEN EvictExpired(Cutoff) ELSE hits

(* The map as Allow uses it: swept first when it tracks too many keys.     *)
Swept ==
  IF Cardinality(DOMAIN hits) >= MaxTrackedKeys
  THEN EvictExpired(Cutoff) ELSE hits

Kept(k) == FilterAfter(HitsOf(Swept, k), Cutoff)

Store(m, k, times) ==
  [j \in DOMAIN m \cup {k} |-> IF j = k THEN times ELSE m[j]]

Grant(k) ==
  LET h == [n |-> serial[k], at |-> now] IN
  /\ Cardinality(Kept(k)) < Max
  /\ hits' = Store(Swept, k, Kept(k) \cup {h})
  /\ granted' = [granted EXCEPT ![k] = @ \cup {h}]
  /\ serial' = [serial EXCEPT ![k] = @ + 1]
  /\ UNCHANGED now

(* 429 Too Many Requests: nothing is recorded, the stale hits are dropped. *)
Refuse(k) ==
  /\ Cardinality(Kept(k)) >= Max
  /\ hits' = Store(Swept, k, Kept(k))
  /\ UNCHANGED <<now, granted, serial>>

Tick ==
  /\ now < Horizon
  /\ now' = now + 1
  /\ UNCHANGED <<hits, granted, serial>>

Allow(k) == Grant(k) \/ Refuse(k)

Next == Tick \/ \E k \in Keys : Allow(k)

Spec == Init /\ [][Next]_vars

-----------------------------------------------------------------------------
(* Properties *)

(* The hits of a set that lie within the window that ends now.             *)
Live(S) == {h \in S : now - Window < h.at}

(* In no stretch of time as long as the window, wherever it ends, does a   *)
(* key get more than Max requests through (Allow), although the map        *)
(* forgets old hits and sweeps other keys.                                 *)
RollingLimit ==
  \A k \in Keys : \A t \in 0..now :
    Cardinality({h \in granted[k] : t - Window < h.at /\ h.at <= t}) <= Max

(* The count Allow compares with Max is exact: no sweep and no filtering   *)
(* ever drops a hit that is still in the window, so a request is refused   *)
(* exactly when Max requests of its key went through in the window.        *)
CountsAreExact ==
  \A k \in Keys : Live(HitsOf(hits, k)) = Live(granted[k])

(* The map grows beyond MaxTrackedKeys only while every key in it is       *)
(* active: stale keys are swept before a new one is added (Allow).         *)
GrowsOnlyWithActiveKeys ==
  [][ (/\ DOMAIN hits' # DOMAIN hits
       /\ Cardinality(DOMAIN hits') > MaxTrackedKeys)
      => \A k \in DOMAIN hits' : Live(hits'[k]) # {} ]_vars

(* The invariant the proofs use. Beyond the two properties it says that    *)
(* recorded requests have distinct serial numbers and lie in the past.     *)
LimiterInv ==
  /\ TypeOK
  /\ CountsAreExact
  /\ RollingLimit
  /\ \A k \in Keys :
       /\ IsFiniteSet(granted[k])
       /\ HitsOf(hits, k) \subseteq granted[k]
       /\ \A h \in granted[k] : h.n < serial[k] /\ h.at <= now
=============================================================================
