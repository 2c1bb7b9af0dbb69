----------------------- MODULE RequestLimiterProofs ------------------------
(***************************************************************************)
(* What TLAPS proves about RequestLimiter: for every set of keys, every    *)
(* limit, window and bound, no key ever gets more than Max requests        *)
(* through in a rolling window, and the counts are exact.                  *)
(***************************************************************************)
EXTENDS RequestLimiter, FiniteSetTheorems, TLAPS

USE MaxAssumption, WindowAssumption

(* The hits let through in the stretch of a window's length ending at t.   *)
Through(k, t) == {h \in granted[k] : t - Window < h.at /\ h.at <= t}

(* A sweep only ever drops stale hits. *)
LEMMA SweepKeepsLive ==
  ASSUME TypeOK, NEW k \in Keys
  PROVE  /\ Live(HitsOf(Swept, k)) = Live(HitsOf(hits, k))
         /\ HitsOf(Swept, k) \subseteq HitsOf(hits, k)
         /\ DOMAIN Swept \subseteq DOMAIN hits
BY DEF Swept, EvictExpired, FilterAfter, Cutoff, HitsOf, Live, TypeOK, Hit

(* What Allow keeps of a key is what of it was let through in the window.  *)
LEMMA KeptIsLive ==
  ASSUME LimiterInv, NEW k \in Keys
  PROVE  /\ Kept(k) = Live(granted[k])
         /\ Kept(k) \subseteq granted[k]
         /\ IsFiniteSet(Kept(k))
<1>1. Kept(k) = Live(HitsOf(Swept, k))
  BY DEF Kept, FilterAfter, Cutoff, Live, LimiterInv, TypeOK, Hit
<1>2. Kept(k) = Live(granted[k])
  BY <1>1, SweepKeepsLive DEF LimiterInv, CountsAreExact
<1>3. Kept(k) \subseteq granted[k]
  BY <1>2 DEF Live
<1> QED
  BY <1>2, <1>3, FS_Subset DEF LimiterInv

(* Storing under one key leaves what the map holds for the others.         *)
LEMMA StoredHits ==
  ASSUME NEW m, NEW k, NEW S, NEW j
  PROVE  HitsOf(Store(m, k, S), j) = IF j = k THEN S ELSE HitsOf(m, j)
BY DEF HitsOf, Store

LEMMA InitLimiter == Init => LimiterInv
<1> SUFFICES ASSUME Init PROVE LimiterInv
  OBVIOUS
<1>1. TypeOK
  BY DEF Init, TypeOK, NoHits
<1>2. \A k \in Keys : granted[k] = {} /\ HitsOf(hits, k) = {}
  BY DEF Init, NoHits, HitsOf
<1>3. RollingLimit
  <2>1. \A k \in Keys, t \in 0..now :
          {h \in granted[k] : t - Window < h.at /\ h.at <= t} = {}
    BY <1>2
  <2> QED
    BY <2>1, FS_EmptySet DEF RollingLimit
<1> QED
  BY <1>1, <1>2, <1>3, FS_EmptySet DEF LimiterInv, CountsAreExact, Live

(* The type part of a call of Allow. *)
LEMMA StoreType ==
  ASSUME TypeOK, NEW k \in Keys, NEW S \in SUBSET Hit,
         hits' = Store(Swept, k, S)
  PROVE  /\ DOMAIN hits' \subseteq Keys
         /\ \A j \in DOMAIN hits' : hits'[j] \subseteq Hit
<1>1. \A j \in DOMAIN Swept : Swept[j] \subseteq Hit
  BY DEF Swept, EvictExpired, FilterAfter, TypeOK
<1> QED
  BY <1>1, SweepKeepsLive DEF Store, TypeOK

LEMMA GrantKeepsInv ==
  ASSUME LimiterInv, NEW k \in Keys, Grant(k)
  PROVE  LimiterInv'
<1> DEFINE h == [n |-> serial[k], at |-> now]
<1>0. TypeOK
  BY DEF LimiterInv
<1>1. /\ h \in Hit
      /\ h \notin granted[k]
      /\ h.n = serial[k] /\ h.at = now
  <2>1. h.n = serial[k]
    OBVIOUS
  <2> QED
    BY <1>0, <2>1 DEF LimiterInv, TypeOK, Hit
<1>2. /\ hits' = Store(Swept, k, Kept(k) \cup {h})
      /\ granted' = [granted EXCEPT ![k] = @ \cup {h}]
      /\ serial' = [serial EXCEPT ![k] = @ + 1]
      /\ now' = now
      /\ Cardinality(Kept(k)) < Max
  BY DEF Grant
<1> HIDE DEF h
<1>3. TypeOK'
  <2>1. Kept(k) \cup {h} \subseteq Hit
    BY <1>0, <1>1, KeptIsLive DEF TypeOK
  <2>2. /\ DOMAIN hits' \subseteq Keys
        /\ \A j \in DOMAIN hits' : hits'[j] \subseteq Hit
    BY <1>0, <1>2, <2>1, StoreType
  <2> QED
    BY <1>0, <1>1, <1>2, <2>2 DEF TypeOK
<1>4. \A j \in Keys : HitsOf(hits', j) = IF j = k THEN Kept(k) \cup {h}
                                          ELSE HitsOf(Swept, j)
  BY <1>2, StoredHits
<1>5. \A j \in Keys : granted'[j] = IF j = k THEN granted[k] \cup {h}
                                     ELSE granted[j]
  BY <1>0, <1>2 DEF TypeOK
<1>6. CountsAreExact'
  <2> SUFFICES ASSUME NEW j \in Keys
               PROVE  Live(HitsOf(hits, j))' = Live(granted[j])'
    BY DEF CountsAreExact
  <2>1. CASE j = k
    <3>1. Live(Kept(k)) = Live(granted[k])
      BY KeptIsLive DEF Live
    <3>2. Live(HitsOf(hits, j))' = Live(Kept(k) \cup {h})
      BY <1>2, <1>4, <2>1 DEF Live
    <3>3. Live(granted[j])' = Live(granted[k] \cup {h})
      BY <1>2, <1>5, <2>1 DEF Live
    <3>4. \A S : Live(S \cup {h}) = Live(S) \cup Live({h})
      BY DEF Live
    <3> QED
      BY <3>1, <3>2, <3>3, <3>4
  <2>2. CASE j # k
    <3>1. Live(HitsOf(Swept, j)) = Live(granted[j])
      BY <1>0, SweepKeepsLive DEF LimiterInv, CountsAreExact
    <3> QED
      BY <1>2, <1>4, <1>5, <2>2, <3>1 DEF Live
  <2> QED
    BY <2>1, <2>2
<1>7. RollingLimit'
  <2> SUFFICES ASSUME NEW j \in Keys, NEW t \in 0..now
               PROVE  Cardinality(Through(j, t)') <= Max
    BY <1>2 DEF RollingLimit, Through
  <2>1. CASE j # k \/ t # now
    <3>1. Through(j, t)' = Through(j, t)
      BY <1>0, <1>1, <1>5, <2>1 DEF Through, TypeOK
    <3> QED
      BY <3>1 DEF LimiterInv, RollingLimit, Through
  <2>2. CASE j = k /\ t = now
    <3>1. Through(j, t)' = Kept(k) \cup {h}
      <4>1. \A g \in granted[k] : g.at <= now
        BY DEF LimiterInv
      <4> QED
        BY <1>0, <1>1, <1>5, <2>2, <4>1, KeptIsLive
        DEF Through, Live, TypeOK
    <3>2. IsFiniteSet(Kept(k)) /\ h \notin Kept(k)
      BY <1>1, KeptIsLive
    <3>3. Cardinality(Kept(k) \cup {h}) = Cardinality(Kept(k)) + 1
      BY <3>2, FS_AddElement
    <3>4. Cardinality(Kept(k)) \in Nat
      BY <3>2, FS_CardinalityType
    <3> QED
      BY <1>2, <3>1, <3>3, <3>4
  <2> QED
    BY <2>1, <2>2
<1>8. \A j \in Keys : /\ IsFiniteSet(granted'[j])
                      /\ HitsOf(hits', j) \subseteq granted'[j]
                      /\ \A g \in granted'[j] : g.n < serial'[j] /\ g.at <= now'
  <2> SUFFICES ASSUME NEW j \in Keys
               PROVE  /\ IsFiniteSet(granted'[j])
                      /\ HitsOf(hits', j) \subseteq granted'[j]
                      /\ \A g \in granted'[j] : g.n < serial'[j] /\ g.at <= now'
    OBVIOUS
  <2>1. IsFiniteSet(granted'[j])
    <3>1. IsFiniteSet(granted[j]) /\ IsFiniteSet(granted[k])
      BY <1>0 DEF LimiterInv
    <3>2. IsFiniteSet(granted[k] \cup {h})
      BY <3>1, FS_AddElement
    <3> QED
      BY <1>5, <3>1, <3>2
  <2>2. HitsOf(hits', j) \subseteq granted'[j]
    BY <1>0, <1>4, <1>5, KeptIsLive, SweepKeepsLive DEF LimiterInv
  <2>3. \A g \in granted'[j] : g.n < serial'[j] /\ g.at <= now'
    <3>1. \A i \in Keys : serial[i] \in Nat /\ \A g \in granted[i] : g.n \in Nat
      BY <1>0 DEF TypeOK, Hit
    <3>2. serial'[j] = IF j = k THEN serial[k] + 1 ELSE serial[j]
      BY <1>0, <1>2 DEF TypeOK
    <3>3. now \in Nat
      BY <1>0 DEF TypeOK
    <3> QED
      BY <1>1, <1>2, <1>5, <3>1, <3>2, <3>3 DEF LimiterInv
  <2> QED
    BY <2>1, <2>2, <2>3
<1> QED
  BY <1>3, <1>6, <1>7, <1>8 DEF LimiterInv

LEMMA RefuseKeepsInv ==
  ASSUME LimiterInv, NEW k \in Keys, Refuse(k)
  PROVE  LimiterInv'
<1>0. TypeOK
  BY DEF LimiterInv
<1>1. /\ hits' = Store(Swept, k, Kept(k))
      /\ now' = now /\ granted' = granted /\ serial' = serial
  BY DEF Refuse
<1>2. TypeOK'
  <2>1. Kept(k) \subseteq Hit
    BY <1>0, KeptIsLive DEF TypeOK
  <2> QED
    BY <1>0, <1>1, <2>1, StoreType DEF TypeOK
<1>3. \A j \in Keys : HitsOf(hits', j) = IF j = k THEN Kept(k)
                                          ELSE HitsOf(Swept, j)
  BY <1>1, StoredHits
<1>4. CountsAreExact'
  <2> SUFFICES ASSUME NEW j \in Keys
               PROVE  Live(HitsOf(hits, j))' = Live(granted[j])'
    BY DEF CountsAreExact
  <2>1. Live(Kept(k)) = Live(granted[k])
    BY KeptIsLive DEF Live
  <2>2. Live(HitsOf(Swept, j)) = Live(granted[j])
    BY <1>0, SweepKeepsLive DEF LimiterInv, CountsAreExact
  <2> QED
    BY <1>1, <1>3, <2>1, <2>2 DEF Live
<1>5. RollingLimit'
  BY <1>1 DEF LimiterInv, RollingLimit
<1>6. \A j \in Keys : HitsOf(hits', j) \subseteq granted'[j]
  BY <1>0, <1>1, <1>3, KeptIsLive, SweepKeepsLive DEF LimiterInv
<1> QED
  BY <1>1, <1>2, <1>4, <1>5, <1>6 DEF LimiterInv

(* A window that ends one instant later holds no more than what was let    *)
(* through in the one before: nothing has been let through since.          *)
LEMMA TickKeepsInv ==
  ASSUME LimiterInv, Tick
  PROVE  LimiterInv'
<1>0. TypeOK
  BY DEF LimiterInv
<1>1. now' = now + 1 /\ hits' = hits /\ granted' = granted /\ serial' = serial
  BY DEF Tick
<1>2. TypeOK'
  BY <1>0, <1>1 DEF TypeOK
<1>3. CountsAreExact'
  <2> SUFFICES ASSUME NEW j \in Keys
               PROVE  Live(HitsOf(hits, j))' = Live(granted[j])'
    BY DEF CountsAreExact
  <2>1. Live(HitsOf(hits, j)) = Live(granted[j])
    BY DEF LimiterInv, CountsAreExact
  <2>2. HitsOf(hits, j) \subseteq Hit /\ granted[j] \subseteq Hit
    BY <1>0 DEF HitsOf, TypeOK
  <2> QED
    BY <1>0, <1>1, <2>1, <2>2 DEF Live, TypeOK, Hit
<1>4. RollingLimit'
  <2> SUFFICES ASSUME NEW j \in Keys, NEW t \in 0..(now + 1)
               PROVE  Cardinality(Through(j, t)) <= Max
    BY <1>1 DEF RollingLimit, Through
  <2>1. CASE t \in 0..now
    BY <2>1 DEF LimiterInv, RollingLimit, Through
  <2>2. CASE t = now + 1
    <3>1. now \in 0..now /\ Cardinality(Through(j, now)) <= Max
      BY <1>0 DEF LimiterInv, RollingLimit, Through, TypeOK
    <3>2. Through(j, t) \subseteq Through(j, now)
      BY <1>0, <2>2 DEF Through, LimiterInv, TypeOK, Hit
    <3>3. IsFiniteSet(Through(j, now))
      BY FS_Subset DEF Through, LimiterInv
    <3>4. /\ Cardinality(Through(j, t)) \in Nat
          /\ Cardinality(Through(j, now)) \in Nat
          /\ Cardinality(Through(j, t)) <= Cardinality(Through(j, now))
      BY <3>2, <3>3, FS_Subset, FS_CardinalityType
    <3> QED
      BY <3>1, <3>4
  <2> QED
    BY <1>0, <2>1, <2>2 DEF TypeOK
<1>5. \A j \in Keys : \A g \in granted[j] : g.at <= now + 1
  BY <1>0 DEF LimiterInv, TypeOK, Hit
<1> QED
  BY <1>1, <1>2, <1>3, <1>4, <1>5 DEF LimiterInv

(* The strengthened invariant holds at all times. *)
THEOREM LimiterInvariant == Spec => []LimiterInv
<1>1. LimiterInv /\ [Next]_vars => LimiterInv'
  <2> SUFFICES ASSUME LimiterInv, [Next]_vars PROVE LimiterInv'
    OBVIOUS
  <2>1. CASE Tick
    BY <2>1, TickKeepsInv
  <2>2. CASE \E k \in Keys : Allow(k)
    BY <2>2, GrantKeepsInv, RefuseKeepsInv DEF Allow
  <2>3. CASE UNCHANGED vars
    BY <2>3 DEF vars, LimiterInv, TypeOK, CountsAreExact, RollingLimit, Live,
       HitsOf
  <2> QED
    BY <2>1, <2>2, <2>3 DEF Next
<1> QED
  BY InitLimiter, <1>1, PTL DEF Spec

(* In no stretch of a window's length does a key get more than Max         *)
(* requests through the limiter of commits and imports.                    *)
THEOREM NeverMoreThanMax == Spec => []RollingLimit
BY LimiterInvariant, PTL DEF LimiterInv

(* The count Allow decides on is exact, whatever the sweeps dropped.       *)
THEOREM CountsStayExact == Spec => []CountsAreExact
BY LimiterInvariant, PTL DEF LimiterInv

-----------------------------------------------------------------------------
(* The size of the map *)

(* A sweep never makes the map larger, and there are finitely many keys in *)
(* it.                                                                     *)
LEMMA MapStaysFinite == Spec => []IsFiniteSet(DOMAIN hits)
<1>1. Init => IsFiniteSet(DOMAIN hits)
  BY FS_EmptySet DEF Init, NoHits
<1>2. IsFiniteSet(DOMAIN hits) /\ [Next]_vars => IsFiniteSet(DOMAIN hits)'
  <2> SUFFICES ASSUME IsFiniteSet(DOMAIN hits), [Next]_vars
               PROVE  IsFiniteSet(DOMAIN hits')
    OBVIOUS
  <2>1. ASSUME NEW k, NEW S, hits' = Store(Swept, k, S)
        PROVE  IsFiniteSet(DOMAIN hits')
    <3>1. DOMAIN Swept \subseteq DOMAIN hits
      BY DEF Swept, EvictExpired
    <3>2. IsFiniteSet(DOMAIN Swept \cup {k})
      BY <3>1, FS_Subset, FS_Singleton, FS_Union
    <3>3. DOMAIN hits' = DOMAIN Swept \cup {k}
      BY <2>1 DEF Store
    <3> QED
      BY <3>2, <3>3
  <2>2. ASSUME hits' = hits PROVE IsFiniteSet(DOMAIN hits')
    BY <2>2
  <2> QED
    BY <2>1, <2>2 DEF Next, Allow, Grant, Refuse, Tick, vars
<1> QED
  BY <1>1, <1>2, PTL DEF Spec

(* A map that was not swept had room for one more key; a swept one holds   *)
(* keys with a live hit only.                                              *)
LEMMA StoredMapIsActive ==
  ASSUME LimiterInv, IsFiniteSet(DOMAIN hits), NEW k \in Keys, NEW S,
         hits' = Store(Swept, k, S), Live(S) # {},
         DOMAIN hits' # DOMAIN hits, Cardinality(DOMAIN hits') > MaxTrackedKeys
  PROVE  \A j \in DOMAIN hits' : Live(hits'[j]) # {}
<1>1. /\ DOMAIN hits' = DOMAIN Swept \cup {k}
      /\ hits'[k] = S
      /\ \A j \in DOMAIN Swept : j # k => hits'[j] = Swept[j]
  BY DEF Store
<1>2. CASE Cardinality(DOMAIN hits) >= MaxTrackedKeys
  <2>1. \A j \in DOMAIN Swept : Swept[j] # {} /\ Live(Swept[j]) = Swept[j]
    BY <1>2 DEF Swept, EvictExpired, FilterAfter, Cutoff, Live, LimiterInv, TypeOK, Hit
  <2> QED
    BY <1>1, <2>1
<1>3. CASE ~(Cardinality(DOMAIN hits) >= MaxTrackedKeys)
  <2>1. DOMAIN hits' = DOMAIN hits \cup {k}
    BY <1>1, <1>3 DEF Swept
  <2>2. Cardinality(DOMAIN hits) \in Nat /\ MaxTrackedKeys \in Nat
    BY FS_CardinalityType, MaxTrackedKeysAssumption
  <2>3. CASE k \in DOMAIN hits
    BY <2>1, <2>3
  <2>4. CASE k \notin DOMAIN hits
    <3>1. Cardinality(DOMAIN hits \cup {k}) = Cardinality(DOMAIN hits) + 1
      BY <2>4, FS_AddElement
    <3> QED
      BY <1>3, <2>1, <2>2, <3>1
  <2> QED
    BY <2>3, <2>4
<1> QED
  BY <1>2, <1>3

(* The map of the limiter grows beyond its bound only while every key in   *)
(* it is active, for any bound and any number of keys (Allow).             *)
THEOREM GrowsOnlyWithActive == Spec => GrowsOnlyWithActiveKeys
<1>1. ASSUME LimiterInv, IsFiniteSet(DOMAIN hits), [Next]_vars,
             DOMAIN hits' # DOMAIN hits, Cardinality(DOMAIN hits') > MaxTrackedKeys
      PROVE  \A k \in DOMAIN hits' : Live(hits'[k]) # {}
  <2>1. PICK k \in Keys : Allow(k)
    BY <1>1 DEF Next, Tick, vars
  <2>2. PICK S : hits' = Store(Swept, k, S) /\ Live(S) # {}
    <3>1. CASE Grant(k)
      <4> DEFINE h == [n |-> serial[k], at |-> now]
      <4>1. hits' = Store(Swept, k, Kept(k) \cup {h})
        BY <3>1 DEF Grant
      <4>2. h \in Live(Kept(k) \cup {h})
        <5>1. h.at = now /\ now \in Nat
          BY <1>1 DEF LimiterInv, TypeOK
        <5> QED
          BY <5>1 DEF Live
      <4> QED
        BY <4>1, <4>2
    <3>2. CASE Refuse(k)
      <4>1. Kept(k) # {}
        BY <3>2, FS_EmptySet DEF Refuse
      <4>2. Live(Kept(k)) = Kept(k)
        BY <1>1, KeptIsLive DEF Live
      <4> QED
        BY <3>2, <4>1, <4>2 DEF Refuse
    <3> QED
      BY <2>1, <3>1, <3>2 DEF Allow
  <2> QED
    BY <1>1, <2>2, StoredMapIsActive
<1>2. LimiterInv /\ IsFiniteSet(DOMAIN hits) /\ [Next]_vars =>
        [ (/\ DOMAIN hits' # DOMAIN hits
           /\ Cardinality(DOMAIN hits') > MaxTrackedKeys)
          => \A k \in DOMAIN hits' : Live(hits'[k]) # {} ]_vars
  BY <1>1
<1> QED
  BY <1>2, LimiterInvariant, MapStaysFinite, PTL DEF Spec, GrowsOnlyWithActiveKeys
=============================================================================
