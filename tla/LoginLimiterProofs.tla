------------------------- MODULE LoginLimiterProofs -------------------------
(***************************************************************************)
(* What TLAPS proves about LoginLimiter, for every number of sources,      *)
(* logins and slots and every choice of the limits with MaxDelay at most   *)
(* Window: a block stands, no source is overcharged, the count is exact    *)
(* but for stray refunds, and the backoff is respected and doubles.        *)
(***************************************************************************)
EXTENDS LoginLimiter, FiniteSetTheorems, TLAPS

USE LoginsAssumption, DelayAssumption, WindowAssumption

LEMMA BackoffType == \A f : Backoff(f) \in 1..MaxDelay
BY DEF Backoff

-----------------------------------------------------------------------------
(* The map *)

(* Coming back and sweeping drop stale sources only, and change none.      *)
LEMMA SweptFacts ==
  ASSUME NEW k
  PROVE  /\ \A j \in DOMAIN Swept(k) :
              j \in DOMAIN Refreshed(k) /\ Swept(k)[j] = Refreshed(k)[j]
         /\ \A j \in DOMAIN Refreshed(k) :
              j \in Tracked /\ Refreshed(k)[j] = attempts[j]
         /\ \A j \in Tracked :
              ~Stale(attempts, j) => j \in DOMAIN Swept(k)
                                     /\ j \in DOMAIN Refreshed(k)
         /\ k \in DOMAIN Refreshed(k) => ~Stale(attempts, k)
<1>1. \A j \in DOMAIN Refreshed(k) :
        j \in Tracked /\ Refreshed(k)[j] = attempts[j]
  BY DEF Refreshed, Without, Tracked
<1>2. \A j \in Tracked : ~Stale(attempts, j) => j \in DOMAIN Refreshed(k)
  BY DEF Refreshed, Without, Tracked
<1>3. k \in DOMAIN Refreshed(k) => ~Stale(attempts, k)
  BY DEF Refreshed, Without, Tracked
<1>4. \A j \in DOMAIN Refreshed(k) :
        Stale(Refreshed(k), j) <=> Stale(attempts, j)
  BY <1>1 DEF Stale
<1>5. \A j \in DOMAIN Swept(k) :
        j \in DOMAIN Refreshed(k) /\ Swept(k)[j] = Refreshed(k)[j]
  BY DEF Swept, Evict
<1>6. \A j \in DOMAIN Refreshed(k) :
        ~Stale(attempts, j) => j \in DOMAIN Swept(k)
  BY <1>4 DEF Swept, Evict
<1> QED
  BY <1>1, <1>2, <1>3, <1>5, <1>6

(* What Reserve stores for its source. *)
LEMMA CountedFacts ==
  ASSUME TypeOK, NEW k \in Sources
  PROVE  /\ Counted(k) \in Attempt
         /\ Counted(k).last = now
         /\ Counted(k).failures =
              IF k \in DOMAIN Swept(k) THEN attempts[k].failures + 1 ELSE 1
         /\ Counted(k).failures >= MaxAttempts
            => Counted(k).blocked = now + Backoff(Counted(k).failures)
         /\ ~(Counted(k).failures >= MaxAttempts)
            => Counted(k).blocked =
                 IF k \in DOMAIN Swept(k) THEN attempts[k].blocked ELSE 0
<1> DEFINE old == IF k \in DOMAIN Swept(k) THEN Swept(k)[k] ELSE NoAttempt
           f == old.failures + 1
           b == IF f >= MaxAttempts THEN now + Backoff(f) ELSE old.blocked
<1>1. Counted(k) = [failures |-> f, last |-> now, blocked |-> b]
  BY DEF Counted
<1>2. k \in DOMAIN Swept(k) => k \in Tracked /\ Swept(k)[k] = attempts[k]
  BY SweptFacts
<1>3. old \in Attempt
  BY <1>2 DEF TypeOK, Tracked, NoAttempt, Attempt
<1>4. /\ old.failures = IF k \in DOMAIN Swept(k) THEN attempts[k].failures ELSE 0
      /\ old.blocked = IF k \in DOMAIN Swept(k) THEN attempts[k].blocked ELSE 0
  BY <1>2 DEF NoAttempt
<1>5. f \in Int /\ now \in Nat /\ old.blocked \in Nat /\ Backoff(f) \in 1..MaxDelay
  BY <1>3, BackoffType DEF TypeOK, Attempt
<1>6. b \in Nat
  BY <1>5
<1>7. Counted(k) \in Attempt
  BY <1>1, <1>5, <1>6 DEF Attempt
<1>8. /\ Counted(k).failures = f /\ Counted(k).last = now
      /\ Counted(k).blocked = b
  BY <1>1
<1>9. f = IF k \in DOMAIN Swept(k) THEN attempts[k].failures + 1 ELSE 1
  BY <1>4
<1> QED
  BY <1>4, <1>7, <1>8, <1>9

(* What Refund does to its source, and that it leaves the others alone.    *)
LEMMA RefundedFacts ==
  ASSUME TypeOK, NEW k \in Sources
  PROVE  /\ DOMAIN Refunded(k) \subseteq Tracked
         /\ \A j \in Tracked : j # k => /\ j \in DOMAIN Refunded(k)
                                        /\ Refunded(k)[j] = attempts[j]
         /\ k \in DOMAIN Refunded(k)
            => /\ Refunded(k)[k] \in Attempt
               /\ Refunded(k)[k].failures = attempts[k].failures - 1
               /\ attempts[k].failures > 1
               /\ Refunded(k)[k].last = attempts[k].last
               /\ Refunded(k)[k].blocked \in {0, attempts[k].blocked}
<1> DEFINE a == attempts[k]
           u == OneLess(a)
<1>1. CASE ~(k \in Tracked /\ a.failures > 1)
  <2>1. Refunded(k) = Without(attempts, k)
    BY <1>1 DEF Refunded
  <2> QED
    BY <2>1 DEF Without, Tracked
<1>2. CASE k \in Tracked /\ a.failures > 1
  <2>1. a \in Attempt
    BY <1>2 DEF TypeOK
  <2>2. /\ u \in Attempt /\ u.failures = a.failures - 1 /\ u.last = a.last
        /\ u.blocked \in {0, a.blocked}
    BY <2>1 DEF Attempt, OneLess
  <2>3. Refunded(k) = Put(attempts, k, u)
    BY <1>2 DEF Refunded
  <2>4. /\ DOMAIN Refunded(k) = Tracked
        /\ Refunded(k)[k] = u
        /\ \A j \in Tracked : j # k => Refunded(k)[j] = attempts[j]
    BY <1>2, <2>3 DEF Put, Tracked
  <2> QED
    BY <1>2, <2>2, <2>4
<1> QED
  BY <1>1, <1>2

-----------------------------------------------------------------------------
(* Types *)

LEMMA InitTypeOK == Init => TypeOK
BY DEF Init, TypeOK, Nothing, Tracked, Stages

LEMMA BecomesFacts ==
  ASSUME TypeOK, NEW r \in Logins, NEW where \in Stages, Becomes(r, where)
  PROVE  /\ stage' \in [Logins -> Stages]
         /\ \A s \in Logins : stage'[s] = IF s = r THEN where ELSE stage[s]
BY DEF Becomes, TypeOK

(* Reserve, in terms of the functions it updates: the map, *)
LEMMA ReserveMap ==
  ASSUME TypeOK, NEW r \in Logins, Reserve(r), NEW k, k = source[r]
  PROVE  /\ DOMAIN attempts' = DOMAIN Swept(k) \cup {k}
         /\ attempts'[k] = Counted(k)
         /\ \A j \in DOMAIN Swept(k) : j \in Tracked
                                     /\ (j # k => attempts'[j] = attempts[j])
<1> DEFINE m == Swept(k)
           a == Counted(k)
<1>1. attempts' = Put(m, k, a)
  BY DEF Reserve
<1>2. \A j \in DOMAIN m : j \in Tracked /\ m[j] = attempts[j]
  BY SweptFacts
<1> HIDE DEF m, a
<1>3. DOMAIN attempts' = DOMAIN m \cup {k}
  BY <1>1 DEF Put
<1>4. attempts'[k] = a
  BY <1>1 DEF Put
<1>5. \A j \in DOMAIN m : j # k => attempts'[j] = m[j]
  BY <1>1 DEF Put
<1> QED
  BY <1>2, <1>3, <1>4, <1>5 DEF m, a

(* what is charged, *)
LEMMA ReserveCharges ==
  ASSUME TypeOK, NEW r \in Logins, Reserve(r), NEW k, k = source[r]
  PROVE  /\ k \in Sources
         /\ now' = now /\ source' = source
         /\ charged' \in [Sources -> Int]
         /\ InWindow(k) => charged'[k] = charged[k] + 1 /\ owned' = owned \cup {r}
         /\ ~InWindow(k) => /\ charged'[k] = 1
                            /\ owned' = (owned \ OwnedBy(k)) \cup {r}
         /\ owned' \subseteq Logins
         /\ stray' = IF InWindow(k) THEN stray ELSE stray \ {k}
         /\ \A j \in Sources : j # k => charged'[j] = charged[j]
<1>1. k \in Sources /\ charged[k] \in Int
  BY DEF TypeOK
<1>2. Charge(r, k) /\ now' = now /\ source' = source
  BY DEF Reserve
<1>3. /\ charged' \in [Sources -> Int]
      /\ InWindow(k) => charged'[k] = charged[k] + 1
      /\ ~InWindow(k) => charged'[k] = 1
      /\ \A j \in Sources : j # k => charged'[j] = charged[j]
  BY <1>1, <1>2 DEF Charge, TypeOK
<1>4. /\ owned' \subseteq Logins
      /\ InWindow(k) => owned' = owned \cup {r}
      /\ ~InWindow(k) => owned' = (owned \ OwnedBy(k)) \cup {r}
      /\ stray' = IF InWindow(k) THEN stray ELSE stray \ {k}
  BY <1>2 DEF Charge, TypeOK
<1> QED
  BY <1>1, <1>2, <1>3, <1>4

(* and the times it is charged with. *)
LEMMA ReserveTimes ==
  ASSUME TypeOK, NEW r \in Logins, Reserve(r), NEW k, k = source[r]
  PROVE  /\ lastAt' \in [Sources -> Nat]
         /\ due' \in [Sources -> Nat]
         /\ lastAt'[k] = now
         /\ charged'[k] >= MaxAttempts => due'[k] = now + Backoff(charged'[k])
         /\ \A j \in Sources : j # k => lastAt'[j] = lastAt[j] /\ due'[j] = due[j]
<1> DEFINE c == IF InWindow(k) THEN charged[k] + 1 ELSE 1
           d == IF c >= MaxAttempts THEN now + Backoff(c) ELSE 0
<1>1. k \in Sources
  BY DEF TypeOK
<1>2. /\ due' = [due EXCEPT ![k] = d]
      /\ charged' = [charged EXCEPT ![k] = c]
      /\ lastAt' = [lastAt EXCEPT ![k] = now]
  BY DEF Reserve, Charge
<1>3. c \in Int /\ now \in Nat /\ Backoff(c) \in 1..MaxDelay
  BY <1>1, BackoffType DEF TypeOK
<1>4. d \in Nat
  BY <1>3
<1>5. charged'[k] = c
  BY <1>1, <1>2 DEF TypeOK
<1> HIDE DEF c
<1>6. c >= MaxAttempts => d = now + Backoff(c)
  OBVIOUS
<1> HIDE DEF d
<1>7. /\ due' \in [Sources -> Nat] /\ due'[k] = d
      /\ lastAt' \in [Sources -> Nat] /\ lastAt'[k] = now
      /\ \A j \in Sources : j # k => lastAt'[j] = lastAt[j] /\ due'[j] = due[j]
  BY <1>1, <1>2, <1>3, <1>4 DEF TypeOK
<1> QED
  BY <1>5, <1>6, <1>7

LEMMA NextTypeOK == TypeOK /\ [Next]_vars => TypeOK'
<1> SUFFICES ASSUME TypeOK, [Next]_vars PROVE TypeOK'
  OBVIOUS
<1>0. {"idle", "queued", "verifying"} \subseteq Stages
  BY DEF Stages
<1>1. ASSUME NEW r \in Logins, NEW k \in Sources, Arrive(r, k) PROVE TypeOK'
  <2>1. \A j \in DOMAIN Refreshed(k) : j \in Tracked /\ Refreshed(k)[j] = attempts[j]
    BY SweptFacts
  <2>2. stage' \in [Logins -> Stages]
    BY <1>0, <1>1, BecomesFacts DEF Arrive
  <2> QED
    BY <1>1, <2>1, <2>2 DEF Arrive, TypeOK, Tracked
<1>2. ASSUME NEW r \in Logins, GiveUp(r) \/ ReserveRefused(r) \/ Wrong(r)
      PROVE  TypeOK'
  <2>1. /\ stage' \in [Logins -> Stages]
        /\ UNCHANGED <<now, attempts, source, history>>
    BY <1>0, <1>2, BecomesFacts DEF GiveUp, ReserveRefused, Wrong
  <2> QED
    BY <2>1 DEF TypeOK, history, Tracked
<1>3. ASSUME NEW r \in Logins, Reserve(r) PROVE TypeOK'
  <2> DEFINE k == source[r]
  <2>1. stage' \in [Logins -> Stages]
    BY <1>0, <1>3, BecomesFacts DEF Reserve
  <2>2. k \in Sources
    BY DEF TypeOK
  <2>3. Counted(k) \in Attempt
    BY <2>2, CountedFacts
  <2>4. /\ DOMAIN attempts' = DOMAIN Swept(k) \cup {k}
        /\ attempts'[k] = Counted(k)
        /\ \A j \in DOMAIN Swept(k) : j \in Tracked
                                    /\ (j # k => attempts'[j] = attempts[j])
        /\ owned' \subseteq Logins
        /\ charged' \in [Sources -> Int] /\ lastAt' \in [Sources -> Nat]
        /\ now' = now /\ source' = source
        /\ due' \in [Sources -> Nat]
        /\ stray' = IF InWindow(k) THEN stray ELSE stray \ {k}
    BY <1>3, ReserveCharges, ReserveTimes, ReserveMap
  <2>5. DOMAIN attempts' \subseteq Sources
    BY <2>2, <2>4 DEF Tracked, TypeOK
  <2>6. \A j \in DOMAIN attempts' : attempts'[j] \in Attempt
    BY <2>3, <2>4 DEF TypeOK
  <2> QED
    BY <2>1, <2>4, <2>5, <2>6 DEF TypeOK, Tracked
<1>4. ASSUME NEW r \in Logins, Right(r) PROVE TypeOK'
  <2>1. stage' \in [Logins -> Stages]
    BY <1>0, <1>4, BecomesFacts DEF Right
  <2> QED
    BY <1>4, <2>1 DEF Right, Without, TypeOK, Tracked
<1>5. ASSUME NEW r \in Logins, Outage(r) PROVE TypeOK'
  <2>1. stage' \in [Logins -> Stages]
    BY <1>0, <1>5, BecomesFacts DEF Outage
  <2>2. source[r] \in Sources
    BY DEF TypeOK
  <2>3. Tracked' \subseteq Sources /\ \A j \in Tracked' : attempts'[j] \in Attempt
    BY <1>5, <2>2, RefundedFacts DEF Outage, TypeOK, Tracked
  <2> QED
    BY <1>5, <2>1, <2>2, <2>3 DEF Outage, TypeOK
<1>6. CASE Tick
  BY <1>6 DEF Tick, TypeOK, history, Tracked
<1>7. CASE UNCHANGED vars
  BY <1>7 DEF vars, TypeOK, history, Tracked
<1> QED
  BY <1>1, <1>2, <1>3, <1>4, <1>5, <1>6, <1>7 DEF Next, Step

-----------------------------------------------------------------------------
(* Times: a source is stale by what the map says just when it has been     *)
(* inactive, and then its block is over.                                   *)

LEMMA StaleFacts ==
  ASSUME TypeOK, TimesInv, NEW k \in Tracked
  PROVE  /\ k \in Sources
         /\ Stale(attempts, k) <=> ~InWindow(k)
         /\ attempts[k].blocked >= now => ~Stale(attempts, k)
BY DEF TypeOK, TimesInv, Stale, InWindow, Attempt, Tracked

LEMMA TimesStep ==
  ASSUME TypeOK, TimesInv, [Next]_vars
  PROVE  TimesInv'
<1>1. ASSUME NEW r \in Logins, NEW k \in Sources, Arrive(r, k) PROVE TimesInv'
  <2>1. \A j \in DOMAIN Refreshed(k) : j \in Tracked /\ Refreshed(k)[j] = attempts[j]
    BY SweptFacts
  <2> QED
    BY <1>1, <2>1 DEF Arrive, TimesInv, Tracked
<1>2. ASSUME NEW r \in Logins, GiveUp(r) \/ ReserveRefused(r) \/ Wrong(r)
      PROVE  TimesInv'
  BY <1>2 DEF GiveUp, ReserveRefused, Wrong, TimesInv, Tracked, history
<1>3. ASSUME NEW r \in Logins, Reserve(r) PROVE TimesInv'
  <2> DEFINE k == source[r]
  <2>1. /\ k \in Sources
        /\ \A j \in Sources : j # k => lastAt'[j] = lastAt[j]
        /\ lastAt'[k] = now
        /\ DOMAIN attempts' = DOMAIN Swept(k) \cup {k}
        /\ attempts'[k] = Counted(k)
        /\ \A j \in DOMAIN Swept(k) : j \in Tracked
                                    /\ (j # k => attempts'[j] = attempts[j])
        /\ now' = now
    BY <1>3, ReserveCharges, ReserveTimes, ReserveMap
  <2>2. /\ Counted(k).last = now
        /\ Counted(k).blocked <= now + MaxDelay
    <3>1. CASE Counted(k).failures >= MaxAttempts
      <4>1. Counted(k).last = now
            /\ Counted(k).blocked = now + Backoff(Counted(k).failures)
        BY <2>1, <3>1, CountedFacts
      <4> QED
        BY <4>1, BackoffType DEF TypeOK
    <3>2. CASE ~(Counted(k).failures >= MaxAttempts)
      <4>1. /\ Counted(k).last = now
            /\ Counted(k).blocked =
                 IF k \in DOMAIN Swept(k) THEN attempts[k].blocked ELSE 0
        BY <2>1, <3>2, CountedFacts
      <4>2. k \in Tracked => /\ attempts[k].blocked <= lastAt[k] + MaxDelay
                             /\ attempts[k].blocked \in Nat
        BY DEF TimesInv, TypeOK, Attempt
      <4>3. lastAt[k] <= now /\ lastAt[k] \in Nat /\ now \in Nat
        BY <2>1 DEF TimesInv, TypeOK
      <4> QED
        BY <2>1, <4>1, <4>2, <4>3
    <3> QED
      BY <3>1, <3>2
  <2>3. \A j \in Sources : lastAt'[j] <= now'
    <3>1. now \in Nat
      BY DEF TypeOK
    <3> QED
      BY <2>1, <3>1 DEF TimesInv
  <2>4. \A j \in DOMAIN attempts' :
           /\ attempts'[j].last = lastAt'[j]
           /\ attempts'[j].blocked <= lastAt'[j] + MaxDelay
    <3>1. \A j \in DOMAIN Swept(k) : j # k => /\ attempts'[j] = attempts[j]
                                             /\ lastAt'[j] = lastAt[j]
      BY <2>1 DEF TypeOK
    <3> QED
      BY <2>1, <2>2, <3>1 DEF TimesInv
  <2> QED
    BY <2>3, <2>4 DEF TimesInv, Tracked
<1>4. ASSUME NEW r \in Logins, Right(r) PROVE TimesInv'
  BY <1>4 DEF Right, Without, TimesInv, Tracked
<1>5. ASSUME NEW r \in Logins, Outage(r) PROVE TimesInv'
  <2>1. source[r] \in Sources
    BY DEF TypeOK
  <2>2. \A j \in DOMAIN attempts' :
          /\ j \in Tracked
          /\ attempts'[j].last = attempts[j].last
          /\ attempts'[j].blocked \in {0, attempts[j].blocked}
    BY <1>5, <2>1, RefundedFacts DEF Outage
  <2>3. \A j \in Tracked : lastAt[j] \in Nat
    BY DEF TypeOK
  <2> QED
    BY <1>5, <2>2, <2>3 DEF Outage, TimesInv, Tracked
<1>6. CASE Tick
  BY <1>6 DEF Tick, TypeOK, TimesInv, history, Tracked
<1>7. CASE UNCHANGED vars
  BY <1>7 DEF vars, TimesInv, history, Tracked
<1> QED
  BY <1>1, <1>2, <1>3, <1>4, <1>5, <1>6, <1>7 DEF Next, Step

-----------------------------------------------------------------------------
(* Charges *)

LEMMA OwnersFinite ==
  ASSUME TypeOK, NEW k
  PROVE  IsFiniteSet(OwnedBy(k)) /\ Cardinality(OwnedBy(k)) \in Nat
<1>1. OwnedBy(k) \subseteq Logins
  BY DEF OwnedBy, TypeOK
<1> QED
  BY <1>1, FS_Subset, FS_CardinalityType

(* Fewer owners leave the count of owners within the charge. *)
LEMMA FewerOwners ==
  ASSUME TypeOK, OwnershipInv, NEW k \in Sources, NEW S \in SUBSET OwnedBy(k)
  PROVE  Cardinality(S) <= charged[k]
<1>1. /\ Cardinality(S) \in Nat /\ Cardinality(OwnedBy(k)) \in Nat
      /\ Cardinality(S) <= Cardinality(OwnedBy(k))
  BY OwnersFinite, FS_Subset, FS_CardinalityType
<1> QED
  BY <1>1 DEF OwnershipInv, TypeOK

LEMMA OwnershipStep ==
  ASSUME TypeOK, OwnershipInv, [Next]_vars
  PROVE  OwnershipInv'
<1>1. ASSUME NEW r \in Logins, NEW k \in Sources, Arrive(r, k)
      PROVE  OwnershipInv'
  <2>1. \A j \in Sources : OwnedBy(j)' \subseteq OwnedBy(j)
    BY <1>1 DEF Arrive, OwnedBy, TypeOK
  <2>2. \A j \in Sources : Cardinality(OwnedBy(j)') <= charged'[j]
    BY <1>1, <2>1, FewerOwners DEF Arrive
  <2>3. \A s \in Logins : stage'[s] = "queued" => s \notin owned'
    BY <1>1 DEF Arrive, Becomes, TypeOK, OwnershipInv
  <2> QED
    BY <2>2, <2>3 DEF OwnershipInv
<1>2. ASSUME NEW r \in Logins, GiveUp(r) \/ ReserveRefused(r) \/ Wrong(r)
      PROVE  OwnershipInv'
  BY <1>2 DEF GiveUp, ReserveRefused, Wrong, Becomes, TypeOK, OwnershipInv,
     OwnedBy, history
<1>3. ASSUME NEW r \in Logins, Reserve(r) PROVE OwnershipInv'
  <2> PICK k \in Sources : k = source[r]
    BY DEF TypeOK
  <2>0. stage[r] = "queued" /\ Becomes(r, "verifying")
    BY <1>3 DEF Reserve
  <2>1. /\ k \in Sources
        /\ \A j \in Sources : j # k => charged'[j] = charged[j]
        /\ InWindow(k) => charged'[k] = charged[k] + 1 /\ owned' = owned \cup {r}
        /\ ~InWindow(k) => /\ charged'[k] = 1
                           /\ owned' = (owned \ OwnedBy(k)) \cup {r}
        /\ source' = source
    <3>1. Reserve(r) /\ k = source[r]
      BY <1>3
    <3> QED
      BY <3>1, ReserveCharges
  <2>2. r \notin owned
    BY <2>0 DEF OwnershipInv
  <2>3. \A j \in Sources : j # k => OwnedBy(j)' = OwnedBy(j)
    BY <2>1 DEF OwnedBy
  <2>4. Cardinality(OwnedBy(k)') <= charged'[k]
    <3>1. CASE InWindow(k)
      <4>1. OwnedBy(k)' = OwnedBy(k) \cup {r} /\ r \notin OwnedBy(k)
        BY <2>1, <2>2, <3>1 DEF OwnedBy
      <4>2. Cardinality(OwnedBy(k) \cup {r}) = Cardinality(OwnedBy(k)) + 1
        BY <4>1, OwnersFinite, FS_AddElement
      <4>3. Cardinality(OwnedBy(k)) \in Nat /\ charged[k] \in Int
        BY <2>1, OwnersFinite DEF TypeOK
      <4> QED
        BY <2>1, <3>1, <4>1, <4>2, <4>3 DEF OwnershipInv
    <3>2. CASE ~InWindow(k)
      <4>1. OwnedBy(k)' = {r}
        BY <2>1, <3>2 DEF OwnedBy
      <4>2. Cardinality(OwnedBy(k)') = 1
        BY <4>1, FS_Singleton
      <4> QED
        BY <2>1, <3>2, <4>2
    <3> QED
      BY <3>1, <3>2
  <2>5. \A s \in Logins : stage'[s] = "queued" => s \notin owned'
    BY <2>0, <2>1 DEF Becomes, TypeOK, OwnershipInv
  <2>6. \A j \in Sources : Cardinality(OwnedBy(j)') <= charged'[j]
    <3> SUFFICES ASSUME NEW j \in Sources
                 PROVE  Cardinality(OwnedBy(j)') <= charged'[j]
      OBVIOUS
    <3>1. CASE j = k
      BY <3>1, <2>4
    <3>2. CASE j # k
      <4>1. OwnedBy(j)' = OwnedBy(j) /\ charged'[j] = charged[j]
        BY <3>2, <2>1, <2>3
      <4>2. Cardinality(OwnedBy(j)) <= charged[j]
        BY DEF OwnershipInv
      <4> QED
        BY <4>1, <4>2
    <3> QED
      BY <3>1, <3>2
  <2> QED
    BY <2>5, <2>6 DEF OwnershipInv
<1>4. ASSUME NEW r \in Logins, Right(r) PROVE OwnershipInv'
  <2> PICK k \in Sources : k = source[r]
    BY DEF TypeOK
  <2>1. k \in Sources
    BY DEF TypeOK
  <2>2. OwnedBy(k)' = {} /\ charged'[k] = 0
    BY <1>4, <2>1 DEF Right, OwnedBy, TypeOK
  <2>3. \A j \in Sources : j # k => /\ OwnedBy(j)' = OwnedBy(j)
                                   /\ charged'[j] = charged[j]
    BY <1>4 DEF Right, OwnedBy, TypeOK
  <2>4. \A s \in Logins : stage'[s] = "queued" => s \notin owned'
    BY <1>4 DEF Right, Becomes, TypeOK, OwnershipInv
  <2>5. Cardinality(OwnedBy(k)') <= charged'[k]
    BY <2>2, FS_EmptySet
  <2>6. \A j \in Sources : Cardinality(OwnedBy(j)') <= charged'[j]
    <3> SUFFICES ASSUME NEW j \in Sources
                 PROVE  Cardinality(OwnedBy(j)') <= charged'[j]
      OBVIOUS
    <3>1. CASE j = k
      BY <3>1, <2>5
    <3>2. CASE j # k
      <4>1. OwnedBy(j)' = OwnedBy(j) /\ charged'[j] = charged[j]
        BY <3>2, <2>3
      <4>2. Cardinality(OwnedBy(j)) <= charged[j]
        BY DEF OwnershipInv
      <4> QED
        BY <4>1, <4>2
    <3> QED
      BY <3>1, <3>2
  <2> QED
    BY <2>4, <2>6 DEF OwnershipInv
<1>5. ASSUME NEW r \in Logins, Outage(r) PROVE OwnershipInv'
  <2> PICK k \in Sources : k = source[r]
    BY DEF TypeOK
  <2>1. k \in Sources /\ charged[k] \in Int
    BY DEF TypeOK
  <2>2. \A j \in Sources : j # k => /\ OwnedBy(j)' = OwnedBy(j)
                                   /\ charged'[j] = charged[j]
    BY <1>5 DEF Outage, OwnedBy, TypeOK
  <2>3. Cardinality(OwnedBy(k)') <= charged'[k]
    <3>1. OwnedBy(k)' = OwnedBy(k) \ {r}
      BY <1>5 DEF Outage, OwnedBy
    <3>2. CASE r \in owned
      <4>1. charged'[k] = charged[k] - 1 /\ r \in OwnedBy(k)
        BY <1>5, <2>1, <3>2 DEF Outage, OwnedBy, TypeOK
      <4>2. Cardinality(OwnedBy(k) \ {r}) = Cardinality(OwnedBy(k)) - 1
        BY <4>1, OwnersFinite, FS_RemoveElement
      <4>3. Cardinality(OwnedBy(k)) \in Nat
        BY OwnersFinite
      <4> QED
        BY <2>1, <3>1, <4>1, <4>2, <4>3 DEF OwnershipInv
    <3>3. CASE r \notin owned
      <4>1. charged'[k] = charged[k] /\ OwnedBy(k) \ {r} \subseteq OwnedBy(k)
        BY <1>5, <2>1, <3>3 DEF Outage, TypeOK
      <4> QED
        BY <2>1, <3>1, <4>1, FewerOwners
    <3> QED
      BY <3>2, <3>3
  <2>4. \A s \in Logins : stage'[s] = "queued" => s \notin owned'
    BY <1>5 DEF Outage, Becomes, TypeOK, OwnershipInv
  <2>5. \A j \in Sources : Cardinality(OwnedBy(j)') <= charged'[j]
    <3> SUFFICES ASSUME NEW j \in Sources
                 PROVE  Cardinality(OwnedBy(j)') <= charged'[j]
      OBVIOUS
    <3>1. CASE j = k
      BY <3>1, <2>3
    <3>2. CASE j # k
      <4>1. OwnedBy(j)' = OwnedBy(j) /\ charged'[j] = charged[j]
        BY <3>2, <2>2
      <4>2. Cardinality(OwnedBy(j)) <= charged[j]
        BY DEF OwnershipInv
      <4> QED
        BY <4>1, <4>2
    <3> QED
      BY <3>1, <3>2
  <2> QED
    BY <2>4, <2>5 DEF OwnershipInv
<1>6. CASE Tick
  BY <1>6 DEF Tick, OwnershipInv, OwnedBy, history
<1>7. CASE UNCHANGED vars
  BY <1>7 DEF vars, OwnershipInv, OwnedBy, history
<1> QED
  BY <1>1, <1>2, <1>3, <1>4, <1>5, <1>6, <1>7 DEF Next, Step

(* Whether Reserve finds its source tracked. *)
LEMMA CountedFailures ==
  ASSUME TypeOK, TimesInv, NEW k \in Sources
  PROVE  /\ InWindow(k) /\ k \in Tracked
            => Counted(k).failures = attempts[k].failures + 1
         /\ ~(InWindow(k) /\ k \in Tracked) => Counted(k).failures = 1
<1>1. k \in DOMAIN Swept(k) <=> InWindow(k) /\ k \in Tracked
  <2>1. k \in DOMAIN Swept(k) => k \in Tracked /\ ~Stale(attempts, k)
    BY SweptFacts
  <2>2. k \in Tracked /\ ~Stale(attempts, k) => k \in DOMAIN Swept(k)
    BY SweptFacts
  <2>3. k \in Tracked => (Stale(attempts, k) <=> ~InWindow(k))
    BY StaleFacts
  <2> QED
    BY <2>1, <2>2, <2>3
<1>2. Counted(k).failures =
        IF k \in DOMAIN Swept(k) THEN attempts[k].failures + 1 ELSE 1
  BY CountedFacts
<1> QED
  BY <1>1, <1>2

LEMMA OverchargedStep ==
  ASSUME ThrottleInv, [Next]_vars
  PROVE  NeverOvercharged'
<1>0. TypeOK /\ TimesInv /\ OwnershipInv /\ NeverOvercharged
  BY DEF ThrottleInv
<1>1. ASSUME NEW r \in Logins, NEW k \in Sources, Arrive(r, k)
      PROVE  NeverOvercharged'
  <2>1. \A j \in DOMAIN Refreshed(k) : j \in Tracked /\ Refreshed(k)[j] = attempts[j]
    BY SweptFacts
  <2> QED
    BY <1>0, <1>1, <2>1 DEF Arrive, NeverOvercharged, Tracked
<1>2. ASSUME NEW r \in Logins, GiveUp(r) \/ ReserveRefused(r) \/ Wrong(r)
      PROVE  NeverOvercharged'
  BY <1>0, <1>2 DEF GiveUp, ReserveRefused, Wrong, NeverOvercharged, Tracked,
     history
<1>3. ASSUME NEW r \in Logins, Reserve(r) PROVE NeverOvercharged'
  <2> PICK k \in Sources : k = source[r]
    BY <1>0 DEF TypeOK
  <2>1. /\ \A j \in Sources : j # k => charged'[j] = charged[j]
        /\ InWindow(k) => charged'[k] = charged[k] + 1
        /\ ~InWindow(k) => charged'[k] = 1
        /\ DOMAIN attempts' = DOMAIN Swept(k) \cup {k}
        /\ attempts'[k] = Counted(k)
        /\ \A j \in DOMAIN Swept(k) : j \in Tracked
                                    /\ (j # k => attempts'[j] = attempts[j])
    <3>1. Reserve(r) /\ k = source[r] /\ TypeOK
      BY <1>0, <1>3
    <3> QED
      BY <3>1, ReserveCharges, ReserveMap
  <2>2. Counted(k).failures \in 1..charged'[k]
    <3>1. charged[k] \in Nat
      <4>1. /\ Cardinality(OwnedBy(k)) \in Nat /\ charged[k] \in Int
            /\ Cardinality(OwnedBy(k)) <= charged[k]
        BY <1>0, OwnersFinite DEF OwnershipInv, TypeOK
      <4> QED
        BY <4>1
    <3>2. CASE InWindow(k) /\ k \in Tracked
      <4>1. attempts[k].failures \in 1..charged[k]
        BY <1>0, <3>2 DEF NeverOvercharged
      <4> QED
        BY <1>0, <2>1, <3>1, <3>2, <4>1, CountedFailures
    <3>3. CASE ~(InWindow(k) /\ k \in Tracked)
      BY <1>0, <2>1, <3>1, <3>3, CountedFailures
    <3> QED
      BY <3>2, <3>3
  <2>3. \A j \in DOMAIN Swept(k) :
          j # k => attempts'[j].failures \in 1..charged'[j]
    BY <1>0, <2>1 DEF NeverOvercharged, TypeOK
  <2> QED
    BY <2>1, <2>2, <2>3 DEF NeverOvercharged, Tracked
<1>4. ASSUME NEW r \in Logins, Right(r) PROVE NeverOvercharged'
  <2> PICK k \in Sources : k = source[r]
    BY <1>0 DEF TypeOK
  <2>1. /\ attempts' = Without(attempts, k)
        /\ \A j \in Sources : j # k => charged'[j] = charged[j]
    BY <1>0, <1>4 DEF Right, TypeOK
  <2> QED
    BY <1>0, <2>1 DEF Without, NeverOvercharged, Tracked, TypeOK
<1>5. ASSUME NEW r \in Logins, Outage(r) PROVE NeverOvercharged'
  <2> PICK k \in Sources : k = source[r]
    BY <1>0 DEF TypeOK
  <2>1. /\ attempts' = Refunded(k)
        /\ \A j \in Sources : j # k => charged'[j] = charged[j]
        /\ charged'[k] \in {charged[k] - 1, charged[k]}
    BY <1>0, <1>5 DEF Outage, TypeOK
  <2>2. \A j \in DOMAIN attempts' :
          /\ j \in Tracked /\ j \in Sources
          /\ j # k => attempts'[j] = attempts[j]
    BY <1>0, <2>1, RefundedFacts DEF TypeOK
  <2>3. k \in DOMAIN attempts'
        => /\ attempts'[k].failures = attempts[k].failures - 1
           /\ attempts[k].failures > 1
    BY <1>0, <2>1, RefundedFacts
  <2>4. charged[k] \in Int
    BY <1>0 DEF TypeOK
  <2>5. \A j \in DOMAIN attempts' : attempts[j].failures \in 1..charged[j]
    BY <1>0, <2>2 DEF NeverOvercharged
  <2>6. \A j \in DOMAIN attempts' : attempts'[j].failures \in 1..charged'[j]
    <3> SUFFICES ASSUME NEW j \in DOMAIN attempts'
                 PROVE  attempts'[j].failures \in 1..charged'[j]
      OBVIOUS
    <3>1. CASE j = k
      BY <2>1, <2>3, <2>4, <2>5, <3>1
    <3>2. CASE j # k
      BY <2>1, <2>2, <2>5, <3>2
    <3> QED
      BY <3>1, <3>2
  <2> QED
    BY <2>6 DEF NeverOvercharged, Tracked
<1>6. CASE Tick
  BY <1>0, <1>6 DEF Tick, NeverOvercharged, history, Tracked
<1>7. CASE UNCHANGED vars
  BY <1>0, <1>7 DEF vars, NeverOvercharged, history, Tracked
<1> QED
  BY <1>1, <1>2, <1>3, <1>4, <1>5, <1>6, <1>7 DEF Next, Step

-----------------------------------------------------------------------------
(* Counts *)

LEMMA ChargesAreNatural ==
  ASSUME TypeOK, OwnershipInv, NEW k \in Sources
  PROVE  charged[k] \in Nat
<1>1. /\ Cardinality(OwnedBy(k)) \in Nat /\ charged[k] \in Int
      /\ Cardinality(OwnedBy(k)) <= charged[k]
  BY OwnersFinite DEF OwnershipInv, TypeOK
<1> QED
  BY <1>1

(* Reserve keeps what it counts equal to what is charged. *)
(* Reserve keeps what it counts equal to what is charged. *)
LEMMA CountReserve ==
  ASSUME ThrottleInv, CountInv, NEW r \in Logins, Reserve(r)
  PROVE  CountInv'
<1>0. TypeOK /\ TimesInv /\ OwnershipInv /\ NeverOvercharged
  BY DEF ThrottleInv
<1> PICK k \in Sources : k = source[r]
  BY <1>0 DEF TypeOK
<1>1. Reserve(r) /\ k = source[r] /\ TypeOK
  BY <1>0
<1>2. \A j \in Sources : j # k => /\ charged'[j] = charged[j]
                                  /\ lastAt'[j] = lastAt[j]
                                  /\ due'[j] = due[j]
  BY <1>1, ReserveCharges, ReserveTimes
<1>3. /\ InWindow(k) => charged'[k] = charged[k] + 1
      /\ ~InWindow(k) => charged'[k] = 1
      /\ charged'[k] >= MaxAttempts => due'[k] = now + Backoff(charged'[k])
      /\ stray' = IF InWindow(k) THEN stray ELSE stray \ {k}
      /\ now' = now
  BY <1>1, ReserveCharges, ReserveTimes
<1>4. /\ DOMAIN attempts' = DOMAIN Swept(k) \cup {k}
      /\ attempts'[k] = Counted(k)
  BY <1>1, ReserveMap
<1>5. \A j \in DOMAIN Swept(k) : j # k => attempts'[j] = attempts[j]
  BY <1>1, ReserveMap
<1>6. charged[k] \in Nat
  BY <1>0, ChargesAreNatural
<1>7. k \notin stray' => Counted(k).failures = charged'[k]
  <2>1. CASE InWindow(k) /\ k \in Tracked
    <3>1. attempts[k].failures \in 1..charged[k]
      BY <1>0, <2>1 DEF NeverOvercharged
    <3>2. k \notin stray => attempts[k].failures = charged[k]
      BY <1>6, <2>1, <3>1 DEF CountInv
    <3> QED
      BY <1>0, <1>3, <2>1, <3>2, CountedFailures
  <2>2. CASE InWindow(k) /\ k \notin Tracked
    <3>1. k \notin stray => charged[k] = 0
      BY <1>6, <2>2 DEF CountInv
    <3> QED
      BY <1>0, <1>3, <2>2, <3>1, CountedFailures
  <2>3. CASE ~InWindow(k)
    BY <1>0, <1>3, <2>3, CountedFailures
  <2> QED
    BY <2>1, <2>2, <2>3
<1>8. Counted(k).failures >= MaxAttempts
      => Counted(k).blocked = now + Backoff(Counted(k).failures)
  BY <1>0, CountedFacts
<1> SUFFICES ASSUME NEW j \in Sources, j \notin stray', InWindow(j)',
                    charged'[j] >= 1
             PROVE  /\ j \in Tracked'
                    /\ attempts'[j].failures = charged'[j]
                    /\ charged'[j] >= MaxAttempts
                       => attempts'[j].blocked = due'[j]
  BY DEF CountInv
<1>9. CASE j = k
  BY <1>3, <1>4, <1>7, <1>8, <1>9 DEF Tracked
<1>10. CASE j # k
  <2>1. /\ charged'[j] = charged[j] /\ lastAt'[j] = lastAt[j] /\ InWindow(j)
        /\ due'[j] = due[j] /\ j \notin stray
    BY <1>2, <1>3, <1>10 DEF InWindow
  <2>2. /\ j \in Tracked /\ attempts[j].failures = charged[j]
        /\ charged[j] >= MaxAttempts => attempts[j].blocked = due[j]
    BY <2>1 DEF CountInv
  <2>3. j \in DOMAIN Swept(k)
    BY <1>0, <2>1, <2>2, StaleFacts, SweptFacts
  <2>4. j \in DOMAIN attempts' /\ attempts'[j] = attempts[j]
    BY <1>4, <1>5, <1>10, <2>3
  <2> QED
    BY <2>1, <2>2, <2>4 DEF Tracked
<1> QED
  BY <1>9, <1>10

(* A step that leaves a source's charges alone keeps its count, if it does *)
(* not touch what the map says of it while it is not stale.                *)
LEMMA CountKept ==
  ASSUME ThrottleInv, CountInv, NEW j \in Sources, j \notin stray,
         now' \in {now, now + 1}, lastAt' = lastAt, due' = due,
         charged'[j] = charged[j], InWindow(j)', charged'[j] >= 1,
         j \in Tracked /\ ~Stale(attempts, j)
         => j \in DOMAIN attempts' /\ attempts'[j] = attempts[j]
  PROVE  /\ j \in Tracked'
         /\ attempts'[j].failures = charged'[j]
         /\ charged'[j] >= MaxAttempts => attempts'[j].blocked = due'[j]
<1>0. TypeOK /\ TimesInv
  BY DEF ThrottleInv
<1>1. InWindow(j)
  BY <1>0 DEF InWindow, TypeOK
<1>2. /\ j \in Tracked /\ attempts[j].failures = charged[j]
      /\ charged[j] >= MaxAttempts => attempts[j].blocked = due[j]
  BY <1>1 DEF CountInv
<1>3. ~Stale(attempts, j)
  BY <1>0, <1>1, <1>2, StaleFacts
<1> QED
  BY <1>2, <1>3 DEF Tracked

(* Refund gives back one charge and one failure. *)
LEMMA CountOutage ==
  ASSUME ThrottleInv, CountInv, NEW r \in Logins, Outage(r)
  PROVE  CountInv'
<1>0. TypeOK /\ TimesInv /\ OwnershipInv /\ NeverOvercharged
  BY DEF ThrottleInv
<1> PICK k \in Sources : k = source[r]
  BY <1>0 DEF TypeOK
<1>1. /\ attempts' = Refunded(k)
      /\ \A j \in Sources : j # k => charged'[j] = charged[j]
      /\ charged'[k] = IF r \in owned THEN charged[k] - 1 ELSE charged[k]
      /\ stray' = IF r \in owned \/ k \notin Tracked THEN stray
                                                     ELSE stray \cup {k}
      /\ now' = now /\ lastAt' = lastAt /\ due' = due
  BY <1>0 DEF Outage, TypeOK
<1> SUFFICES ASSUME NEW j \in Sources, j \notin stray', InWindow(j)',
                    charged'[j] >= 1
             PROVE  /\ j \in Tracked'
                    /\ attempts'[j].failures = charged'[j]
                    /\ charged'[j] >= MaxAttempts
                       => attempts'[j].blocked = due'[j]
  BY DEF CountInv
<1>2. j \notin stray /\ InWindow(j) /\ charged[j] \in Int
  BY <1>0, <1>1 DEF InWindow, TypeOK
<1>3. CASE j # k
  <2>1. j \in Tracked => j \in DOMAIN attempts' /\ attempts'[j] = attempts[j]
    BY <1>0, <1>1, <1>3, RefundedFacts
  <2> QED
    BY <1>1, <1>2, <1>3, <2>1, CountKept
<1>4. CASE j = k
  <2>1. /\ j \in Tracked /\ attempts[j].failures = charged[j]
        /\ charged[j] >= MaxAttempts => attempts[j].blocked = due[j]
    BY <1>1, <1>2, <1>4 DEF CountInv
  <2>2. r \in owned /\ charged'[j] = charged[j] - 1
    BY <1>1, <1>4, <2>1
  <2>3. attempts[j].failures > 1
    BY <1>2, <2>1, <2>2
  <2>4. attempts[j] \in Attempt
    BY <1>0, <2>1 DEF TypeOK
  <2>5. attempts' = Put(attempts, j, OneLess(attempts[j]))
    BY <1>1, <1>4, <2>1, <2>3 DEF Refunded
  <2>6. j \in DOMAIN attempts' /\ attempts'[j] = OneLess(attempts[j])
    BY <2>5 DEF Put
  <2>7. /\ attempts'[j].failures = attempts[j].failures - 1
        /\ attempts[j].failures - 1 >= MaxAttempts
           => attempts'[j].blocked = attempts[j].blocked
    BY <2>4, <2>6 DEF OneLess, Attempt
  <2> QED
    BY <1>1, <1>2, <2>1, <2>2, <2>6, <2>7 DEF Tracked
<1> QED
  BY <1>3, <1>4

LEMMA CountStep ==
  ASSUME ThrottleInv, CountInv, [Next]_vars
  PROVE  CountInv'
<1>0. TypeOK
  BY DEF ThrottleInv
(* A step that keeps the charges, but for those of a source it clears.     *)
<1>1. ASSUME now' \in {now, now + 1}, lastAt' = lastAt, due' = due,
             NEW C \in SUBSET Sources,
             stray \subseteq stray' \cup C,
             \A j \in C : charged'[j] = 0,
             \A j \in Sources \ C :
               /\ charged'[j] = charged[j]
               /\ j \in Tracked /\ ~Stale(attempts, j)
                  => j \in DOMAIN attempts' /\ attempts'[j] = attempts[j]
      PROVE  CountInv'
  <2> SUFFICES ASSUME NEW j \in Sources, j \notin stray', InWindow(j)',
                      charged'[j] >= 1
               PROVE  /\ j \in Tracked'
                      /\ attempts'[j].failures = charged'[j]
                      /\ charged'[j] >= MaxAttempts
                         => attempts'[j].blocked = due'[j]
    BY DEF CountInv
  <2>1. j \notin C /\ j \notin stray
    BY <1>1
  <2> QED
    BY <1>1, <2>1, CountKept
<1>2. ASSUME NEW r \in Logins, NEW k \in Sources, Arrive(r, k) PROVE CountInv'
  <2>1. \A j \in Tracked : ~Stale(attempts, j)
          => j \in DOMAIN attempts' /\ attempts'[j] = attempts[j]
    BY <1>2, SweptFacts DEF Arrive
  <2>2. UNCHANGED <<now, charged, lastAt, due, stray>>
    BY <1>2 DEF Arrive
  <2>3. /\ {} \in SUBSET Sources /\ stray \subseteq stray' \cup {}
        /\ \A j \in {} : charged'[j] = 0
    BY <2>2
  <2> QED
    BY <1>1, <2>1, <2>2, <2>3
<1>3. ASSUME NEW r \in Logins, GiveUp(r) \/ ReserveRefused(r) \/ Wrong(r)
      PROVE  CountInv'
  BY <1>3 DEF GiveUp, ReserveRefused, Wrong, CountInv, InWindow, Tracked,
     history
<1>4. ASSUME NEW r \in Logins, Reserve(r) PROVE CountInv'
  BY <1>4, CountReserve
<1>5. ASSUME NEW r \in Logins, Right(r) PROVE CountInv'
  <2> PICK k \in Sources : k = source[r]
    BY <1>0 DEF TypeOK
  <2>1. /\ charged'[k] = 0
        /\ \A j \in Sources : j # k => charged'[j] = charged[j]
        /\ UNCHANGED <<now, lastAt, due>>
        /\ stray' = stray \ {k}
        /\ attempts' = Without(attempts, k)
    BY <1>0, <1>5 DEF Right, TypeOK
  <2>2. \A j \in Tracked : j # k
          => j \in DOMAIN attempts' /\ attempts'[j] = attempts[j]
    BY <2>1 DEF Without, Tracked
  <2>3. /\ {k} \in SUBSET Sources /\ stray \subseteq stray' \cup {k}
        /\ \A j \in {k} : charged'[j] = 0
    BY <2>1
  <2> QED
    BY <1>1, <2>1, <2>2, <2>3
<1>6. ASSUME NEW r \in Logins, Outage(r) PROVE CountInv'
  BY <1>6, CountOutage
<1>7. CASE Tick
  <2>1. now' = now + 1 /\ UNCHANGED <<attempts, charged, lastAt, due, stray>>
    BY <1>7 DEF Tick, history
  <2>2. /\ {} \in SUBSET Sources /\ stray \subseteq stray' \cup {}
        /\ \A j \in {} : charged'[j] = 0
    BY <2>1
  <2> QED
    BY <1>1, <2>1, <2>2 DEF Tracked
<1>8. CASE UNCHANGED vars
  BY <1>8 DEF vars, CountInv, InWindow, Tracked, history
<1> QED
  BY <1>2, <1>3, <1>4, <1>5, <1>6, <1>7, <1>8 DEF Next, Step

-----------------------------------------------------------------------------
(* The theorems *)

LEMMA InitThrottle == Init => ThrottleInv /\ CountInv
<1> SUFFICES ASSUME Init PROVE ThrottleInv /\ CountInv
  OBVIOUS
<1>1. TypeOK
  BY InitTypeOK
<1>2. Tracked = {}
  BY DEF Init, Nothing, Tracked
<1>3. \A k \in Sources : OwnedBy(k) = {}
  BY DEF Init, OwnedBy
<1>4. OwnershipInv
  BY <1>3, FS_EmptySet DEF Init, OwnershipInv
<1>5. TimesInv /\ NeverOvercharged /\ CountInv
  BY <1>2 DEF Init, TimesInv, NeverOvercharged, CountInv
<1> QED
  BY <1>1, <1>4, <1>5 DEF ThrottleInv

LEMMA ThrottleStep == ThrottleInv /\ [Next]_vars => ThrottleInv'
<1> SUFFICES ASSUME ThrottleInv, [Next]_vars PROVE ThrottleInv'
  OBVIOUS
<1>1. TypeOK /\ TimesInv /\ OwnershipInv
  BY DEF ThrottleInv
<1> QED
  BY <1>1, NextTypeOK, TimesStep, OwnershipStep, OverchargedStep
  DEF ThrottleInv

(* The types, the times of a tracked source and the bookkeeping of charges *)
(* hold in every state of the limiter.                                     *)
THEOREM ThrottleInvariant == Spec => []ThrottleInv
<1>1. Init => ThrottleInv
  BY InitThrottle
<1> QED
  BY <1>1, ThrottleStep, PTL DEF Spec

(* Reserve and Refund never leave a source with more failures than it was  *)
(* charged with, for any number of concurrent logins and any limits.       *)
THEOREM SourcesAreNeverOvercharged == Spec => []NeverOvercharged
<1>1. ThrottleInv => NeverOvercharged
  BY DEF ThrottleInv
<1> QED
  BY <1>1, ThrottleInvariant, PTL

LEMMA BlockStands ==
  ASSUME ThrottleInv, [Next]_vars, NEW k \in Tracked, attempts[k].blocked > now'
  PROVE  \/ /\ k \in DOMAIN attempts'
            /\ attempts'[k].blocked >= attempts[k].blocked
         \/ \E r \in Logins : /\ source[r] = k
                              /\ stage[r] = "verifying"
                              /\ stage'[r] = "idle"
<1>0. TypeOK /\ TimesInv
  BY DEF ThrottleInv
<1>1. attempts[k].blocked \in Nat /\ now \in Nat
  BY <1>0 DEF TypeOK, Attempt
<1>2. attempts[k].blocked > now
  <2>1. now' = now \/ now' = now + 1
    BY DEF Next, Step, Arrive, GiveUp, Reserve, ReserveRefused, Wrong, Right,
       Outage, Tick, vars
  <2> QED
    BY <1>1, <2>1
<1>3. ~Stale(attempts, k)
  BY <1>0, <1>1, <1>2, StaleFacts
<1>4. ASSUME k \in DOMAIN attempts', attempts'[k] = attempts[k]
      PROVE  /\ k \in DOMAIN attempts'
             /\ attempts'[k].blocked >= attempts[k].blocked
  BY <1>1, <1>4
<1>5. k \in DOMAIN Refreshed(k) /\ Refreshed(k)[k] = attempts[k]
  BY <1>3, SweptFacts
<1>6. ASSUME NEW r \in Logins, NEW h \in Sources, Arrive(r, h)
      PROVE  k \in DOMAIN attempts' /\ attempts'[k] = attempts[k]
  BY <1>3, <1>6, SweptFacts DEF Arrive
<1>7. ASSUME NEW r \in Logins, GiveUp(r) \/ ReserveRefused(r) \/ Wrong(r)
      PROVE  k \in DOMAIN attempts' /\ attempts'[k] = attempts[k]
  BY <1>7 DEF GiveUp, ReserveRefused, Wrong, Tracked
<1>8. ASSUME NEW r \in Logins, Reserve(r)
      PROVE  k \in DOMAIN attempts' /\ attempts'[k] = attempts[k]
  <2> PICK h \in Sources : h = source[r]
    BY <1>0 DEF TypeOK
  <2>1. h # k
    BY <1>2, <1>5, <1>8 DEF Reserve, BlockedIn
  <2>2. k \in DOMAIN Swept(h)
    BY <1>3, SweptFacts
  <2>3. /\ DOMAIN attempts' = DOMAIN Swept(h) \cup {h}
        /\ \A j \in DOMAIN Swept(h) : j # h => attempts'[j] = attempts[j]
    BY <1>0, <1>8, ReserveMap
  <2> QED
    BY <2>1, <2>2, <2>3
<1>9. ASSUME NEW r \in Logins, Right(r) \/ Outage(r), source[r] # k
      PROVE  k \in DOMAIN attempts' /\ attempts'[k] = attempts[k]
  <2> PICK h \in Sources : h = source[r]
    BY <1>0 DEF TypeOK
  <2>1. attempts' = Without(attempts, h) \/ attempts' = Refunded(h)
    BY <1>9 DEF Right, Outage
  <2>2. CASE attempts' = Without(attempts, h)
    BY <1>9, <2>2 DEF Without, Tracked
  <2>3. CASE attempts' = Refunded(h)
    BY <1>0, <1>9, <2>3, RefundedFacts
  <2> QED
    BY <2>1, <2>2, <2>3
<1>10. ASSUME NEW r \in Logins, Right(r) \/ Outage(r), source[r] = k
       PROVE  stage[r] = "verifying" /\ stage'[r] = "idle"
  BY <1>0, <1>10 DEF Right, Outage, Becomes, TypeOK
<1>11. CASE Tick \/ UNCHANGED vars
  BY <1>4, <1>11 DEF Tick, vars, Tracked
<1> QED
  BY <1>4, <1>6, <1>7, <1>8, <1>9, <1>10, <1>11 DEF Next, Step

(* No eviction, no other source's login and no passage of time shortens a  *)
(* block: only a verification that ends for the blocked source does.       *)
THEOREM BlocksAlwaysStand == Spec => BlocksStand
<1>1. ThrottleInv /\ [Next]_vars
      => [ \A k \in Tracked :
             attempts[k].blocked > now'
             => \/ /\ k \in DOMAIN attempts'
                   /\ attempts'[k].blocked >= attempts[k].blocked
                \/ \E r \in Logins : /\ source[r] = k
                                     /\ stage[r] = "verifying"
                                     /\ stage'[r] = "idle" ]_vars
  BY BlockStands
<1> QED
  BY <1>1, ThrottleInvariant, PTL DEF Spec, BlocksStand

LEMMA CountInvariant == Spec => [](ThrottleInv /\ CountInv)
<1>1. ThrottleInv /\ CountInv /\ [Next]_vars => (ThrottleInv /\ CountInv)'
  BY ThrottleStep, CountStep
<1> QED
  BY <1>1, InitThrottle, PTL DEF Spec

(* The limiter's count is the number of attempts since the last success    *)
(* that were not given back, however logins, refunds and sweeps interleave *)
(* and whatever the limits; only a stray refund disturbs it.               *)
THEOREM CountStaysExact == Spec => []CountIsExact
<1>1. ThrottleInv /\ CountInv => CountIsExact
  <2> SUFFICES ASSUME ThrottleInv, CountInv, NEW k \in Sources \ stray,
                      InWindow(k)
               PROVE  Failures(k) = charged[k]
    BY DEF CountIsExact
  <2>1. charged[k] \in Nat
    BY ChargesAreNatural DEF ThrottleInv
  <2>2. CASE charged[k] >= 1
    BY <2>2 DEF CountInv, Failures
  <2>3. CASE charged[k] = 0
    <3>1. k \notin Tracked
      BY <2>3 DEF ThrottleInv, NeverOvercharged
    <3> QED
      BY <2>3, <3>1 DEF Failures
  <2> QED
    BY <2>1, <2>2, <2>3
<1> QED
  BY <1>1, CountInvariant, PTL

LEMMA BackoffStep ==
  ASSUME ThrottleInv, CountInv, [Next]_vars, NEW r \in Logins,
         stage[r] = "queued", stage'[r] = "verifying",
         NEW k, k = source[r], InWindow(k), k \notin stray,
         charged[k] >= MaxAttempts
  PROVE  now >= due[k]
<1>0. TypeOK /\ TimesInv
  BY DEF ThrottleInv
<1>1. k \in Sources
  BY <1>0 DEF TypeOK
<1>2. ASSUME NEW q \in Logins, Step(q), ~Reserve(q) PROVE FALSE
  BY <1>0, <1>2 DEF Step, Arrive, GiveUp, ReserveRefused, Wrong, Right, Outage,
     Becomes, TypeOK
<1>3. ~Tick /\ ~UNCHANGED vars
  BY DEF Tick, vars
<1>4. PICK q \in Logins : Reserve(q)
  BY <1>2, <1>3 DEF Next
<1>5. q = r
  BY <1>0, <1>4 DEF Reserve, Becomes, TypeOK
<1>6. ~BlockedIn(Refreshed(k), k)
  BY <1>4, <1>5 DEF Reserve
<1>7. /\ k \in Tracked
      /\ attempts[k].blocked = due[k]
  <2>1. charged[k] \in Int
    BY <1>0, <1>1 DEF TypeOK
  <2> QED
    BY <1>1, <2>1 DEF CountInv
<1>8. k \in DOMAIN Refreshed(k) /\ Refreshed(k)[k] = attempts[k]
  BY <1>0, <1>7, StaleFacts, SweptFacts
<1>9. attempts[k].blocked \in Nat /\ now \in Nat
  BY <1>0, <1>7 DEF TypeOK, Attempt
<1> QED
  BY <1>6, <1>7, <1>8, <1>9 DEF BlockedIn

(* However many logins of one source passed Allow together, no password is *)
(* verified before the backoff the earlier attempts call for has passed.   *)
THEOREM BackoffAlwaysHolds == Spec => BackoffHolds
<1>1. ThrottleInv /\ CountInv /\ [Next]_vars
      => [ \A r \in Logins :
             LET k == source[r] IN
             (stage[r] = "queued" /\ stage'[r] = "verifying")
             => \/ ~InWindow(k)
                \/ k \in stray
                \/ charged[k] < MaxAttempts
                \/ now >= due[k] ]_vars
  <2> SUFFICES ASSUME ThrottleInv, CountInv, [Next]_vars, NEW r \in Logins,
                      NEW k, k = source[r],
                      stage[r] = "queued", stage'[r] = "verifying",
                      InWindow(k), k \notin stray,
                      ~(charged[k] < MaxAttempts)
               PROVE  now >= due[k]
    OBVIOUS
  <2>1. charged[k] >= MaxAttempts
    BY DEF ThrottleInv, TypeOK
  <2> QED
    BY <2>1, BackoffStep
<1> QED
  BY <1>1, CountInvariant, PTL DEF Spec, BackoffHolds

(* Type correctness for any limits, widths and numbers of logins.          *)
THEOREM TypeCorrect == Spec => []TypeOK
<1>1. ThrottleInv => TypeOK
  BY DEF ThrottleInv
<1> QED
  BY <1>1, ThrottleInvariant, PTL

-----------------------------------------------------------------------------
(* The size of the map *)

LEMMA SweptIsSmaller ==
  ASSUME NEW k
  PROVE  DOMAIN Swept(k) \subseteq DOMAIN Refreshed(k) /\ DOMAIN Refreshed(k) \subseteq Tracked
BY SweptFacts

LEMMA MapStaysFinite ==
  ASSUME ThrottleInv, IsFiniteSet(Tracked), [Next]_vars
  PROVE  IsFiniteSet(Tracked')
<1>0. TypeOK
  BY DEF ThrottleInv
<1>1. ASSUME NEW k, Tracked' \subseteq Tracked \cup {k} PROVE IsFiniteSet(Tracked')
  BY <1>1, FS_Subset, FS_Singleton, FS_Union
<1>2. ASSUME NEW r \in Logins, NEW k \in Sources, Arrive(r, k) PROVE IsFiniteSet(Tracked')
  BY <1>1, <1>2, SweptIsSmaller DEF Arrive, Tracked
<1>3. ASSUME NEW r \in Logins, Reserve(r) PROVE IsFiniteSet(Tracked')
  <2> DEFINE k == source[r]
  <2>1. DOMAIN attempts' = DOMAIN Swept(k) \cup {k}
    BY <1>0, <1>3, ReserveMap
  <2>2. DOMAIN Swept(k) \subseteq Tracked
    BY SweptIsSmaller
  <2> HIDE DEF k
  <2> QED
    BY <1>1, <2>1, <2>2 DEF Tracked
<1>4. ASSUME NEW r \in Logins, Right(r) PROVE IsFiniteSet(Tracked')
  BY <1>1, <1>4 DEF Right, Without, Tracked
<1>5. ASSUME NEW r \in Logins, Outage(r) PROVE IsFiniteSet(Tracked')
  <2>1. source[r] \in Sources
    BY <1>0 DEF TypeOK
  <2> QED
    BY <1>0, <1>1, <1>5, <2>1, RefundedFacts DEF Outage, Tracked
<1>6. ASSUME UNCHANGED attempts PROVE IsFiniteSet(Tracked')
  BY <1>6 DEF Tracked
<1> QED
  BY <1>2, <1>3, <1>4, <1>5, <1>6 DEF Next, Step, GiveUp, ReserveRefused, Wrong, Tick, vars

(* A map that was not swept had room for one more source; a swept one      *)
(* holds active sources only.                                              *)
LEMMA ReservedMapIsActive ==
  ASSUME ThrottleInv, IsFiniteSet(Tracked), NEW r \in Logins, Reserve(r),
         Cardinality(DOMAIN attempts') > MaxTrackedSources
  PROVE  \A j \in DOMAIN attempts' : now - attempts'[j].last <= Window
<1>0. TypeOK
  BY DEF ThrottleInv
<1> PICK k \in Sources : k = source[r]
  BY <1>0 DEF TypeOK
<1>1. /\ DOMAIN attempts' = DOMAIN Swept(k) \cup {k}
      /\ attempts'[k] = Counted(k)
      /\ \A j \in DOMAIN Swept(k) : j \in Tracked /\ (j # k => attempts'[j] = attempts[j])
  BY <1>0, ReserveMap
<1>2. now - attempts'[k].last <= Window
  BY <1>0, <1>1, CountedFacts DEF TypeOK
<1>3. Cardinality(DOMAIN Refreshed(k)) \in Nat /\ IsFiniteSet(DOMAIN Refreshed(k))
  BY SweptIsSmaller, FS_Subset, FS_CardinalityType
<1>4. CASE Cardinality(DOMAIN Refreshed(k)) >= MaxTrackedSources
  <2>1. \A j \in DOMAIN Swept(k) : ~Stale(attempts, j)
    <3>1. \A j \in DOMAIN Swept(k) : j \in DOMAIN Refreshed(k) /\ ~Stale(Refreshed(k), j)
      BY <1>4 DEF Swept, Evict
    <3> QED
      BY <3>1, SweptFacts DEF Stale
  <2>2. \A j \in DOMAIN Swept(k) : now - attempts[j].last <= Window
    BY <1>0, <1>1, <2>1 DEF Stale, TypeOK, Attempt
  <2> QED
    BY <1>1, <1>2, <2>2
<1>5. CASE ~(Cardinality(DOMAIN Refreshed(k)) >= MaxTrackedSources)
  <2>1. DOMAIN attempts' = DOMAIN Refreshed(k) \cup {k}
    BY <1>1, <1>5 DEF Swept
  <2>2. Cardinality(DOMAIN Refreshed(k) \cup {k}) <= Cardinality(DOMAIN Refreshed(k)) + 1
    <3>1. CASE k \in DOMAIN Refreshed(k)
      <4>1. DOMAIN Refreshed(k) \cup {k} = DOMAIN Refreshed(k)
        BY <3>1
      <4> QED
        BY <1>3, <4>1
    <3>2. CASE k \notin DOMAIN Refreshed(k)
      <4>1. Cardinality(DOMAIN Refreshed(k) \cup {k}) = Cardinality(DOMAIN Refreshed(k)) + 1
        BY <1>3, <3>2, FS_AddElement
      <4> QED
        BY <1>3, <4>1
    <3> QED
      BY <3>1, <3>2
  <2>3. Cardinality(DOMAIN Refreshed(k) \cup {k}) \in Nat
    BY <1>3, FS_AddElement, FS_CardinalityType, FS_Singleton, FS_Union
  <2> QED
    BY <1>3, <1>5, <2>1, <2>2, <2>3, MaxTrackedSourcesAssumption
<1> QED
  BY <1>4, <1>5

(* The map of the login limiter grows beyond its bound only while every    *)
(* source in it is active, whatever the bound and the window (Reserve).    *)
THEOREM GrowsOnlyWithActive == Spec => GrowsOnlyWithActiveSources
<1>1. ASSUME ThrottleInv, IsFiniteSet(Tracked), [Next]_vars,
             ~(DOMAIN attempts' \subseteq Tracked), Cardinality(DOMAIN attempts') > MaxTrackedSources
      PROVE  \A k \in DOMAIN attempts' : now - attempts'[k].last <= Window
  <2>0. TypeOK
    BY <1>1 DEF ThrottleInv
  <2>1. ASSUME NEW r \in Logins, NEW k \in Sources, Arrive(r, k) PROVE FALSE
    BY <1>1, <2>1, SweptIsSmaller DEF Arrive
  <2>2. ASSUME NEW r \in Logins, Right(r) PROVE FALSE
    BY <1>1, <2>2 DEF Right, Without, Tracked
  <2>3. ASSUME NEW r \in Logins, Outage(r) PROVE FALSE
    <3>1. source[r] \in Sources
      BY <2>0 DEF TypeOK
    <3> QED
      BY <1>1, <2>0, <2>3, <3>1, RefundedFacts DEF Outage
  <2>4. ASSUME UNCHANGED attempts PROVE FALSE
    BY <1>1, <2>4 DEF Tracked
  <2>5. PICK r \in Logins : Reserve(r)
    BY <1>1, <2>1, <2>2, <2>3, <2>4 DEF Next, Step, GiveUp, ReserveRefused, Wrong, Tick, vars
  <2> QED
    BY <1>1, <2>5, ReservedMapIsActive
<1>2. ThrottleInv /\ IsFiniteSet(Tracked) /\ [Next]_vars =>
        [ (/\ ~(DOMAIN attempts' \subseteq Tracked)
           /\ Cardinality(DOMAIN attempts') > MaxTrackedSources)
          => \A k \in DOMAIN attempts' : now - attempts'[k].last <= Window ]_vars
  BY <1>1
<1>3. Spec => []IsFiniteSet(Tracked)
  <2>1. Init => IsFiniteSet(Tracked)
    <3>1. Init => Tracked = {}
      BY DEF Init, Nothing, Tracked
    <3> QED
      BY <3>1, FS_EmptySet
  <2>2. ThrottleInv /\ IsFiniteSet(Tracked) /\ [Next]_vars => IsFiniteSet(Tracked)'
    BY MapStaysFinite
  <2> QED
    BY <2>1, <2>2, ThrottleInvariant, PTL DEF Spec
<1> QED
  BY <1>2, <1>3, ThrottleInvariant, PTL DEF Spec, GrowsOnlyWithActiveSources

-----------------------------------------------------------------------------
(* The backoff doubles *)

LEMMA PowerIsPositive == ASSUME NEW n \in Nat PROVE 2^n \in Nat /\ 2^n >= 1
<1>1. IsFiniteSet(1..n) /\ Cardinality(1..n) = n
  BY FS_Interval
<1>2. IsFiniteSet(SUBSET (1..n)) /\ Cardinality(SUBSET (1..n)) = 2^n
  BY <1>1, FS_SUBSET
<1>3. 2^n \in Nat /\ 2^n # 0
  <2>1. SUBSET (1..n) # {}
    OBVIOUS
  <2> QED
    BY <1>2, <2>1, FS_CardinalityType, FS_EmptySet
<1> QED
  BY <1>3

(* A subset of 1..(m+k) is a subset of its first m numbers and one of the  *)
(* others.                                                                 *)
LEMMA PowerOfSum ==
  ASSUME NEW m \in Nat, NEW k \in Nat
  PROVE  2^(m + k) = 2^m * 2^k
<1> DEFINE A == 1..m
           B == (m + 1)..(m + k)
           C == 1..(m + k)
           f == [p \in (SUBSET A) \X (SUBSET B) |-> p[1] \cup p[2]]
<1>1. /\ IsFiniteSet(A) /\ Cardinality(A) = m
      /\ IsFiniteSet(B) /\ Cardinality(B) = k
      /\ IsFiniteSet(C) /\ Cardinality(C) = m + k
  <2>1. IsFiniteSet(A) /\ Cardinality(A) = m
    BY FS_Interval
  <2>2. IsFiniteSet(B) /\ Cardinality(B) = k
    <3>1. m + 1 \in Int /\ m + k \in Int
      OBVIOUS
    <3>2. /\ IsFiniteSet(B)
          /\ Cardinality(B) = IF m + 1 > m + k THEN 0 ELSE (m + k) - (m + 1) + 1
      BY <3>1, FS_Interval
    <3>3. CASE k = 0
      BY <3>2, <3>3
    <3>4. CASE k # 0
      <4>1. ~(m + 1 > m + k) /\ (m + k) - (m + 1) + 1 = k
        BY <3>4
      <4> QED
        BY <3>2, <4>1
    <3> QED
      BY <3>3, <3>4
  <2>3. IsFiniteSet(C) /\ Cardinality(C) = m + k
    <3>1. m + k \in Nat /\ 1 \in Int
      OBVIOUS
    <3>2. /\ IsFiniteSet(C)
          /\ Cardinality(C) = IF 1 > m + k THEN 0 ELSE (m + k) - 1 + 1
      BY <3>1, FS_Interval
    <3> QED
      BY <3>1, <3>2
  <2> QED
    BY <2>1, <2>2, <2>3
<1>2. A \cup B = C /\ A \cap B = {}
  OBVIOUS
<1> HIDE DEF A, B, C
<1>3. f \in Bijection((SUBSET A) \X (SUBSET B), SUBSET C)
  <2>1. f \in [(SUBSET A) \X (SUBSET B) -> SUBSET C]
    BY <1>2
  <2>2. ASSUME NEW p \in (SUBSET A) \X (SUBSET B)
        PROVE  p = <<f[p] \cap A, f[p] \cap B>>
    BY <1>2
  <2>3. \A p, q \in (SUBSET A) \X (SUBSET B) : f[p] = f[q] => p = q
    BY <2>2
  <2>4. ASSUME NEW c \in SUBSET C
        PROVE  \E p \in (SUBSET A) \X (SUBSET B) : f[p] = c
    <3>1. <<c \cap A, c \cap B>> \in (SUBSET A) \X (SUBSET B)
      OBVIOUS
    <3>2. f[<<c \cap A, c \cap B>>] = c
      BY <1>2, <3>1
    <3> QED
      BY <3>1, <3>2
  <2> HIDE DEF f
  <2> QED
    BY <2>1, <2>3, <2>4 DEF Bijection, Injection, Surjection, IsInjective
<1>4. ExistsBijection((SUBSET A) \X (SUBSET B), SUBSET C)
  BY <1>3 DEF ExistsBijection
<1>5. /\ IsFiniteSet(SUBSET A) /\ Cardinality(SUBSET A) = 2^m
      /\ IsFiniteSet(SUBSET B) /\ Cardinality(SUBSET B) = 2^k
      /\ Cardinality(SUBSET C) = 2^(m + k)
  BY <1>1, FS_SUBSET
<1>6. /\ IsFiniteSet((SUBSET A) \X (SUBSET B))
      /\ Cardinality((SUBSET A) \X (SUBSET B)) = 2^m * 2^k
  BY <1>5, FS_Product
<1> QED
  BY <1>4, <1>5, <1>6, FS_Bijection

LEMMA PowerOfOne == 2^1 = 2
<1>1. IsFiniteSet({1}) /\ Cardinality({1}) = 1
  BY FS_Singleton
<1>2. Cardinality(SUBSET {1}) = 2^1
  BY <1>1, FS_SUBSET
<1>3. SUBSET {1} = {{}, {1}}
  OBVIOUS
<1>4. IsFiniteSet({{}}) /\ Cardinality({{}}) = 1
  BY FS_Singleton
<1>5. {{}, {1}} = {{}} \cup {{1}}
  OBVIOUS
<1>6. Cardinality({{}} \cup {{1}}) = 2
  <2>1. {1} # {}
    OBVIOUS
  <2>2. {1} \notin {{}}
    BY <2>1
  <2>3. Cardinality({{}} \cup {{1}}) = IF {1} \in {{}} THEN Cardinality({{}}) ELSE Cardinality({{}}) + 1
    BY <1>4, FS_AddElement
  <2> QED
    BY <1>4, <2>2, <2>3
<1> QED
  BY <1>2, <1>3, <1>5, <1>6

LEMMA RemainderFacts ==
  ASSUME NEW a \in Nat, NEW w \in Nat, w >= 1
  PROVE  /\ a % w \in Nat /\ a % w < w
         /\ \E q \in Nat : a = w * q + (a % w)
<1>1. a % w \in Nat /\ a % w < w
  OBVIOUS
<1>2. a \div w \in Nat
  OBVIOUS
<1>3. a = w * (a \div w) + (a % w)
  OBVIOUS
<1> QED
  BY <1>1, <1>2, <1>3

LEMMA SmallRemainder ==
  ASSUME NEW a \in Nat, NEW w \in Nat, a < w
  PROVE  a % w = a
OBVIOUS

LEMMA ProductOrder ==
  ASSUME NEW u \in Nat, NEW c \in Nat, NEW d \in Nat
  PROVE  /\ u * c \in Nat
         /\ c <= d => u * c <= u * d
         /\ u * c < u * d => c < d
<1>1. u * c \in Nat
  OBVIOUS
<1>2. ASSUME c <= d PROVE u * c <= u * d
  <2>1. u * (d - c) >= 0 /\ u * (d - c) = u * d - u * c
    BY <1>2
  <2> QED
    BY <2>1
<1>3. ASSUME u * c < u * d PROVE c < d
  <2>1. CASE d <= c
    <3>1. u * (c - d) >= 0 /\ u * (c - d) = u * c - u * d
      BY <2>1
    <3> QED
      BY <1>3, <3>1
  <2> QED
    BY <2>1
<1> QED
  BY <1>1, <1>2, <1>3

(* A remainder of a multiple of u is a multiple of u, if w is one.         *)
LEMMA MultipleRemainder ==
  ASSUME NEW u \in Nat, u >= 1, NEW b \in Nat, NEW c \in Nat, c >= 1
  PROVE  LET v == (u * b) % (u * c) IN v = 0 \/ v >= u
<1> DEFINE v == (u * b) % (u * c)
<1>1. u * b \in Nat /\ u * c \in Nat /\ u * c >= 1
  OBVIOUS
<1>2. PICK q \in Nat : u * b = (u * c) * q + v /\ v \in Nat
  BY <1>1, RemainderFacts
<1> HIDE DEF v
<1>3. v = u * (b - c * q)
  <2>1. (u * c) * q = u * (c * q)
    OBVIOUS
  <2>2. u * (b - c * q) = u * b - u * (c * q)
    OBVIOUS
  <2> QED
    BY <1>1, <1>2, <2>1, <2>2
<1> DEFINE d == b - c * q
<1>4. d \in Int
  OBVIOUS
<1> HIDE DEF d
<1>5. v = u * d
  BY <1>3 DEF d
<1>6. ASSUME d <= 0 PROVE v = 0
  <2>1. u * d <= 0
    BY <1>4, <1>6
  <2> QED
    BY <1>2, <1>5, <2>1
<1>7. ASSUME d >= 1 PROVE v >= u
  <2>1. u * (d - 1) >= 0 /\ u * (d - 1) = u * d - u
    BY <1>4, <1>7
  <2>2. u * d \in Int
    BY <1>4
  <2> QED
    BY <1>5, <2>1, <2>2
<1>8. v = 0 \/ v >= u
  BY <1>4, <1>6, <1>7
<1> QED
  BY <1>8 DEF v

(* What the shift leaves of the full backoff: all of it, or nothing that   *)
(* is both positive and within MaxDelay.                                   *)
LEMMA ShiftFacts ==
  ASSUME NEW n \in Nat
  PROVE  LET full == BaseDelay * 2^n IN
         /\ full \in Nat /\ full >= 1
         /\ \/ Shifted(n) = full
            \/ Shifted(n) \notin 1..MaxDelay /\ full > MaxDelay
<1> DEFINE full == BaseDelay * 2^n
           half == 2^(Width - 1)
           whole == 2^Width
           v == full % whole
<1>1. PICK e \in 0..Width, b \in 1..BaseDelay : BaseDelay = b * 2^e /\ b * MaxDelay < half
  BY ShiftAssumption
<1> DEFINE u == 2^(n + e)
<1>2. u = 2^n * 2^e /\ u \in Nat /\ u >= 1
  BY PowerOfSum, PowerIsPositive
<1>3. full = u * b /\ full \in Nat /\ full >= 1
  <2>1. 2^n \in Nat /\ 2^n >= 1 /\ 2^e \in Nat
    BY PowerIsPositive
  <2>2. full = (b * 2^e) * 2^n
    BY <1>1
  <2> HIDE DEF full, u
  <2>3. full = u * b
    <3>1. ASSUME NEW x \in Nat, NEW y \in Nat, NEW z \in Nat PROVE (z * x) * y = (y * x) * z
      OBVIOUS
    <3> QED
      BY <1>2, <2>1, <2>2, <3>1
  <2>4. b >= 1 /\ b \in Nat
    OBVIOUS
  <2>5. u * (b - 1) >= 0 /\ u * (b - 1) = u * b - u
    BY <1>2, <2>4
  <2>6. u * b \in Nat
    BY <1>2, <2>4
  <2> QED
    BY <1>2, <2>3, <2>5, <2>6
<1>4. whole = 2 * half /\ half \in Nat /\ half >= 1
  <2>1. Width - 1 \in Nat /\ 1 + (Width - 1) = Width
    OBVIOUS
  <2>2. 2^(1 + (Width - 1)) = 2^1 * 2^(Width - 1)
    BY <2>1, PowerOfSum
  <2> QED
    BY <2>1, <2>2, PowerOfOne, PowerIsPositive
<1> HIDE DEF full, half, whole, v, u
<1>5. Shifted(n) = IF v >= half THEN v - whole ELSE v
  BY Zenon DEF Shifted, full, half, whole, v
<1>6. /\ v \in Nat /\ v < whole
      /\ whole \in Nat /\ whole >= 1
  <2>1. whole \in Nat /\ whole >= 1
    BY <1>4
  <2>2. full % whole \in Nat /\ full % whole < whole
    BY <1>3, <2>1, RemainderFacts
  <2> QED
    BY <2>1, <2>2 DEF v
<1>7. CASE full < half
  <2>1. v = full
    BY <1>3, <1>4, <1>7, SmallRemainder DEF v
  <2> QED
    BY <1>3, <1>4, <1>5, <1>7, <2>1 DEF full
<1>8. CASE full >= half
  <2>1. MaxDelay < u
    <3>1. b * MaxDelay < b * u
      <4>1. b * u = u * b /\ b * u \in Int /\ b * MaxDelay \in Int
        BY <1>2
      <4> QED
        BY <1>1, <1>3, <1>4, <1>8, <4>1
    <3> QED
      BY <1>2, <3>1, ProductOrder
  <2>2. full > MaxDelay
    <3>1. u * 1 <= u * b
      BY <1>2, ProductOrder
    <3> QED
      BY <1>2, <1>3, <2>1, <3>1
  <2>3. v = 0 \/ v >= u
    <3>1. CASE n + e <= Width
      <4> DEFINE c == 2^(Width - (n + e))
      <4>1. Width - (n + e) \in Nat /\ (n + e) + (Width - (n + e)) = Width
        BY <3>1
      <4>2. whole = u * c /\ c \in Nat /\ c >= 1
        BY <4>1, PowerOfSum, PowerIsPositive DEF whole, u
      <4> HIDE DEF c
      <4> QED
        BY <1>2, <1>3, <4>2, MultipleRemainder DEF v
    <3>2. CASE n + e > Width
      <4> DEFINE c == 2^((n + e) - Width)
      <4>1. (n + e) - Width \in Nat /\ Width + ((n + e) - Width) = n + e
        BY <3>2
      <4>2. u = whole * c /\ c \in Nat /\ c >= 1
        BY <4>1, PowerOfSum, PowerIsPositive DEF whole, u
      <4> HIDE DEF c
      <4>3. full = whole * (c * b) /\ c * b \in Nat /\ whole = whole * 1
        <5>1. b \in Nat /\ full = (whole * c) * b
          BY <1>3, <4>2
        <5>2. (whole * c) * b = whole * (c * b) /\ c * b \in Nat
          BY <1>4, <4>2, <5>1
        <5> QED
          BY <1>4, <5>1, <5>2
      <4>4. v = 0 \/ v >= whole
        <5>1. v = (whole * (c * b)) % (whole * 1)
          BY <4>3 DEF v
        <5>2. 1 \in Nat /\ 1 >= 1
          OBVIOUS
        <5>3. LET x == (whole * (c * b)) % (whole * 1) IN x = 0 \/ x >= whole
          BY <1>6, <4>3, <5>2, MultipleRemainder, Zenon
        <5> QED
          BY <5>1, <5>3
      <4> QED
        BY <1>6, <4>4
    <3> QED
      BY <3>1, <3>2
  <2>4. v > MaxDelay \/ v = 0
    BY <1>2, <1>6, <2>1, <2>3
  <2>5. Shifted(n) \notin 1..MaxDelay
    BY <1>4, <1>5, <1>6, <2>4
  <2> QED
    BY <2>2, <2>5 DEF full
<1> QED
  BY <1>3, <1>4, <1>7, <1>8 DEF full

LEMMA BackoffDoubles ==
  ASSUME NEW f \in Nat, f >= MaxAttempts
  PROVE  LET full == BaseDelay * 2^(f - MaxAttempts) IN
         Backoff(f) = IF full > MaxDelay THEN MaxDelay ELSE full
<1> DEFINE n == f - MaxAttempts
           full == BaseDelay * 2^n
<1>1. n \in Nat
  OBVIOUS
<1>2. /\ full \in Nat /\ full >= 1
      /\ \/ Shifted(n) = full
         \/ Shifted(n) \notin 1..MaxDelay /\ full > MaxDelay
  BY <1>1, ShiftFacts
<1>3. Backoff(f) = IF Shifted(n) \in 1..MaxDelay THEN Shifted(n) ELSE MaxDelay
  BY DEF Backoff
<1> HIDE DEF n, full
<1>4. Backoff(f) = IF full > MaxDelay THEN MaxDelay ELSE full
  BY <1>2, <1>3
<1> QED
  BY <1>4 DEF full, n

(* A source that is not reserved for keeps its failures or loses some.     *)
LEMMA OnlyReserveCounts ==
  ASSUME ThrottleInv, [Next]_vars, NEW k \in DOMAIN attempts',
         attempts'[k].failures > Failures(k)
  PROVE  \E r \in Logins : Reserve(r) /\ source[r] = k
<1>0. TypeOK
  BY DEF ThrottleInv
<1>1. ASSUME k \in Tracked, attempts'[k] = attempts[k] PROVE FALSE
  BY <1>0, <1>1 DEF Failures, TypeOK, Attempt
<1>2. ASSUME NEW r \in Logins, NEW h \in Sources, Arrive(r, h) PROVE FALSE
  BY <1>1, <1>2, SweptFacts DEF Arrive
<1>3. ASSUME NEW r \in Logins, Right(r) PROVE FALSE
  BY <1>1, <1>3 DEF Right, Without, Tracked
<1>4. ASSUME NEW r \in Logins, Outage(r) PROVE FALSE
  <2> PICK h \in Sources : h = source[r]
    BY <1>0 DEF TypeOK
  <2>1. attempts' = Refunded(h)
    BY <1>4 DEF Outage
  <2>2. k \in Tracked
    BY <1>0, <2>1, RefundedFacts
  <2>3. h = k
    BY <1>0, <1>1, <2>1, <2>2, RefundedFacts
  <2>4. attempts'[k].failures = attempts[k].failures - 1
    BY <1>0, <2>1, <2>3, RefundedFacts
  <2>5. attempts[k].failures \in Int
    BY <1>0, <2>2 DEF TypeOK, Attempt
  <2> QED
    BY <2>2, <2>4, <2>5 DEF Failures
<1>5. ASSUME UNCHANGED attempts PROVE FALSE
  BY <1>1, <1>5 DEF Tracked
<1>6. PICK r \in Logins : Reserve(r)
  BY <1>2, <1>3, <1>4, <1>5 DEF Next, Step, GiveUp, ReserveRefused, Wrong, Tick, vars
<1>7. source[r] = k
  <2> PICK h \in Sources : h = source[r]
    BY <1>0 DEF TypeOK
  <2>1. /\ DOMAIN attempts' = DOMAIN Swept(h) \cup {h}
        /\ \A j \in DOMAIN Swept(h) : j \in Tracked
                                    /\ (j # h => attempts'[j] = attempts[j])
    BY <1>0, <1>6, ReserveMap
  <2> QED
    BY <1>1, <2>1
<1> QED
  BY <1>6, <1>7

(* Every further failure of a source blocks it for twice as long as the    *)
(* one before, up to MaxDelay, for every BaseDelay, MaxDelay and width     *)
(* ShiftAssumption allows, also where the shift overflows (Reserve).       *)
THEOREM BlocksAlwaysDouble == Spec => BlocksDouble
<1>1. ASSUME ThrottleInv, [Next]_vars, NEW k \in DOMAIN attempts',
             attempts'[k].failures > Failures(k),
             attempts'[k].failures >= MaxAttempts
      PROVE  LET full == BaseDelay * 2^(attempts'[k].failures - MaxAttempts) IN
             attempts'[k].blocked = now + (IF full > MaxDelay THEN MaxDelay ELSE full)
  <2>0. TypeOK
    BY <1>1 DEF ThrottleInv
  <2>1. PICK r \in Logins : Reserve(r) /\ source[r] = k
    BY <1>1, OnlyReserveCounts
  <2>2. k \in Sources
    BY <2>0, <2>1 DEF TypeOK
  <2>3. attempts'[k] = Counted(k)
    BY <2>0, <2>1, ReserveMap
  <2> DEFINE f == attempts'[k].failures
  <2>4. f \in Nat /\ f >= MaxAttempts
    BY <1>1, <2>0, <2>2, <2>3, CountedFacts DEF Attempt
  <2>5. attempts'[k].blocked = now + Backoff(f)
    BY <1>1, <2>0, <2>2, <2>3, CountedFacts
  <2> QED
    BY <2>4, <2>5, BackoffDoubles
<1>2. ThrottleInv /\ [Next]_vars
      => [ \A k \in DOMAIN attempts' :
             LET a == attempts'[k]
                 full == BaseDelay * 2^(a.failures - MaxAttempts) IN
             (a.failures > Failures(k) /\ a.failures >= MaxAttempts)
             => a.blocked = now + (IF full > MaxDelay THEN MaxDelay ELSE full) ]_vars
  BY <1>1
<1> QED
  BY <1>2, ThrottleInvariant, PTL DEF Spec, BlocksDouble
=============================================================================
