---------------------------- MODULE LoginLimiter ----------------------------
(***************************************************************************)
(* Sign-in throttling: the limiter of auth/ratelimit.go under concurrent   *)
(* logins (api/auth_handlers.go, auth/verifier.go, auth/vyos_verifier.go). *)
(*                                                                         *)
(* A login first asks Allow, waits for one of the verification slots, then *)
(* Reserves an attempt, verifies the password outside the mutex and ends   *)
(* in a success, a failure or, where VyOS is asked and does not answer, in *)
(* a refund. Each of these takes the mutex once and is one step.           *)
(***************************************************************************)
EXTENDS Integers, FiniteSets

CONSTANTS
  Sources,             \* rate-limiting keys: client addresses
  Logins,              \* handlers that may run at once (a bound)
  Slots,               \* concurrent password verifications
  MaxAttempts,         \* attempts before the backoff starts
  BaseDelay, MaxDelay, \* the first and the longest block
  Window,              \* inactivity that resets a source
  MaxTrackedSources,   \* sources tracked before a sweep
  Width,               \* bits of a time.Duration
  Horizon              \* bound on the time that passes

ASSUME LoginsAssumption == IsFiniteSet(Logins)
ASSUME SlotsAssumption == Slots \in Nat
ASSUME DelayAssumption ==
  /\ MaxAttempts \in Nat \ {0}
  /\ BaseDelay \in Nat \ {0} /\ MaxDelay \in Nat \ {0}
  /\ Width \in Nat \ {0}
(* The longest block is short of where the shift overflows by more than the *)
(* odd part of BaseDelay. NewLoginLimiter: 1 second is 5^9 * 2^9 ns and     *)
(* 5^9 * 5 minutes is below 2^63 ns.                                        *)
ASSUME ShiftAssumption ==
  \E e \in 0..Width, b \in 1..BaseDelay :
    BaseDelay = b * 2^e /\ b * MaxDelay < 2^(Width - 1)
(* NewLoginLimiter: 5 minutes against 15. *)
ASSUME WindowAssumption == Window \in Nat /\ MaxDelay <= Window
ASSUME MaxTrackedSourcesAssumption == MaxTrackedSources \in Nat
ASSUME HorizonAssumption == Horizon \in Nat

VARIABLES
  now,       \* the clock the back end reads
  attempts,  \* LoginLimiter.attempts: a map, tracking some of the sources
  stage,     \* where each login handler is
  source,    \* the source of each login
  charged,   \* history: attempts of each source that count against it
  lastAt,    \* history: the time of its latest attempt
  owned,     \* history: logins whose attempt still counts
  due,       \* history: the end of the backoff that attempt called for
  stray      \* history: sources a refund took somebody else's attempt from

history == <<charged, lastAt, owned, due, stray>>
vars == <<now, attempts, stage, source, history>>

Attempt == [failures : Int, last : Nat, blocked : Nat]

Stages == {"idle", "queued", "verifying"}

Tracked == DOMAIN attempts

(* The state stays in its type: an overflow never ends a block in the past *)
(* of the epoch.                                                           *)
TypeOK ==
  /\ now \in Nat
  /\ Tracked \subseteq Sources
  /\ \A k \in Tracked : attempts[k] \in Attempt
  /\ stage \in [Logins -> Stages]
  /\ source \in [Logins -> Sources]
  /\ charged \in [Sources -> Int]
  /\ lastAt \in [Sources -> Nat]
  /\ owned \subseteq Logins
  /\ due \in [Sources -> Nat]
  /\ stray \subseteq Sources

Nothing == [k \in {} |-> {}]

Init ==
  /\ now = 0
  /\ attempts = Nothing
  /\ stage = [r \in Logins |-> "idle"]
  /\ \E k \in Sources : source = [r \in Logins |-> k]
  /\ charged = [k \in Sources |-> 0]
  /\ lastAt = [k \in Sources |-> 0]
  /\ owned = {}
  /\ due = [k \in Sources |-> 0]
  /\ stray = {}

-----------------------------------------------------------------------------
(* The limiter's helpers. BackoffUnguarded, EvictUnblocked, SweptNever,    *)
(* SweptForRoom, ReserveUnchecked and RefundedKeepsLast below are mistakes *)
(* one could make, for the mutants.                                        *)

(* BaseDelay << n in a signed integer of Width bits.                       *)
Shifted(n) ==
  LET v == (BaseDelay * 2^n) % 2^Width IN
  IF v >= 2^(Width - 1) THEN v - 2^Width ELSE v

BackoffUnguarded(f) ==
  LET delay == Shifted(f - MaxAttempts) IN
  IF delay > MaxDelay THEN MaxDelay ELSE delay

(* Neither longer than MaxDelay nor, after an overflow, zero or negative.  *)
Backoff(f) ==
  LET delay == Shifted(f - MaxAttempts) IN
  IF delay \in 1..MaxDelay THEN delay ELSE MaxDelay

Stale(m, k) == now - m[k].last > Window

Without(m, k) == [j \in DOMAIN m \ {k} |-> m[j]]

Put(m, k, a) == [j \in DOMAIN m \cup {k} |-> IF j = k THEN a ELSE m[j]]

(* A source that has been inactive for the window is forgotten when it     *)
(* comes back.                                                             *)
Refreshed(k) ==
  IF k \in Tracked /\ Stale(attempts, k) THEN Without(attempts, k)
                                         ELSE attempts

BlockedIn(m, k) == k \in DOMAIN m /\ m[k].blocked > now

EvictUnblocked(m) ==
  [j \in {i \in DOMAIN m : m[i].blocked > now} |-> m[j]]

(* evictExpiredLocked *)
Evict(m) == [j \in {i \in DOMAIN m : ~Stale(m, i)} |-> m[j]]

SweptNever(k) == Refreshed(k)

SweptForRoom(k) ==
  LET m == Refreshed(k) IN
  IF Cardinality(DOMAIN m) >= MaxTrackedSources
  THEN [j \in DOMAIN m \cap {k} |-> m[j]] ELSE m

(* The map before a source is added to it. *)
Swept(k) ==
  IF Cardinality(DOMAIN Refreshed(k)) >= MaxTrackedSources
  THEN Evict(Refreshed(k)) ELSE Refreshed(k)

NoAttempt == [failures |-> 0, last |-> 0, blocked |-> 0]

Counted(k) ==
  LET old == IF k \in DOMAIN Swept(k) THEN Swept(k)[k] ELSE NoAttempt
      f == old.failures + 1 IN
  [failures |-> f, last |-> now,
   blocked |-> IF f >= MaxAttempts THEN now + Backoff(f) ELSE old.blocked]

-----------------------------------------------------------------------------
(* A login *)

Becomes(r, where) == stage' = [stage EXCEPT ![r] = where]

OwnedBy(k) == {r \in owned : source[r] = k}

(* Allow lets the handler of a login from k go on. When it refuses, the    *)
(* client gets 429 and nothing changes.                                    *)
Arrive(r, k) ==
  /\ stage[r] = "idle"
  /\ ~BlockedIn(Refreshed(k), k)
  /\ attempts' = Refreshed(k)
  /\ Becomes(r, "queued")
  /\ source' = [source EXCEPT ![r] = k]
  /\ owned' = owned \ {r}
  /\ UNCHANGED <<now, charged, lastAt, due, stray>>

(* The client goes away while the handler waits for a slot. *)
GiveUp(r) ==
  /\ stage[r] = "queued"
  /\ Becomes(r, "idle")
  /\ UNCHANGED <<now, attempts, source, history>>

SlotIsFree == Cardinality({r \in Logins : stage[r] = "verifying"}) < Slots

InWindow(k) == now - lastAt[k] <= Window

(* History: the attempt counts, alone if the source has been inactive.     *)
Charge(r, k) ==
  LET c == IF InWindow(k) THEN charged[k] + 1 ELSE 1 IN
  /\ charged' = [charged EXCEPT ![k] = c]
  /\ due' = [due EXCEPT ![k] = IF c >= MaxAttempts THEN now + Backoff(c) ELSE 0]
  /\ lastAt' = [lastAt EXCEPT ![k] = now]
  /\ owned' = (IF InWindow(k) THEN owned ELSE owned \ OwnedBy(k)) \cup {r}
  /\ stray' = IF InWindow(k) THEN stray ELSE stray \ {k}

ReserveUnchecked(r) ==
  LET k == source[r] IN
  /\ stage[r] = "queued" /\ SlotIsFree
  /\ attempts' = Put(Swept(k), k, Counted(k))
  /\ Becomes(r, "verifying")
  /\ Charge(r, k)
  /\ UNCHANGED <<now, source>>

(* The handler has a slot, and Verify reserves the attempt: the block is   *)
(* looked at once more, and the attempt counted before it is verified.     *)
Reserve(r) ==
  LET k == source[r] IN
  /\ stage[r] = "queued" /\ SlotIsFree
  /\ ~BlockedIn(Refreshed(k), k)
  /\ attempts' = Put(Swept(k), k, Counted(k))
  /\ Becomes(r, "verifying")
  /\ Charge(r, k)
  /\ UNCHANGED <<now, source>>

(* A block that began while the handler waited: 401 without verifying.     *)
ReserveRefused(r) ==
  /\ stage[r] = "queued" /\ SlotIsFree
  /\ BlockedIn(Refreshed(source[r]), source[r])
  /\ Becomes(r, "idle")
  /\ UNCHANGED <<now, attempts, source, history>>

(* The password is wrong: the attempt is already counted. *)
Wrong(r) ==
  /\ stage[r] = "verifying"
  /\ Becomes(r, "idle")
  /\ UNCHANGED <<now, attempts, source, history>>

(* RecordSuccess *)
Right(r) ==
  LET k == source[r] IN
  /\ stage[r] = "verifying"
  /\ attempts' = Without(attempts, k)
  /\ Becomes(r, "idle")
  /\ charged' = [charged EXCEPT ![k] = 0]
  /\ owned' = owned \ OwnedBy(k)
  /\ stray' = stray \ {k}
  /\ UNCHANGED <<now, source, lastAt, due>>

OneLess(a) ==
  [failures |-> a.failures - 1, last |-> a.last,
   blocked |-> IF a.failures - 1 < MaxAttempts THEN 0 ELSE a.blocked]

RefundedKeepsLast(k) ==
  IF k \in Tracked /\ attempts[k].failures > 1
  THEN Put(attempts, k, OneLess(attempts[k]))
  ELSE attempts

(* Refund: a source left without a failure is no longer tracked, one below *)
(* the limit no longer blocked.                                            *)
Refunded(k) ==
  IF k \in Tracked /\ attempts[k].failures > 1
  THEN Put(attempts, k, OneLess(attempts[k]))
  ELSE Without(attempts, k)

(* VyOS does not answer, or the client goes away while it is being asked.  *)
Outage(r) ==
  LET k == source[r] IN
  /\ stage[r] = "verifying"
  /\ attempts' = Refunded(k)
  /\ Becomes(r, "idle")
  /\ charged' = [charged EXCEPT ![k] = IF r \in owned THEN @ - 1 ELSE @]
  /\ owned' = owned \ {r}
  /\ stray' = IF r \in owned \/ k \notin Tracked THEN stray ELSE stray \cup {k}
  /\ UNCHANGED <<now, source, lastAt, due>>

Tick ==
  /\ now < Horizon
  /\ now' = now + 1
  /\ UNCHANGED <<attempts, stage, source, history>>

Step(r) ==
  \/ \E k \in Sources : Arrive(r, k)
  \/ GiveUp(r)
  \/ Reserve(r) \/ ReserveRefused(r)
  \/ Wrong(r) \/ Right(r) \/ Outage(r)

Next == Tick \/ \E r \in Logins : Step(r)

Spec == Init /\ [][Next]_vars

-----------------------------------------------------------------------------
(* Properties *)

Failures(k) == IF k \in Tracked THEN attempts[k].failures ELSE 0

(* The count is the number of attempts since the last success that were    *)
(* not refunded, until the source has been inactive for the window. Only a *)
(* refund of an attempt that a success has already cleared disturbs it     *)
(* (Reserve, Refund, RecordSuccess).                                       *)
CountIsExact ==
  \A k \in Sources \ stray : InWindow(k) => Failures(k) = charged[k]

(* The same without the exception: Refund "undoes one Reserve for key".    *)
RefundUndoesOne ==
  \A k \in Sources : InWindow(k) => Failures(k) = charged[k]

(* A source is never charged for more attempts than it made and was not    *)
(* given back, however logins, refunds and sweeps interleave.              *)
NeverOvercharged ==
  \A k \in Tracked : attempts[k].failures \in 1..charged[k]

(* However many logins of a source passed Allow before the block began,    *)
(* none is verified until the backoff is over (Reserve), unless refunds    *)
(* have brought the source below MaxAttempts.                              *)
BackoffHolds ==
  [][ \A r \in Logins :
        LET k == source[r] IN
        (stage[r] = "queued" /\ stage'[r] = "verifying")
        => \/ ~InWindow(k)
           \/ k \in stray
           \/ charged[k] < MaxAttempts
           \/ now >= due[k] ]_vars

(* A block ends early only by the end of a verification for the same       *)
(* source: never by other sources' sweeps or by the inactivity window.     *)
BlocksStand ==
  [][ \A k \in Tracked :
        attempts[k].blocked > now'
        => \/ /\ k \in DOMAIN attempts'
              /\ attempts'[k].blocked >= attempts[k].blocked
           \/ \E r \in Logins : /\ source[r] = k
                                /\ stage[r] = "verifying"
                                /\ stage'[r] = "idle" ]_vars

(* Each further failure blocks for twice as long as the one before, up to  *)
(* MaxDelay, also when the shift overflows (Reserve).                      *)
BlocksDouble ==
  [][ \A k \in DOMAIN attempts' :
        LET a == attempts'[k]
            full == BaseDelay * 2^(a.failures - MaxAttempts) IN
        (a.failures > Failures(k) /\ a.failures >= MaxAttempts)
        => a.blocked = now + (IF full > MaxDelay THEN MaxDelay ELSE full) ]_vars

(* The map grows beyond its limit only while every source in it is active: *)
(* "whatever's still genuinely active" (Reserve).                          *)
GrowsOnlyWithActiveSources ==
  [][ (/\ ~(DOMAIN attempts' \subseteq Tracked)
       /\ Cardinality(DOMAIN attempts') > MaxTrackedSources)
      => \A k \in DOMAIN attempts' : now - attempts'[k].last <= Window ]_vars

(* A source is blocked only as long as the attempts charged to it call for *)
(* (Verify: an unreachable VyOS must not "burn through" its budget).       *)
BlockIsCharged ==
  \A k \in Tracked :
    attempts[k].blocked > now
    => /\ charged[k] >= MaxAttempts
       /\ attempts[k].blocked <= lastAt[k] + Backoff(charged[k])

(* The invariants the proofs use. *)

(* A tracked source's times are those of its latest attempt.               *)
TimesInv ==
  /\ \A k \in Sources : lastAt[k] <= now
  /\ \A k \in Tracked : /\ attempts[k].last = lastAt[k]
                        /\ attempts[k].blocked <= lastAt[k] + MaxDelay

(* Only a charge that is there is ever given back.                         *)
OwnershipInv ==
  /\ \A k \in Sources : Cardinality(OwnedBy(k)) <= charged[k]
  /\ \A r \in Logins : stage[r] = "queued" => r \notin owned

ThrottleInv == TypeOK /\ TimesInv /\ OwnershipInv /\ NeverOvercharged

(* What is charged is what is counted and blocked. *)
CountInv ==
  \A k \in Sources \ stray :
    InWindow(k) /\ charged[k] >= 1
    => /\ k \in Tracked
       /\ attempts[k].failures = charged[k]
       /\ charged[k] >= MaxAttempts => attempts[k].blocked = due[k]
=============================================================================
