---------------------------- MODULE ConfigTreeProofs ----------------------------
(***************************************************************************)
(* Lemmas about the operators that the pages are built from: the folds of  *)
(* the configuration and of the queue over operations, add(), set and      *)
(* delete on the tree, and the operations a form queues.                   *)
(*                                                                         *)
(* The induction theorems of the library take an operator as a parameter.  *)
(* Here a predicate is the set of the numbers, or of the subsets, that     *)
(* satisfy it, and induction follows from a minimal counterexample (WFMin).*)
(***************************************************************************)
EXTENDS Forms, FiniteSetTheorems, SequenceTheorems, TLAPS

(***************************************************************************)
(* Induction over the subsets of a finite set.                             *)
(***************************************************************************)
LEMMA SubsetInduction ==
  ASSUME NEW S, IsFiniteSet(S), NEW T,
         \A s \in SUBSET S : (\A r \in SUBSET s : r # s => r \in T) => s \in T
  PROVE  \A s \in SUBSET S : s \in T
<1> SUFFICES ASSUME NEW s0 \in SUBSET S, s0 \notin T PROVE FALSE
  OBVIOUS
<1> DEFINE bad == {s \in SUBSET S : s \notin T}
<1>1. IsWellFoundedOn(StrictSubsetOrdering(S), SUBSET S)
  <2>1. IsWellFoundedOn(StrictSubsetOrdering(S), FiniteSubsetsOf(S))
    BY FS_StrictSubsetOrderingWellFounded
  <2>2. FiniteSubsetsOf(S) = SUBSET S
    BY FS_FiniteSubsetsOfFinite
  <2> QED
    BY <2>1, <2>2
<1> HIDE DEF bad
<1>2. bad \subseteq SUBSET S /\ bad # {}
  BY DEF bad
<1>3. PICK s \in bad : \A r \in bad : ~(<<r, s>> \in StrictSubsetOrdering(S))
  BY <1>1, <1>2, WFMin
<1>4. \A r \in SUBSET s : r # s => r \in T
  BY <1>2, <1>3 DEF StrictSubsetOrdering, bad
<1> QED
  BY <1>2, <1>4 DEF bad

(* A set of numbers has a smallest one. *)
LEMMA NatIsWellOrdered ==
  ASSUME NEW T \in SUBSET Nat, T # {}
  PROVE  \E x \in T : \A y \in T : x =< y
<1>1. PICK t \in T : TRUE
  OBVIOUS
<1> DEFINE S == 0..t
           U == {s \in SUBSET S : (\E m \in Nat : s = 0..m /\ m \in T) => \E x \in T : \A y \in T : x =< y}
<1>2. ASSUME NEW s \in SUBSET S, \A r \in SUBSET s : r # s => r \in U
      PROVE  s \in U
  <2> SUFFICES ASSUME NEW m \in Nat, s = 0..m, m \in T, NEW n \in T, n < m
               PROVE  \E x \in T : \A y \in T : x =< y
    OBVIOUS
  <2>1. 0..n \in SUBSET s /\ 0..n # s
    <3>1. m \in s /\ m \notin 0..n
      OBVIOUS
    <3> QED
      BY <3>1
  <2> QED
    BY <2>1, <1>2
<1>3. IsFiniteSet(S)
  BY <1>1, FS_Interval
<1>4. \A s \in SUBSET S : s \in U
  <2> HIDE DEF U, S
  <2> QED
    BY <1>2, <1>3, SubsetInduction
<1> QED
  BY <1>1, <1>4

(* Induction up to a bound. *)
LEMMA Induction ==
  ASSUME NEW n \in Nat, NEW T, 0 \in T, \A k \in 0..(n - 1) : k \in T => k + 1 \in T
  PROVE  \A k \in 0..n : k \in T
<1> SUFFICES ASSUME NEW m \in 0..n, m \notin T PROVE FALSE
  OBVIOUS
<1> DEFINE bad == {k \in 0..n : k \notin T}
<1>1. PICK k \in bad : \A j \in bad : k =< j
  <2>1. bad \in SUBSET Nat /\ bad # {}
    OBVIOUS
  <2> HIDE DEF bad
  <2> QED
    BY <2>1, NatIsWellOrdered
<1>2. k # 0 /\ k - 1 \in 0..(n - 1) /\ k - 1 \notin bad
  BY <1>1
<1> QED
  BY <1>1, <1>2

Picks(pick, S) == \A s \in SUBSET S : s # {} => pick[s] \in s

IsFold(h, S, base, step, pick) ==
  \A s \in SUBSET S : h[s] = IF s = {} THEN base ELSE step[<<pick[s], h[s \ {pick[s]}]>>]

(***************************************************************************)
(* A fold over the subsets of a finite set exists.                         *)
(***************************************************************************)
LEMMA FoldExists ==
  ASSUME NEW S, IsFiniteSet(S), NEW V, NEW base \in V, NEW step \in [S \X V -> V],
         NEW pick, Picks(pick, S)
  PROVE  \E h \in [SUBSET S -> V] : IsFold(h, S, base, step, pick)
<1> DEFINE N == Cardinality(S)
           small(n) == {s \in SUBSET S : Cardinality(s) =< n}
           T == {n \in Nat : \E h \in [small(n) -> V] :
                   \A s \in small(n) : h[s] = IF s = {} THEN base ELSE step[<<pick[s], h[s \ {pick[s]}]>>]}
<1>1. \A s \in SUBSET S : IsFiniteSet(s) /\ Cardinality(s) \in Nat /\ Cardinality(s) =< N
  BY FS_Subset, FS_CardinalityType
<1>2. \A s \in SUBSET S : s # {} => /\ s \ {pick[s]} \in SUBSET S
                                    /\ Cardinality(s \ {pick[s]}) = Cardinality(s) - 1
  BY <1>1, FS_RemoveElement DEF Picks
<1>3. \A s \in SUBSET S : Cardinality(s) = 0 <=> s = {}
  BY <1>1, FS_EmptySet
<1>4. N \in Nat
  BY FS_CardinalityType
<1>5. 0 \in T
  <2> DEFINE h == [s \in small(0) |-> base]
  <2>1. h \in [small(0) -> V]
    OBVIOUS
  <2>2. \A s \in small(0) : s = {}
    BY <1>1, <1>3
  <2> QED
    BY <2>1, <2>2
<1>6. ASSUME NEW n \in Nat, n \in T PROVE n + 1 \in T
  <2>1. PICK h \in [small(n) -> V] :
          \A s \in small(n) : h[s] = IF s = {} THEN base ELSE step[<<pick[s], h[s \ {pick[s]}]>>]
    BY <1>6
  <2> DEFINE k == [s \in small(n + 1) |-> IF s \in small(n) THEN h[s] ELSE step[<<pick[s], h[s \ {pick[s]}]>>]]
  <2>2. \A s \in small(n + 1) : s # {} => s \ {pick[s]} \in small(n)
    BY <1>1, <1>2
  <2>3. \A s \in small(n) : s # {} => s \ {pick[s]} \in small(n)
    BY <1>1, <1>2
  <2>4. \A s \in small(n + 1) : s \notin small(n) => s # {}
    BY <1>1, <1>3
  <2>5. \A s \in small(n) : s \in small(n + 1)
    BY <1>1
  <2> HIDE DEF small
  <2>6. k \in [small(n + 1) -> V]
    <3> SUFFICES ASSUME NEW s \in small(n + 1), s \notin small(n)
                 PROVE  step[<<pick[s], h[s \ {pick[s]}]>>] \in V
      BY <2>1
    <3>1. pick[s] \in S /\ h[s \ {pick[s]}] \in V
      BY <2>1, <2>2, <2>4 DEF small
    <3> QED
      BY <3>1
  <2>8. \A s \in small(n + 1) : k[s] = IF s \in small(n) THEN h[s] ELSE step[<<pick[s], h[s \ {pick[s]}]>>]
    OBVIOUS
  <2> HIDE DEF k
  <2>7. ASSUME NEW s \in small(n + 1)
        PROVE  k[s] = IF s = {} THEN base ELSE step[<<pick[s], k[s \ {pick[s]}]>>]
    <3>1. CASE s = {}
      BY <3>1, <2>1, <2>4, <2>8
    <3>2. CASE s # {}
      <4>1. k[s \ {pick[s]}] = h[s \ {pick[s]}]
        BY <3>2, <2>2, <2>5, <2>8
      <4>2. CASE s \in small(n)
        BY <3>2, <4>1, <4>2, <2>1, <2>8
      <4>3. CASE s \notin small(n)
        BY <3>2, <4>1, <4>3, <2>8
      <4> QED
        BY <4>2, <4>3
    <3> QED
      BY <3>1, <3>2
  <2>9. \E g \in [small(n + 1) -> V] :
          \A s \in small(n + 1) : g[s] = IF s = {} THEN base ELSE step[<<pick[s], g[s \ {pick[s]}]>>]
    BY <2>6, <2>7
  <2>10. n + 1 \in Nat
    OBVIOUS
  <2> QED
    BY <2>9, <2>10, Zenon
<1>7. N \in T
  <2> HIDE DEF T, N
  <2> QED
    BY <1>4, <1>5, <1>6, Induction
<1>8. small(N) = SUBSET S
  BY <1>1
<1> QED
  BY <1>7, <1>8 DEF IsFold

(* Max is the largest number of a finite set. *)
LEMMA MaxOfFinite ==
  ASSUME NEW S, S \subseteq Nat, IsFiniteSet(S), S # {}
  PROVE  Max(S) \in S /\ \A x \in S : x =< Max(S)
<1> DEFINE U == {s \in SUBSET S : s # {} => \E x \in s : \A y \in s : x >= y}
<1>1. ASSUME NEW s \in SUBSET S, \A r \in SUBSET s : r # s => r \in U
      PROVE  s \in U
  <2> SUFFICES ASSUME NEW x \in s PROVE \E z \in s : \A y \in s : z >= y
    OBVIOUS
  <2>1. s \ {x} \in U
    BY <1>1
  <2> QED
    BY <2>1
<1>2. \A s \in SUBSET S : s \in U
  <2> HIDE DEF U
  <2> QED
    BY <1>1, SubsetInduction
<1>5. \E x \in S : \A y \in S : x >= y
  BY <1>2
<1>6. Max(S) \in S /\ \A y \in S : Max(S) >= y
  BY <1>5, Zenon DEF Max
<1> QED
  BY <1>6

IsMaxFold(h, n, base, step) ==
  \A s \in SUBSET (1..n) : h[s] = IF s = {} THEN base ELSE step[<<Max(s), h[s \ {Max(s)}]>>]

IsRun(run, n, base, step) == run[0] = base /\ \A i \in 1..n : run[i] = step[<<i, run[i - 1]>>]

HasFold(n, V, base, step) ==
  \E h \in [SUBSET (1..n) -> V], run \in [0..n -> V] :
     IsMaxFold(h, n, base, step) /\ IsRun(run, n, base, step) /\ run[n] = h[1..n]

(* The position a fold takes next is one of those that are left. *)
LEMMA MaxIn ==
  ASSUME NEW n \in Nat
  PROVE  \A s \in SUBSET (1..n) : s # {} => Max(s) \in s
<1> SUFFICES ASSUME NEW s \in SUBSET (1..n), s # {} PROVE Max(s) \in s
  OBVIOUS
<1> DEFINE S == 1..n
<1>1. IsFiniteSet(S) /\ s \in SUBSET S /\ S \subseteq Nat
  BY FS_Interval
<1> HIDE DEF S
<1>2. IsFiniteSet(s) /\ s \subseteq Nat
  BY <1>1, FS_Subset
<1> QED
  BY <1>2, MaxOfFinite

(***************************************************************************)
(* The fold over the positions of a sequence, last position first, and the *)
(* values it passes through from the front.                                *)
(***************************************************************************)
LEMMA SequenceFold ==
  ASSUME NEW n \in Nat, NEW S, S = 1..n, NEW V, NEW base \in V, NEW step \in [S \X V -> V]
  PROVE  HasFold(n, V, base, step)
<1> DEFINE pick == [s \in SUBSET S |-> Max(s)]
<1>1. IsFiniteSet(S)
  BY FS_Interval
<1>2. \A s \in SUBSET S : IsFiniteSet(s) /\ s \subseteq Nat
  <2>1. S \subseteq Nat
    OBVIOUS
  <2>2. \A s \in SUBSET S : IsFiniteSet(s)
    BY <1>1, FS_Subset
  <2> QED
    BY <2>1, <2>2
<1>3. \A s \in SUBSET S : s # {} => Max(s) \in s
  BY MaxIn
<1>4. Picks(pick, S)
  BY <1>3 DEF Picks
<1>5. \A i \in 0..n : 1..i \in SUBSET S
  OBVIOUS
<1>6. \A i \in 1..n : Max(1..i) = i /\ (1..i) \ {i} = 1..(i - 1) /\ 1..i # {} /\ i - 1 \in 0..n /\ i \in 0..n
  <2> SUFFICES ASSUME NEW i \in 1..n
               PROVE  Max(1..i) = i /\ (1..i) \ {i} = 1..(i - 1) /\ 1..i # {} /\ i - 1 \in 0..n /\ i \in 0..n
    OBVIOUS
  <2>3. (1..i) \ {i} = 1..(i - 1) /\ i \in 1..i
    OBVIOUS
  <2> DEFINE I == 1..i
  <2>1. I \subseteq Nat /\ I # {} /\ IsFiniteSet(I) /\ i \in I
    BY <1>2, <1>5
  <2> HIDE DEF I
  <2>2. Max(I) \in I /\ i =< Max(I)
    BY <2>1, MaxOfFinite
  <2> QED
    BY <2>2, <2>3 DEF I
<1>7. PICK h \in [SUBSET S -> V] : IsFold(h, S, base, step, pick)
  <2> HIDE DEF pick
  <2> QED
    BY <1>1, <1>4, FoldExists
<1>8. \A s \in SUBSET S : h[s] = IF s = {} THEN base ELSE step[<<Max(s), h[s \ {Max(s)}]>>]
  BY <1>7 DEF IsFold
<1> DEFINE run == [i \in 0..n |-> h[1..i]]
<1>9. run \in [0..n -> V]
  <2> SUFFICES ASSUME NEW i \in 0..n PROVE h[1..i] \in V
    OBVIOUS
  <2> QED
    BY <1>5, <1>7
<1>10. \A i \in 0..n : run[i] = h[1..i]
  OBVIOUS
<1> HIDE DEF run
<1>11. run[0] = base
  <2>1. 1..0 = {} /\ 0 \in 0..n
    OBVIOUS
  <2> QED
    BY <1>5, <1>8, <1>10, <2>1
<1>12. ASSUME NEW i \in 1..n PROVE run[i] = step[<<i, run[i - 1]>>]
  <2>1. h[1..i] = step[<<i, h[1..(i - 1)]>>]
    <3>1. 1..i \in SUBSET S /\ 1..i # {}
      BY <1>5, <1>6
    <3> QED
      BY <1>6, <1>8, <3>1
  <2> QED
    BY <1>6, <1>10, <2>1
<1>13. IsMaxFold(h, n, base, step) /\ IsRun(run, n, base, step)
  BY <1>8, <1>11, <1>12 DEF IsMaxFold, IsRun
<1>14. run[n] = h[S]
  BY <1>10
<1> QED
  BY <1>7, <1>9, <1>13, <1>14 DEF HasFold

(***************************************************************************)
(* Running operations: the configurations in between.                      *)
(***************************************************************************)
AfterOpsRuns(V, config, ops, lists, n) ==
  \E run \in [0..n -> V] : /\ run[0] = config
                           /\ \A i \in 1..n : run[i] = AfterOp(run[i - 1], ops[i], lists)
                           /\ AfterOps(config, ops, lists) = run[n]

LEMMA AfterOpsRun ==
  ASSUME NEW V, NEW config \in V, NEW lists, NEW ops, NEW n \in Nat, DOMAIN ops = 1..n,
         \A c \in V, i \in 1..n : AfterOp(c, ops[i], lists) \in V
  PROVE  AfterOpsRuns(V, config, ops, lists, n)
<1> DEFINE S == 1..n
           step == [iv \in S \X V |-> AfterOp(iv[2], ops[iv[1]], lists)]
           iter == CHOOSE g : g = [s \in SUBSET S |-> IF s = {} THEN config ELSE AfterOp(g[s \ {Max(s)}], ops[Max(s)], lists)]
<1>1. \A i \in S, v \in V : step[<<i, v>>] = AfterOp(v, ops[i], lists)
  OBVIOUS
<1>2. PICK h \in [SUBSET S -> V], run \in [0..n -> V] :
        IsMaxFold(h, n, config, step) /\ IsRun(run, n, config, step) /\ run[n] = h[S]
  <2>1. step \in [S \X V -> V] /\ S = 1..n
    OBVIOUS
  <2> HIDE DEF step, S
  <2> QED
    <3>1. HasFold(n, V, config, step)
      BY <2>1, SequenceFold
    <3> QED
      BY <3>1 DEF HasFold, S
<1>10. \A s \in SUBSET S : s # {} => Max(s) \in s
  BY MaxIn
<1> HIDE DEF step, S
<1>3. \A s \in SUBSET S : h[s] = IF s = {} THEN config ELSE AfterOp(h[s \ {Max(s)}], ops[Max(s)], lists)
  BY <1>1, <1>2, <1>10 DEF IsMaxFold, S
<1>4. h = [s \in SUBSET S |-> IF s = {} THEN config ELSE AfterOp(h[s \ {Max(s)}], ops[Max(s)], lists)]
  BY <1>2, <1>3
<1>5. iter = [s \in SUBSET S |-> IF s = {} THEN config ELSE AfterOp(iter[s \ {Max(s)}], ops[Max(s)], lists)]
  BY <1>4, Zenon
<1>6. AfterOps(config, ops, lists) = iter[S]
  BY Zenon DEF AfterOps, FoldLeft, MapThenFoldSet, S
<1> HIDE DEF iter
<1> DEFINE U == {s \in SUBSET S : iter[s] = h[s]}
<1>7. ASSUME NEW s \in SUBSET S, \A r \in SUBSET s : r # s => r \in U
      PROVE  s \in U
  <2>1. CASE s = {}
    BY <1>3, <1>5, <2>1
  <2>2. CASE s # {}
    <3>1. s \ {Max(s)} \in SUBSET s /\ s \ {Max(s)} # s
      BY <1>10, <2>2
    <3>2. iter[s \ {Max(s)}] = h[s \ {Max(s)}]
      BY <1>7, <3>1
    <3> QED
      BY <1>3, <1>5, <2>2, <3>2
  <2> QED
    BY <2>1, <2>2
<1>8. iter[S] = h[S]
  <2>1. IsFiniteSet(S)
    BY FS_Interval DEF S
  <2> HIDE DEF U
  <2>2. \A s \in SUBSET S : s \in U
    BY <2>1, <1>7, SubsetInduction
  <2> QED
    BY <2>2 DEF U
<1>9. \A i \in 1..n : run[i] = AfterOp(run[i - 1], ops[i], lists)
  <2> SUFFICES ASSUME NEW i \in 1..n PROVE run[i] = AfterOp(run[i - 1], ops[i], lists)
    OBVIOUS
  <2>1. i \in S /\ run[i - 1] \in V
    BY <1>2 DEF S
  <2> QED
    BY <1>1, <1>2, <2>1 DEF IsRun
<1> QED
  BY <1>2, <1>6, <1>8, <1>9 DEF IsRun, AfterOpsRuns

AddAllRuns(V, queue, ops, n) ==
  \E run \in [0..n -> V] : /\ run[0] = queue
                           /\ \A i \in 1..n : run[i] = Add(run[i - 1], ops[i])
                           /\ AddAll(queue, ops) = run[n]

(* The same of a queue to which operations are added. *)
LEMMA AddAllRun ==
  ASSUME NEW V, NEW queue \in V, NEW ops, NEW n \in Nat, DOMAIN ops = 1..n,
         \A q \in V, i \in 1..n : Add(q, ops[i]) \in V
  PROVE  AddAllRuns(V, queue, ops, n)
<1> DEFINE S == 1..n
           step == [iv \in S \X V |-> Add(iv[2], ops[iv[1]])]
           iter == CHOOSE g : g = [s \in SUBSET S |-> IF s = {} THEN queue ELSE Add(g[s \ {Max(s)}], ops[Max(s)])]
<1>1. \A i \in S, v \in V : step[<<i, v>>] = Add(v, ops[i])
  OBVIOUS
<1>2. PICK h \in [SUBSET S -> V], run \in [0..n -> V] :
        IsMaxFold(h, n, queue, step) /\ IsRun(run, n, queue, step) /\ run[n] = h[S]
  <2>1. step \in [S \X V -> V] /\ S = 1..n
    OBVIOUS
  <2> HIDE DEF step, S
  <2> QED
    <3>1. HasFold(n, V, queue, step)
      BY <2>1, SequenceFold
    <3> QED
      BY <3>1 DEF HasFold, S
<1>10. \A s \in SUBSET S : s # {} => Max(s) \in s
  BY MaxIn
<1> HIDE DEF step, S
<1>3. \A s \in SUBSET S : h[s] = IF s = {} THEN queue ELSE Add(h[s \ {Max(s)}], ops[Max(s)])
  BY <1>1, <1>2, <1>10 DEF IsMaxFold, S
<1>4. h = [s \in SUBSET S |-> IF s = {} THEN queue ELSE Add(h[s \ {Max(s)}], ops[Max(s)])]
  BY <1>2, <1>3
<1>5. iter = [s \in SUBSET S |-> IF s = {} THEN queue ELSE Add(iter[s \ {Max(s)}], ops[Max(s)])]
  BY <1>4, Zenon
<1>6. AddAll(queue, ops) = iter[S]
  BY Zenon DEF AddAll, FoldLeft, MapThenFoldSet, S
<1> HIDE DEF iter
<1> DEFINE U == {s \in SUBSET S : iter[s] = h[s]}
<1>7. ASSUME NEW s \in SUBSET S, \A r \in SUBSET s : r # s => r \in U
      PROVE  s \in U
  <2>1. CASE s = {}
    BY <1>3, <1>5, <2>1
  <2>2. CASE s # {}
    <3>1. s \ {Max(s)} \in SUBSET s /\ s \ {Max(s)} # s
      BY <1>10, <2>2
    <3>2. iter[s \ {Max(s)}] = h[s \ {Max(s)}]
      BY <1>7, <3>1
    <3> QED
      BY <1>3, <1>5, <2>2, <3>2
  <2> QED
    BY <2>1, <2>2
<1>8. iter[S] = h[S]
  <2>1. IsFiniteSet(S)
    BY FS_Interval DEF S
  <2> HIDE DEF U
  <2>2. \A s \in SUBSET S : s \in U
    BY <2>1, <1>7, SubsetInduction
  <2> QED
    BY <2>2 DEF U
<1>9. \A i \in 1..n : run[i] = Add(run[i - 1], ops[i])
  <2> SUFFICES ASSUME NEW i \in 1..n PROVE run[i] = Add(run[i - 1], ops[i])
    OBVIOUS
  <2>1. i \in S /\ run[i - 1] \in V
    BY <1>2 DEF S
  <2> QED
    BY <1>1, <1>2, <2>1 DEF IsRun
<1> QED
  BY <1>2, <1>6, <1>8, <1>9 DEF IsRun, AddAllRuns

OnlySet(sets, op) == IF op.op = "set" THEN Append(sets, op) ELSE sets

OnlySetsRuns(V, ops, n) ==
  \E run \in [0..n -> V] : /\ run[0] = <<>>
                           /\ \A i \in 1..n : run[i] = OnlySet(run[i - 1], ops[i])
                           /\ OnlySets(ops) = run[n]

(* The same of the sets among the operations. *)
LEMMA OnlySetsRun ==
  ASSUME NEW V, <<>> \in V, NEW ops, NEW n \in Nat, DOMAIN ops = 1..n,
         \A q \in V, i \in 1..n : OnlySet(q, ops[i]) \in V
  PROVE  OnlySetsRuns(V, ops, n)
<1> DEFINE S == 1..n
           step == [iv \in S \X V |-> OnlySet(iv[2], ops[iv[1]])]
           iter == CHOOSE g : g = [s \in SUBSET S |-> IF s = {} THEN <<>> ELSE OnlySet(g[s \ {Max(s)}], ops[Max(s)])]
<1>1. \A i \in S, v \in V : step[<<i, v>>] = OnlySet(v, ops[i])
  OBVIOUS
<1>2. PICK h \in [SUBSET S -> V], run \in [0..n -> V] :
        IsMaxFold(h, n, <<>>, step) /\ IsRun(run, n, <<>>, step) /\ run[n] = h[S]
  <2>1. step \in [S \X V -> V] /\ S = 1..n
    OBVIOUS
  <2> HIDE DEF step, S
  <2> QED
    <3>1. HasFold(n, V, <<>>, step)
      BY <2>1, SequenceFold
    <3> QED
      BY <3>1 DEF HasFold, S
<1>10. \A s \in SUBSET S : s # {} => Max(s) \in s
  BY MaxIn
<1> HIDE DEF step, S
<1>3. \A s \in SUBSET S : h[s] = IF s = {} THEN <<>> ELSE OnlySet(h[s \ {Max(s)}], ops[Max(s)])
  BY <1>1, <1>2, <1>10 DEF IsMaxFold, S
<1>4. h = [s \in SUBSET S |-> IF s = {} THEN <<>> ELSE OnlySet(h[s \ {Max(s)}], ops[Max(s)])]
  BY <1>2, <1>3
<1>5. iter = [s \in SUBSET S |-> IF s = {} THEN <<>> ELSE OnlySet(iter[s \ {Max(s)}], ops[Max(s)])]
  BY <1>4, Zenon
<1>6. OnlySets(ops) = iter[S]
  BY Zenon DEF OnlySets, OnlySet, FoldLeft, MapThenFoldSet, S
<1> HIDE DEF iter
<1> DEFINE U == {s \in SUBSET S : iter[s] = h[s]}
<1>7. ASSUME NEW s \in SUBSET S, \A r \in SUBSET s : r # s => r \in U
      PROVE  s \in U
  <2>1. CASE s = {}
    BY <1>3, <1>5, <2>1
  <2>2. CASE s # {}
    <3>1. s \ {Max(s)} \in SUBSET s /\ s \ {Max(s)} # s
      BY <1>10, <2>2
    <3>2. iter[s \ {Max(s)}] = h[s \ {Max(s)}]
      BY <1>7, <3>1
    <3> QED
      BY <1>3, <1>5, <2>2, <3>2
  <2> QED
    BY <2>1, <2>2
<1>8. iter[S] = h[S]
  <2>1. IsFiniteSet(S)
    BY FS_Interval DEF S
  <2> HIDE DEF U
  <2>2. \A s \in SUBSET S : s \in U
    BY <2>1, <1>7, SubsetInduction
  <2> QED
    BY <2>2 DEF U
<1>9. \A i \in 1..n : run[i] = OnlySet(run[i - 1], ops[i])
  <2> SUFFICES ASSUME NEW i \in 1..n PROVE run[i] = OnlySet(run[i - 1], ops[i])
    OBVIOUS
  <2>1. i \in S /\ run[i - 1] \in V
    BY <1>2 DEF S
  <2> QED
    BY <1>1, <1>2, <2>1 DEF IsRun
<1> QED
  BY <1>2, <1>6, <1>8, <1>9 DEF IsRun, OnlySetsRuns

(* A fold that appends sets stays in what is closed under that. *)
LEMMA SetOpsIn ==
  ASSUME NEW path, NEW S, IsFiniteSet(S), NEW V, <<>> \in V,
         \A ops \in V, x \in S : Append(ops, SetOp(path, x)) \in V
  PROVE  SetOps(path, S) \in V
<1> DEFINE step == [xv \in S \X V |-> Append(xv[2], SetOp(path, xv[1]))]
           pick == [s \in SUBSET S |-> CHOOSE x \in s : TRUE]
           iter == CHOOSE g : g = [s \in SUBSET S |-> IF s = {} THEN <<>> ELSE Append(g[s \ {CHOOSE x \in s : TRUE}], SetOp(path, (CHOOSE x \in s : TRUE)))]
<1>1. Picks(pick, S) /\ \A s \in SUBSET S : pick[s] = CHOOSE x \in s : TRUE
  BY DEF Picks
<1>2. step \in [S \X V -> V]
  OBVIOUS
<1>3. \A x \in S, ops \in V : step[<<x, ops>>] = Append(ops, SetOp(path, x))
  OBVIOUS
<1> HIDE DEF step, pick
<1>4. PICK h \in [SUBSET S -> V] : IsFold(h, S, <<>>, step, pick)
  BY <1>1, <1>2, FoldExists
<1>5. \A s \in SUBSET S : s # {} => (CHOOSE x \in s : TRUE) \in s
  BY <1>1 DEF Picks
<1>6. \A s \in SUBSET S : h[s] = IF s = {} THEN <<>> ELSE Append(h[s \ {CHOOSE x \in s : TRUE}], SetOp(path, (CHOOSE x \in s : TRUE)))
  BY <1>1, <1>3, <1>4, <1>5 DEF IsFold
<1>7. h = [s \in SUBSET S |-> IF s = {} THEN <<>> ELSE Append(h[s \ {CHOOSE x \in s : TRUE}], SetOp(path, (CHOOSE x \in s : TRUE)))]
  BY <1>4, <1>6
<1>8. iter = [s \in SUBSET S |-> IF s = {} THEN <<>> ELSE Append(iter[s \ {CHOOSE x \in s : TRUE}], SetOp(path, (CHOOSE x \in s : TRUE)))]
  BY <1>7, Zenon
<1>9. SetOps(path, S) = iter[S]
  BY Zenon DEF SetOps, FoldSet, MapThenFoldSet
<1> HIDE DEF iter
<1> DEFINE U == {s \in SUBSET S : iter[s] \in V}
<1>10. ASSUME NEW s \in SUBSET S, \A r \in SUBSET s : r # s => r \in U
       PROVE  s \in U
  <2>1. CASE s = {}
    BY <1>8, <2>1
  <2>2. CASE s # {}
    <3> DEFINE x == CHOOSE x \in s : TRUE
    <3>1. x \in s
      BY <1>5, <2>2
    <3> HIDE DEF x
    <3>2. s \ {x} \in SUBSET s /\ s \ {x} # s
      BY <3>1
    <3>3. iter[s \ {x}] \in V
      BY <1>10, <3>2
    <3>4. iter[s] = Append(iter[s \ {x}], SetOp(path, x))
      BY <1>8, <2>2 DEF x
    <3> QED
      BY <3>1, <3>3, <3>4
  <2> QED
    BY <2>1, <2>2
<1>11. \A s \in SUBSET S : s \in U
  <2> HIDE DEF U
  <2> QED
    BY <1>10, SubsetInduction
<1> QED
  BY <1>9, <1>11

(* The same of deletes. *)
LEMMA DeleteOpsIn ==
  ASSUME NEW path, NEW S, IsFiniteSet(S), NEW V, <<>> \in V,
         \A ops \in V, x \in S : Append(ops, DeleteOp(path, x)) \in V
  PROVE  DeleteOps(path, S) \in V
<1> DEFINE step == [xv \in S \X V |-> Append(xv[2], DeleteOp(path, xv[1]))]
           pick == [s \in SUBSET S |-> CHOOSE x \in s : TRUE]
           iter == CHOOSE g : g = [s \in SUBSET S |-> IF s = {} THEN <<>> ELSE Append(g[s \ {CHOOSE x \in s : TRUE}], DeleteOp(path, (CHOOSE x \in s : TRUE)))]
<1>1. Picks(pick, S) /\ \A s \in SUBSET S : pick[s] = CHOOSE x \in s : TRUE
  BY DEF Picks
<1>2. step \in [S \X V -> V]
  OBVIOUS
<1>3. \A x \in S, ops \in V : step[<<x, ops>>] = Append(ops, DeleteOp(path, x))
  OBVIOUS
<1> HIDE DEF step, pick
<1>4. PICK h \in [SUBSET S -> V] : IsFold(h, S, <<>>, step, pick)
  BY <1>1, <1>2, FoldExists
<1>5. \A s \in SUBSET S : s # {} => (CHOOSE x \in s : TRUE) \in s
  BY <1>1 DEF Picks
<1>6. \A s \in SUBSET S : h[s] = IF s = {} THEN <<>> ELSE Append(h[s \ {CHOOSE x \in s : TRUE}], DeleteOp(path, (CHOOSE x \in s : TRUE)))
  BY <1>1, <1>3, <1>4, <1>5 DEF IsFold
<1>7. h = [s \in SUBSET S |-> IF s = {} THEN <<>> ELSE Append(h[s \ {CHOOSE x \in s : TRUE}], DeleteOp(path, (CHOOSE x \in s : TRUE)))]
  BY <1>4, <1>6
<1>8. iter = [s \in SUBSET S |-> IF s = {} THEN <<>> ELSE Append(iter[s \ {CHOOSE x \in s : TRUE}], DeleteOp(path, (CHOOSE x \in s : TRUE)))]
  BY <1>7, Zenon
<1>9. DeleteOps(path, S) = iter[S]
  BY Zenon DEF DeleteOps, FoldSet, MapThenFoldSet
<1> HIDE DEF iter
<1> DEFINE U == {s \in SUBSET S : iter[s] \in V}
<1>10. ASSUME NEW s \in SUBSET S, \A r \in SUBSET s : r # s => r \in U
       PROVE  s \in U
  <2>1. CASE s = {}
    BY <1>8, <2>1
  <2>2. CASE s # {}
    <3> DEFINE x == CHOOSE x \in s : TRUE
    <3>1. x \in s
      BY <1>5, <2>2
    <3> HIDE DEF x
    <3>2. s \ {x} \in SUBSET s /\ s \ {x} # s
      BY <3>1
    <3>3. iter[s \ {x}] \in V
      BY <1>10, <3>2
    <3>4. iter[s] = Append(iter[s \ {x}], DeleteOp(path, x))
      BY <1>8, <2>2 DEF x
    <3> QED
      BY <3>1, <3>3, <3>4
  <2> QED
    BY <2>1, <2>2
<1>11. \A s \in SUBSET S : s \in U
  <2> HIDE DEF U
  <2> QED
    BY <1>10, SubsetInduction
<1> QED
  BY <1>9, <1>11

Changed(p, before, values) == {f \in DOMAIN p.form : before[f] # values[f]}

FieldOps(p, f, before, values) == FieldToOps(p.form[f], p.at \o p.form[f].path, before[f], values[f])

(* The same of the operations for the changed fields. *)
LEMMA ChangesToOpsIn ==
  ASSUME NEW p, NEW before, NEW values, NEW S, S = Changed(p, before, values), IsFiniteSet(S), NEW V, <<>> \in V,
         \A ops \in V, x \in S : ops \o FieldOps(p, x, before, values) \in V
  PROVE  ChangesToOps(p, before, values) \in V
<1> DEFINE step == [xv \in S \X V |-> xv[2] \o FieldOps(p, xv[1], before, values)]
           pick == [s \in SUBSET S |-> CHOOSE x \in s : TRUE]
           iter == CHOOSE g : g = [s \in SUBSET S |-> IF s = {} THEN <<>> ELSE g[s \ {CHOOSE x \in s : TRUE}] \o FieldOps(p, (CHOOSE x \in s : TRUE), before, values)]
<1>1. Picks(pick, S) /\ \A s \in SUBSET S : pick[s] = CHOOSE x \in s : TRUE
  BY DEF Picks
<1>2. step \in [S \X V -> V]
  OBVIOUS
<1>3. \A x \in S, ops \in V : step[<<x, ops>>] = ops \o FieldOps(p, x, before, values)
  OBVIOUS
<1> HIDE DEF step, pick
<1>4. PICK h \in [SUBSET S -> V] : IsFold(h, S, <<>>, step, pick)
  BY <1>1, <1>2, FoldExists
<1>5. \A s \in SUBSET S : s # {} => (CHOOSE x \in s : TRUE) \in s
  BY <1>1 DEF Picks
<1>6. \A s \in SUBSET S : h[s] = IF s = {} THEN <<>> ELSE h[s \ {CHOOSE x \in s : TRUE}] \o FieldOps(p, (CHOOSE x \in s : TRUE), before, values)
  BY <1>1, <1>3, <1>4, <1>5 DEF IsFold
<1>7. h = [s \in SUBSET S |-> IF s = {} THEN <<>> ELSE h[s \ {CHOOSE x \in s : TRUE}] \o FieldOps(p, (CHOOSE x \in s : TRUE), before, values)]
  BY <1>4, <1>6
<1>8. iter = [s \in SUBSET S |-> IF s = {} THEN <<>> ELSE iter[s \ {CHOOSE x \in s : TRUE}] \o FieldOps(p, (CHOOSE x \in s : TRUE), before, values)]
  BY <1>7, Zenon
<1>9. ChangesToOps(p, before, values) = iter[S]
  BY Zenon DEF ChangesToOps, FieldOps, Changed, FoldSet, MapThenFoldSet
<1> HIDE DEF iter
<1> DEFINE U == {s \in SUBSET S : iter[s] \in V}
<1>10. ASSUME NEW s \in SUBSET S, \A r \in SUBSET s : r # s => r \in U
       PROVE  s \in U
  <2>1. CASE s = {}
    BY <1>8, <2>1
  <2>2. CASE s # {}
    <3> DEFINE x == CHOOSE x \in s : TRUE
    <3>1. x \in s
      BY <1>5, <2>2
    <3> HIDE DEF x
    <3>2. s \ {x} \in SUBSET s /\ s \ {x} # s
      BY <3>1
    <3>3. iter[s \ {x}] \in V
      BY <1>10, <3>2
    <3>4. iter[s] = iter[s \ {x}] \o FieldOps(p, x, before, values)
      BY <1>8, <2>2 DEF x
    <3>5. iter[s \ {x}] \o FieldOps(p, x, before, values) \in V
      BY <3>1, <3>3
    <3> QED
      BY <3>4, <3>5
  <2> QED
    BY <2>1, <2>2
<1>11. \A s \in SUBSET S : s \in U
  <2> HIDE DEF U
  <2> QED
    BY <1>10, SubsetInduction
<1> QED
  BY <1>9, <1>11

-----------------------------------------------------------------------------
Nodes(vals) == [path : Path, val : vals]
OpsAt(paths, vals) == [op : {"set", "delete"}, path : paths, val : vals]
Configs(vals) == {c \in SUBSET Nodes(vals) : IsFiniteSet(c)}

(* All but the last element. *)
LEMMA FrontIs ==
  ASSUME NEW S, NEW s \in Seq(S), s # <<>>
  PROVE  /\ Front(s) \in Seq(S) /\ Len(Front(s)) = Len(s) - 1 /\ Len(s) >= 1
         /\ \A i \in 1..(Len(s) - 1) : Front(s)[i] = s[i]
<1>1. Len(s) \in Nat /\ Len(s) # 0 /\ \A i \in 1..(Len(s) - 1) : s[i] \in S
  OBVIOUS
<1> DEFINE n == Len(s) - 1
<1>2. n \in Nat /\ \A i \in 1..n : s[i] \in S
  BY <1>1
<1> HIDE DEF n
<1>3. /\ SubSeq(s, 1, n) \in Seq(S) /\ Len(SubSeq(s, 1, n)) = IF 1 =< n THEN n - 1 + 1 ELSE 0
      /\ \A i \in 1..(n - 1 + 1) : SubSeq(s, 1, n)[i] = s[1 + i - 1]
  BY <1>2, SubSeqProperties
<1>4. Len(SubSeq(s, 1, n)) = n /\ \A i \in 1..n : SubSeq(s, 1, n)[i] = s[i]
  BY <1>2, <1>3
<1> QED
  BY <1>1, <1>3, <1>4 DEF Front, n

(* The node above. *)
LEMMA FrontOfPath ==
  ASSUME NEW path \in Path, path # <<>>
  PROVE  Front(path) \in Path /\ Len(Front(path)) = Len(path) - 1
BY FrontIs DEF Path

(* One operation leaves a configuration. *)
LEMMA AfterOpType ==
  ASSUME NEW vals, NoValue \in vals, NEW c \in Configs(vals), NEW op \in OpsAt(Place, vals), NEW lists
  PROVE  AfterOp(c, op, lists) \in Configs(vals)
<1>1. CASE op.op = "set"
  <2>1. AfterOp(c, op, lists) \in SUBSET (c \cup {Node(op.path, op.val)})
    BY <1>1 DEF AfterOp, AfterSet
  <2>2. Node(op.path, op.val) \in Nodes(vals)
    BY DEF Node, Nodes, OpsAt, Place
  <2>3. IsFiniteSet(c \cup {Node(op.path, op.val)})
    BY FS_AddElement DEF Configs
  <2>4. IsFiniteSet(AfterOp(c, op, lists))
    BY <2>1, <2>3, FS_Subset
  <2> QED
    BY <2>1, <2>2, <2>4 DEF Configs
<1>2. CASE op.op # "set"
  <2>1. AfterOp(c, op, lists) \in SUBSET (c \cup {Node(Front(op.path), NoValue)})
    BY <1>2, Zenon DEF AfterOp, AfterDelete
  <2>2. Node(Front(op.path), NoValue) \in Nodes(vals)
    <3>1. Front(op.path) \in Path
      BY FrontOfPath DEF OpsAt, Place
    <3> QED
      BY <3>1 DEF Node, Nodes
  <2>3. IsFiniteSet(c \cup {Node(Front(op.path), NoValue)})
    BY FS_AddElement DEF Configs
  <2>4. IsFiniteSet(AfterOp(c, op, lists))
    BY <2>1, <2>3, FS_Subset
  <2> QED
    BY <2>1, <2>2, <2>4 DEF Configs
<1> QED
  BY <1>1, <1>2

(* So do all of a queue. *)
LEMMA AfterOpsType ==
  ASSUME NEW vals, NoValue \in vals, NEW c \in Configs(vals), NEW ops \in Seq(OpsAt(Place, vals)), NEW lists
  PROVE  AfterOps(c, ops, lists) \in Configs(vals)
<1> DEFINE n == Len(ops)
<1>1. n \in Nat /\ DOMAIN ops = 1..n /\ \A i \in 1..n : ops[i] \in OpsAt(Place, vals)
  OBVIOUS
<1>2. \A d \in Configs(vals), i \in 1..n : AfterOp(d, ops[i], lists) \in Configs(vals)
  BY <1>1, AfterOpType
<1> HIDE DEF n
<1>3. PICK run \in [0..n -> Configs(vals)] : AfterOps(c, ops, lists) = run[n]
  <2> DEFINE V == Configs(vals)
  <2>1. c \in V /\ \A d \in V, i \in 1..n : AfterOp(d, ops[i], lists) \in V
    BY <1>2
  <2> HIDE DEF V
  <2>2. AfterOpsRuns(V, c, ops, lists, n)
    BY <1>1, <2>1, AfterOpsRun
  <2> QED
    BY <2>2 DEF V, AfterOpsRuns
<1> QED
  BY <1>1, <1>3

(* The latest operation for a path. *)
LEMMA LatestOnIs ==
  ASSUME NEW vals, NEW paths, NEW q \in Seq(OpsAt(paths, vals)), NEW path
  PROVE  /\ LatestOn(q, path) \in 0..Len(q)
         /\ LatestOn(q, path) # 0 =>
              /\ q[LatestOn(q, path)].path = path
              /\ \A i \in 1..Len(q) : q[i].path = path => i =< LatestOn(q, path)
         /\ LatestOn(q, path) = 0 => \A i \in 1..Len(q) : q[i].path # path
<1> DEFINE I == {i \in 1..Len(q) : q[i].path = path}
<1>1. LatestOn(q, path) = IF I # {} THEN Max(I) ELSE 0
  BY Zenon DEF LatestOn, SelectLastInSubSeq
<1>2. IsFiniteSet(1..Len(q))
  BY FS_Interval
<1>3. I \subseteq Nat /\ I \in SUBSET (1..Len(q))
  OBVIOUS
<1>4. IsFiniteSet(I)
  <2> HIDE DEF I
  <2> QED
    BY <1>2, <1>3, FS_Subset
<1>5. I # {} => Max(I) \in I /\ \A i \in I : i =< Max(I)
  <2> HIDE DEF I
  <2> QED
    BY <1>3, <1>4, MaxOfFinite
<1> HIDE DEF I
<1>6. CASE I = {}
  <2>1. LatestOn(q, path) = 0
    BY <1>1, <1>6
  <2>2. \A i \in 1..Len(q) : q[i].path # path
    BY <1>6 DEF I
  <2> QED
    BY <2>1, <2>2
<1>7. CASE I # {}
  <2>1. LatestOn(q, path) = Max(I) /\ Max(I) \in I /\ \A i \in I : i =< Max(I)
    BY <1>1, <1>5, <1>7
  <2> QED
    BY <2>1 DEF I
<1> QED
  BY <1>6, <1>7

(* add() appends, takes back a delete, or does nothing. *)
LEMMA AddIs ==
  ASSUME NEW vals, NEW paths, NEW q \in Seq(OpsAt(paths, vals)), NEW op \in OpsAt(paths, vals)
  PROVE  \/ Add(q, op) = q /\ q # <<>> /\ q[Len(q)] = op
         \/ Add(q, op) = Append(q, op)
         \/ /\ op = SetNode(op.path)
            /\ \E k \in 1..Len(q) : /\ q[k] = DeleteNode(op.path) /\ Add(q, op) = RemoveAt(q, k)
                                    /\ \A i \in 1..Len(q) : q[i].path = op.path => i =< k
<1> DEFINE k == LatestOn(q, op.path)
<1>1. k \in 0..Len(q) /\ (k # 0 => \A i \in 1..Len(q) : q[i].path = op.path => i =< k)
  BY LatestOnIs
<1> HIDE DEF k
<1>2. CASE q # <<>> /\ Last(q) = op
  <2>1. q[Len(q)] = op /\ Len(q) \in 1..Len(q)
    BY <1>2 DEF Last
  <2>2. op = SetNode(op.path) /\ k # 0 => q[k] # DeleteNode(op.path)
    <3> SUFFICES ASSUME op = SetNode(op.path), k # 0 PROVE q[k] # DeleteNode(op.path)
      OBVIOUS
    <3>1. k = Len(q)
      BY <1>1, <2>1
    <3> QED
      BY <2>1, <3>1 DEF SetNode, DeleteNode, SetOp, DeleteOp
  <2>3. Add(q, op) = q
    BY <1>2, <2>2 DEF Add, k
  <2> QED
    BY <1>2, <2>1, <2>3
<1>3. CASE ~(q # <<>> /\ Last(q) = op) /\ op = SetNode(op.path) /\ k # 0 /\ q[k] = DeleteNode(op.path)
  <2>1. Add(q, op) = RemoveAt(q, k)
    BY <1>3 DEF Add, k
  <2> QED
    BY <1>1, <1>3, <2>1
<1>4. CASE ~(q # <<>> /\ Last(q) = op) /\ ~(op = SetNode(op.path) /\ k # 0 /\ q[k] = DeleteNode(op.path))
  BY <1>4 DEF Add, k
<1> QED
  BY <1>2, <1>3, <1>4

(* A sequence without one element. *)
LEMMA RemoveAtIs ==
  ASSUME NEW S, NEW q \in Seq(S), NEW k \in 1..Len(q)
  PROVE  /\ RemoveAt(q, k) \in Seq(S) /\ Len(RemoveAt(q, k)) = Len(q) - 1
         /\ \A i \in 1..(Len(q) - 1) : RemoveAt(q, k)[i] = IF i < k THEN q[i] ELSE q[i + 1]
<1> DEFINE a == SubSeq(q, 1, k - 1)
           b == SubSeq(q, k + 1, Len(q))
<1>1. /\ a \in Seq(S) /\ Len(a) = k - 1 /\ \A i \in 1..(k - 1) : a[i] = q[i]
      /\ b \in Seq(S) /\ Len(b) = Len(q) - k /\ \A i \in 1..(Len(q) - k) : b[i] = q[k + i]
  OBVIOUS
<1>2. RemoveAt(q, k) = a \o b
  BY DEF RemoveAt
<1> HIDE DEF a, b
<1>3. a \o b \in Seq(S) /\ Len(a \o b) = Len(q) - 1
  <2>1. a \o b \in Seq(S) /\ Len(a \o b) = Len(a) + Len(b)
    BY <1>1, ConcatProperties
  <2> QED
    BY <1>1, <2>1
<1>4. ASSUME NEW i \in 1..(Len(q) - 1) PROVE (a \o b)[i] = IF i < k THEN q[i] ELSE q[i + 1]
  BY <1>1
<1> QED
  BY <1>2, <1>3, <1>4

(* add() queues operations of the same kind. *)
LEMMA AddType ==
  ASSUME NEW vals, NEW paths, NEW q \in Seq(OpsAt(paths, vals)), NEW op \in OpsAt(paths, vals)
  PROVE  Add(q, op) \in Seq(OpsAt(paths, vals))
<1>1. CASE Add(q, op) \in {q, Append(q, op)}
  BY <1>1
<1>2. ASSUME NEW k \in 1..Len(q), Add(q, op) = RemoveAt(q, k)
      PROVE  Add(q, op) \in Seq(OpsAt(paths, vals))
  BY <1>2, RemoveAtIs
<1> QED
  BY <1>1, <1>2, AddIs

(* So does a form. *)
LEMMA AddAllType ==
  ASSUME NEW vals, NEW paths, NEW q \in Seq(OpsAt(paths, vals)), NEW ops \in Seq(OpsAt(paths, vals))
  PROVE  AddAll(q, ops) \in Seq(OpsAt(paths, vals))
<1> DEFINE n == Len(ops)
           V == Seq(OpsAt(paths, vals))
<1>1. n \in Nat /\ DOMAIN ops = 1..n /\ \A i \in 1..n : ops[i] \in OpsAt(paths, vals)
  OBVIOUS
<1>2. q \in V /\ \A r \in V, i \in 1..n : Add(r, ops[i]) \in V
  BY <1>1, AddType
<1> HIDE DEF n, V
<1>3. AddAllRuns(V, q, ops, n)
  BY <1>1, <1>2, AddAllRun
<1>4. AddAll(q, ops) \in V
  BY <1>1, <1>3 DEF AddAllRuns
<1> QED
  BY <1>4 DEF V

(* The sets are among the operations. *)
LEMMA OnlySetsType ==
  ASSUME NEW S, NEW ops \in Seq(S)
  PROVE  OnlySets(ops) \in Seq(S)
<1> DEFINE n == Len(ops)
           V == Seq(S)
<1>1. n \in Nat /\ DOMAIN ops = 1..n /\ \A i \in 1..n : ops[i] \in S
  OBVIOUS
<1>2. <<>> \in V /\ \A r \in V, i \in 1..n : OnlySet(r, ops[i]) \in V
  BY <1>1 DEF OnlySet
<1> HIDE DEF n, V
<1>3. OnlySetsRuns(V, ops, n)
  BY <1>1, <1>2, OnlySetsRun
<1>4. OnlySets(ops) \in V
  BY <1>1, <1>3 DEF OnlySetsRuns
<1> QED
  BY <1>4 DEF V

-----------------------------------------------------------------------------
(* The values a field of a form may have. *)
FieldValues(write, vals) ==
  CASE write.is = "flag" -> BOOLEAN
    [] write.is = "list" -> {s \in SUBSET vals : IsFiniteSet(s)}
    [] write.is = "raw" -> vals \cup {Blank}
    [] OTHER -> vals \cup {Blank, Spaces, Padded}

(* What a changed field queues. *)
LEMMA FieldToOpsType ==
  ASSUME NEW vals, NEW write, NEW path, NEW before \in FieldValues(write, vals), NEW value \in FieldValues(write, vals),
         {NoValue, New} \subseteq vals, write.blank \in vals, write.is \in {"scalar", "secret", "raw", "flag", "list"}
  PROVE  FieldToOps(write, path, before, value) \in Seq(OpsAt({path}, vals))
<1> DEFINE V == Seq(OpsAt({path}, vals))
<1>1. <<>> \in V /\ <<SetNode(path)>> \in V /\ <<DeleteNode(path)>> \in V /\ \A text \in vals : <<SetOp(path, text)>> \in V
  BY DEF SetNode, DeleteNode, SetOp, DeleteOp, OpsAt
<1>2. \A ops \in V, text \in vals : Append(ops, SetOp(path, text)) \in V /\ Append(ops, DeleteOp(path, text)) \in V
  BY DEF SetOp, DeleteOp, OpsAt
<1>3. \A a, b \in V : a \o b \in V
  BY ConcatProperties
<1> HIDE DEF V
<1>4. CASE write.is = "list"
  <2>1. /\ IsFiniteSet(value \ before) /\ value \ before \subseteq vals
        /\ IsFiniteSet(before \ value) /\ before \ value \subseteq vals
    BY <1>4, FS_Difference DEF FieldValues
  <2>2. SetOps(path, value \ before) \in V
    BY <1>1, <1>2, <2>1, SetOpsIn
  <2>3. DeleteOps(path, before \ value) \in V
    BY <1>1, <1>2, <2>1, DeleteOpsIn
  <2>4. multiValueDiffOps(path, before, value) \in V
    BY <1>3, <2>2, <2>3 DEF multiValueDiffOps
  <2> QED
    BY <1>1, <1>4, <2>4 DEF FieldToOps, V
<1>5. CASE write.is = "flag"
  BY <1>1, <1>5 DEF FieldToOps, FieldValues, V
<1>6. CASE write.is \in {"scalar", "secret"}
  <2>1. trim(value) # Blank => trim(value) \in vals
    BY <1>6 DEF FieldValues, trim, Blank, Spaces, Padded, New
  <2> QED
    BY <1>1, <1>6, <2>1 DEF FieldToOps, V
<1>7. CASE write.is = "raw"
  <2>1. value # Blank => value \in vals
    BY <1>7 DEF FieldValues
  <2> QED
    BY <1>1, <1>7, <2>1 DEF FieldToOps, V
<1> QED
  BY <1>4, <1>5, <1>6, <1>7

(* What a form starts with. *)
LEMMA FormValuesType ==
  ASSUME NEW p, WellFormed(p), NEW config \in Configs(Leaves(p)), NEW f \in DOMAIN p.form
  PROVE  FormValues(p, config)[f] \in FieldValues(p.form[f], Leaves(p))
<1> DEFINE g == FieldShown(p, f)
           vals == Leaves(p)
           there == {m \in config : m.path = p.at \o p.reads[g]}
           texts == {n.val : n \in there}
           found == texts \ {NoValue}
<1>1. /\ g \in DOMAIN p.type
      /\ LET shows == p.type[g].is IN
           CASE p.form[f].is = "scalar" -> shows \in {"text", "number"}
             [] p.form[f].is = "secret" -> shows = "has"
             [] p.form[f].is = "raw" -> shows \in {"text", "number", "list"} /\ p.use = "adds"
             [] OTHER -> p.form[f].is \in {"flag", "list"} /\ shows = p.form[f].is
  BY DEF WellFormed, WellFormedForm
<1>2. p.type[g].is \in {"text", "number"} => p.type[g].unset \in vals
  BY <1>1 DEF Leaves
<1>3. found \in SUBSET vals /\ IsFiniteSet(found)
  <2>1. texts \subseteq vals
    BY DEF Configs, Nodes
  <2>2. IsFiniteSet(there)
    BY FS_Subset DEF Configs
  <2>3. IsFiniteSet(texts)
    <3> DEFINE val == [n \in there |-> n.val]
    <3>1. val \in Surjection(there, texts)
      BY DEF Surjection
    <3> HIDE DEF val, there, texts
    <3> QED
      BY <2>2, <3>1, FS_Surjection
  <2> HIDE DEF texts
  <2> QED
    BY <2>1, <2>3, FS_Subset
<1>4. FormValues(p, config)[f] = IF p.form[f].is \in {"secret", "raw"} THEN Blank ELSE ReadField(p.type[g], config, p.at, p.reads[g])
  BY DEF FormValues
<1>5. CASE p.form[f].is \in {"secret", "raw"}
  BY <1>4, <1>5 DEF FieldValues
<1>6. CASE p.form[f].is = "flag"
  <2>1. ReadField(p.type[g], config, p.at, p.reads[g]) \in BOOLEAN
    BY <1>1, <1>6 DEF ReadField, Exists
  <2> QED
    BY <1>4, <1>6, <2>1 DEF FieldValues
<1>7. CASE p.form[f].is = "list"
  <2>1. ReadField(p.type[g], config, p.at, p.reads[g]) = found
    BY <1>1, <1>7 DEF ReadField
  <2> QED
    BY <1>3, <1>4, <1>7, <2>1 DEF FieldValues
<1>8. CASE p.form[f].is = "scalar"
  <2> DEFINE text == CHOOSE t \in found : TRUE
             unset == p.type[g].unset
             read == ReadField(p.type[g], config, p.at, p.reads[g])
  <2>1. p.type[g].is = "text" => read = IF found = {} THEN unset ELSE text
    BY ONLY DEF ReadField
  <2>2. p.type[g].is = "number" => read = IF found = {} THEN unset ELSE numberOrUndefined(text, unset)
    BY ONLY DEF ReadField
  <2>3. p.type[g].is \in {"text", "number"} /\ unset \in vals
    BY <1>1, <1>2, <1>8
  <2>4. p.type[g].is = "number" => New \in vals /\ Zero \in vals
    BY <1>1 DEF Leaves, HasNumbers
  <2>5. found # {} => text \in vals
    BY <1>3
  <2> HIDE DEF text, unset, read, found, vals
  <2>6. p.type[g].is = "number" /\ found # {} => numberOrUndefined(text, unset) \in vals
    BY <2>3, <2>4, <2>5 DEF numberOrUndefined, trim, Word, Blank, Spaces, New, Padded
  <2>7. read \in vals
    BY <2>1, <2>2, <2>3, <2>5, <2>6
  <2> USE DEF read, vals
  <2> QED
    BY <1>4, <1>8, <2>7 DEF FieldValues
<1> QED
  BY <1>1, <1>5, <1>6, <1>7, <1>8

(* The operations a form queues are for the fields whose values changed,   *)
(* and for the node of an entry that is created.                           *)
FormPaths(p, config, values) ==
  {p.at \o p.form[f].path : f \in Changed(p, FormValues(p, config), values)}
  \cup (IF p.marks /\ ~Exists(config, p.at) THEN {p.at} ELSE {})

(* What a form queues. *)
LEMMA FormToOpsType ==
  ASSUME NEW p, WellFormed(p), NEW config \in Configs(Leaves(p)), NEW values,
         \A f \in DOMAIN p.form : values[f] \in FieldValues(p.form[f], Leaves(p))
  PROVE  FormToOps(p, config, values) \in Seq(OpsAt(FormPaths(p, config, values), Leaves(p)))
<1> DEFINE vals == Leaves(p)
           before == FormValues(p, config)
           S == Changed(p, before, values)
           paths == FormPaths(p, config, values)
           V == Seq(OpsAt(paths, vals))
           ops == ChangesToOps(p, before, values)
<1>1. S \subseteq DOMAIN p.form /\ IsFiniteSet(S)
  BY FS_Subset DEF WellFormed, WellFormedForm, Changed
<1>2. ASSUME NEW f \in S PROVE FieldOps(p, f, before, values) \in V
  <2>1. f \in DOMAIN p.form
    BY <1>1
  <2>2. before[f] \in FieldValues(p.form[f], vals) /\ values[f] \in FieldValues(p.form[f], vals)
    BY <2>1, FormValuesType
  <2>3. {NoValue, New} \subseteq vals /\ p.form[f].blank \in vals
    BY <2>1 DEF Leaves
  <2>4. p.form[f].is \in {"scalar", "secret", "raw", "flag", "list"}
    BY <2>1 DEF WellFormed, WellFormedForm
  <2> DEFINE path == p.at \o p.form[f].path
  <2>5. path \in paths
    BY DEF FormPaths
  <2> HIDE DEF vals, before, path, paths, S
  <2>6. FieldToOps(p.form[f], path, before[f], values[f]) \in Seq(OpsAt({path}, vals))
    BY <2>2, <2>3, <2>4, FieldToOpsType
  <2>7. OpsAt({path}, vals) \subseteq OpsAt(paths, vals)
    BY <2>5 DEF OpsAt
  <2>8. FieldToOps(p.form[f], path, before[f], values[f]) \in Seq(OpsAt(paths, vals))
    BY <2>6, <2>7, SeqMonotonic
  <2> QED
    BY <2>8 DEF FieldOps, path
<1>3. <<>> \in V /\ \A a, b \in V : a \o b \in V
  BY ConcatProperties
<1>4. ops \in V
  <2> HIDE DEF before, V
  <2>1. \A q \in V, f \in S : q \o FieldOps(p, f, before, values) \in V
    BY <1>2, <1>3
  <2> HIDE DEF S
  <2>2. S = Changed(p, before, values)
    BY DEF S
  <2> QED
    BY <1>1, <1>3, <2>1, <2>2, ChangesToOpsIn
<1>5. OnlySets(ops) \in V
  BY <1>4, OnlySetsType
<1>6. p.marks /\ ~Exists(config, p.at) => <<SetNode(p.at)>> \in V
  BY DEF SetNode, SetOp, OpsAt, FormPaths, Leaves
<1>7. FormToOps(p, config, values) = (IF p.marks /\ ~Exists(config, p.at) THEN <<SetNode(p.at)>> ELSE <<>>)
                                     \o (IF p.use = "adds" THEN OnlySets(ops) ELSE ops)
  BY DEF FormToOps
<1>8. FormToOps(p, config, values) \in V
  <2> HIDE DEF V, ops
  <2> QED
    BY <1>3, <1>4, <1>5, <1>6, <1>7
<1> QED
  BY <1>8

-----------------------------------------------------------------------------
(***************************************************************************)
(* What operations at and below a node do to the node.                     *)
(***************************************************************************)
LEMMA PrefixIs ==
  ASSUME NEW s \in Path, NEW t \in Path
  PROVE  IsPrefix(s, t) <=> Len(s) =< Len(t) /\ \A i \in 1..Len(s) : s[i] = t[i]
<1>1. CASE Len(s) =< Len(t)
  <2>1. /\ SubSeq(s, 1, Len(s)) = [i \in 1..Len(s) |-> s[i]]
        /\ SubSeq(t, 1, Len(s)) = [i \in 1..Len(s) |-> t[i]]
    BY <1>1 DEF Path
  <2> QED
    BY <1>1, <2>1 DEF IsPrefix
<1>2. CASE ~(Len(s) =< Len(t))
  BY <1>2 DEF IsPrefix
<1> QED
  BY <1>1, <1>2

(* What is below a node below another is below that. *)
LEMMA PrefixIsTransitive ==
  ASSUME NEW r \in Path, NEW s \in Path, NEW t \in Path, IsPrefix(r, s), IsPrefix(s, t)
  PROVE  IsPrefix(r, t)
<1>1. /\ Len(r) =< Len(s) /\ \A i \in 1..Len(r) : r[i] = s[i]
      /\ Len(s) =< Len(t) /\ \A i \in 1..Len(s) : s[i] = t[i]
  BY PrefixIs
<1>2. Len(r) \in Nat /\ Len(s) \in Nat /\ Len(t) \in Nat
  BY DEF Path
<1>3. Len(r) =< Len(t) /\ \A i \in 1..Len(r) : r[i] = t[i]
  BY <1>1, <1>2
<1> QED
  BY <1>3, PrefixIs

(* A node is below itself, in the sense of IsPrefix. *)
LEMMA PrefixOfItself ==
  ASSUME NEW s \in Path
  PROVE  IsPrefix(s, s)
<1>1. Len(s) =< Len(s)
  BY DEF Path
<1> QED
  BY <1>1, PrefixIs

(* The paths strictly below a node. *)
BelowNode(at) == {path \in Path : IsPrefix(at, path) /\ path # at}

(* What is written below a node. *)
LEMMA ConcatIsBelow ==
  ASSUME NEW at \in Path, NEW q \in Place
  PROVE  at \o q \in BelowNode(at)
<1>1. /\ at \o q \in Path /\ Len(at \o q) = Len(at) + Len(q) /\ Len(at) \in Nat /\ Len(q) \in Nat
      /\ \A i \in 1..Len(at) : (at \o q)[i] = at[i]
  BY ConcatProperties DEF Path, Place
<1>2. Len(q) # 0
  BY DEF Path, Place
<1> DEFINE longer == at \o q
<1>3. longer \in Path /\ Len(at) =< Len(longer) /\ Len(longer) # Len(at) /\ \A i \in 1..Len(at) : at[i] = longer[i]
  BY <1>1, <1>2
<1> HIDE DEF longer
<1>4. IsPrefix(at, longer)
  BY <1>3, PrefixIs
<1>5. longer \in BelowNode(at)
  BY <1>3, <1>4 DEF BelowNode
<1> QED
  BY <1>5 DEF longer

(* What is below a node has a longer path. *)
LEMMA LongerBelow ==
  ASSUME NEW at \in Path, NEW path \in BelowNode(at)
  PROVE  Len(path) > Len(at) /\ path \in Place
<1>1. path \in Path /\ Len(at) =< Len(path) /\ \A i \in 1..Len(at) : at[i] = path[i]
  BY PrefixIs DEF BelowNode
<1>2. Len(at) \in Nat /\ Len(path) \in Nat
  BY <1>1 DEF Path
<1>3. Len(at) # Len(path)
  <2> SUFFICES ASSUME Len(at) = Len(path) PROVE path = at
    BY DEF BelowNode
  <2> QED
    BY <1>1, <1>2, SeqEqual DEF Path
<1>4. path # <<>>
  BY <1>1, <1>2, <1>3
<1> QED
  BY <1>1, <1>2, <1>3, <1>4 DEF Place

(* The node above one below is at or below the node. *)
LEMMA FrontBelow ==
  ASSUME NEW at \in Path, NEW path \in BelowNode(at)
  PROVE  Front(path) \in Path /\ IsPrefix(at, Front(path))
<1>1. path \in Path /\ path # <<>> /\ Len(path) > Len(at) /\ \A i \in 1..Len(at) : at[i] = path[i]
  BY LongerBelow, PrefixIs DEF BelowNode, Place
<1>2. /\ Front(path) \in Path /\ Len(Front(path)) = Len(path) - 1
      /\ \A i \in 1..(Len(path) - 1) : Front(path)[i] = path[i]
  BY <1>1, FrontIs DEF Path
<1>3. Len(at) \in Nat /\ Len(path) \in Nat
  BY <1>1 DEF Path
<1>4. Len(at) =< Len(Front(path)) /\ \A i \in 1..Len(at) : at[i] = Front(path)[i]
  BY <1>1, <1>2, <1>3
<1> QED
  BY <1>2, <1>4, PrefixIs

(* The node above a node is not below it. *)
LEMMA FrontAbove ==
  ASSUME NEW at \in Place
  PROVE  Front(at) \in Path /\ ~IsPrefix(at, Front(at))
<1>1. Front(at) \in Path /\ Len(Front(at)) = Len(at) - 1 /\ at \in Path /\ Len(at) \in Nat
  BY FrontOfPath DEF Place, Path
<1> QED
  BY <1>1, PrefixIs

(* Whatever is set at or below a node, the node is there afterwards. *)
LEMMA SetCreates ==
  ASSUME NEW vals, NoValue \in vals, NEW c \in Configs(vals), NEW at \in Place, NEW lists,
         NEW op \in OpsAt(BelowNode(at) \cup {at}, vals), op.op = "set"
  PROVE  Exists(AfterOp(c, op, lists), at)
<1>1. op.path \in Path /\ IsPrefix(at, op.path)
  BY PrefixOfItself DEF OpsAt, BelowNode, Place
<1>2. AfterOp(c, op, lists) = AfterSet(c, op, lists)
  BY DEF AfterOp
<1>3. CASE op.val = NoValue /\ Exists(c, op.path)
  <2>1. PICK n \in c : IsPrefix(op.path, n.path)
    BY <1>3 DEF Exists, Below
  <2>2. n.path \in Path /\ at \in Path
    BY DEF Configs, Nodes, Place
  <2>3. IsPrefix(at, n.path)
    BY <1>1, <2>1, <2>2, PrefixIsTransitive
  <2> QED
    BY <1>2, <1>3, <2>3 DEF AfterSet, Exists, Below
<1>4. CASE ~(op.val = NoValue /\ Exists(c, op.path))
  <2>1. Node(op.path, op.val) \in AfterOp(c, op, lists)
    BY <1>2, <1>4 DEF AfterSet
  <2>2. IsPrefix(at, Node(op.path, op.val).path)
    BY <1>1 DEF Node
  <2> QED
    BY <2>1, <2>2 DEF Exists, Below
<1> QED
  BY <1>3, <1>4

(* What is deleted below a node leaves the node. *)
LEMMA DeleteBelowLeaves ==
  ASSUME NEW vals, NoValue \in vals, NEW c \in Configs(vals), NEW at \in Place, NEW lists,
         NEW op \in OpsAt(BelowNode(at), vals), op.op = "delete", Exists(c, at)
  PROVE  Exists(AfterOp(c, op, lists), at)
<1> DEFINE gone == IF op.val = NoValue THEN Below(c, op.path) ELSE {Node(op.path, op.val)} \cap c
           above == Front(op.path)
           rest == c \ gone
<1>1. AfterOp(c, op, lists) = rest \cup (IF gone # {} /\ above # <<>> /\ ~Exists(rest, above) THEN {Node(above, NoValue)} ELSE {})
  BY Zenon DEF AfterOp, AfterDelete
<1>2. above \in Path /\ IsPrefix(at, above) /\ at \in Path
  BY FrontBelow DEF OpsAt, Place
<1>3. above # <<>>
  <2>1. Len(at) # 0 /\ Len(at) \in Nat /\ Len(at) =< Len(above)
    BY <1>2, PrefixIs DEF Place, Path
  <2> HIDE DEF above
  <2> QED
    BY <2>1
<1>4. PICK n \in c : IsPrefix(at, n.path)
  BY DEF Exists, Below
<1> HIDE DEF gone, above
<1>5. CASE n \notin gone
  BY <1>1, <1>4, <1>5 DEF Exists, Below
<1>6. CASE gone # {} /\ ~Exists(rest, above)
  <2>1. Node(above, NoValue) \in AfterOp(c, op, lists)
    BY <1>1, <1>3, <1>6
  <2>2. IsPrefix(at, Node(above, NoValue).path)
    BY <1>2 DEF Node
  <2> QED
    BY <2>1, <2>2 DEF Exists, Below
<1>7. CASE Exists(rest, above)
  <2>1. PICK m \in rest : IsPrefix(above, m.path)
    BY <1>7 DEF Exists, Below
  <2>2. m.path \in Path
    BY <2>1 DEF Configs, Nodes
  <2>3. IsPrefix(at, m.path)
    BY <1>2, <2>1, <2>2, PrefixIsTransitive
  <2>4. m \in AfterOp(c, op, lists)
    BY <1>1, <2>1
  <2> QED
    BY <2>3, <2>4 DEF Exists, Below
<1> QED
  BY <1>5, <1>6, <1>7

(* A delete of the node removes it. *)
LEMMA DeleteRemoves ==
  ASSUME NEW c, NEW at \in Place, NEW lists
  PROVE  ~Exists(AfterOp(c, DeleteNode(at), lists), at)
<1> DEFINE gone == Below(c, at)
           above == Front(at)
<1>1. AfterOp(c, DeleteNode(at), lists) \subseteq (c \ gone) \cup {Node(above, NoValue)}
  BY DEF AfterOp, AfterDelete, DeleteNode, DeleteOp
<1>2. ~IsPrefix(at, Node(above, NoValue).path)
  BY FrontAbove DEF Node
<1>3. \A n \in c \ gone : ~IsPrefix(at, n.path)
  BY DEF Below
<1> QED
  BY <1>1, <1>2, <1>3 DEF Exists, Below

-----------------------------------------------------------------------------
(* What the two buttons queue, and what may be queued below the node.      *)
SwitchOps(at, vals) == OpsAt(BelowNode(at), vals) \cup {SetNode(at), DeleteNode(at)}

(* Which operations these are. *)
LEMMA SwitchOpsType ==
  ASSUME NEW vals, NoValue \in vals, NEW at \in Place
  PROVE  /\ SwitchOps(at, vals) \subseteq OpsAt(BelowNode(at) \cup {at}, vals)
         /\ SwitchOps(at, vals) \subseteq OpsAt(Place, vals)
         /\ OpsAt(BelowNode(at), vals) \subseteq SwitchOps(at, vals)
         /\ \A op \in SwitchOps(at, vals) : op.path = at => op \in {SetNode(at), DeleteNode(at)}
<1>1. BelowNode(at) \subseteq Place
  BY LongerBelow DEF Place
<1>2. at \notin BelowNode(at)
  BY DEF BelowNode
<1> QED
  BY <1>1, <1>2 DEF SwitchOps, OpsAt, SetNode, DeleteNode, SetOp, DeleteOp

(* The operations leave the node there, if none deletes it and it was      *)
(* there or one sets it.                                                   *)
LEMMA NodeIsKept ==
  ASSUME NEW vals, NoValue \in vals, NEW c \in Configs(vals), NEW at \in Place, NEW lists,
         NEW ops \in Seq(SwitchOps(at, vals)), \A i \in DOMAIN ops : ops[i] # DeleteNode(at),
         Exists(c, at) \/ \E i \in DOMAIN ops : ops[i] = SetNode(at)
  PROVE  Exists(AfterOps(c, ops, lists), at)
<1> DEFINE n == Len(ops)
           V == Configs(vals)
<1>1. n \in Nat /\ DOMAIN ops = 1..n /\ \A i \in 1..n : ops[i] \in SwitchOps(at, vals)
  OBVIOUS
<1>2. c \in V /\ \A d \in V, i \in 1..n : AfterOp(d, ops[i], lists) \in V
  BY <1>1, AfterOpType, SwitchOpsType
<1> HIDE DEF n, V
<1>3. PICK run \in [0..n -> V] : /\ run[0] = c
                                 /\ \A i \in 1..n : run[i] = AfterOp(run[i - 1], ops[i], lists)
                                 /\ AfterOps(c, ops, lists) = run[n]
  <2>1. AfterOpsRuns(V, c, ops, lists, n)
    BY <1>1, <1>2, AfterOpsRun
  <2> QED
    BY <2>1 DEF AfterOpsRuns
<1> DEFINE T == {k \in 0..n : Exists(c, at) \/ (\E i \in 1..k : ops[i] = SetNode(at)) => Exists(run[k], at)}
<1>4. 0 \in T
  BY <1>1, <1>3
<1>5. ASSUME NEW k \in 0..(n - 1), k \in T PROVE k + 1 \in T
  <2>1. k + 1 \in 1..n /\ k + 1 \in 0..n /\ (k + 1) - 1 = k /\ k \in 0..n
    BY <1>1
  <2>2. run[k + 1] = AfterOp(run[k], ops[k + 1], lists) /\ run[k] \in V
    BY <1>3, <2>1
  <2>3. ops[k + 1] \in SwitchOps(at, vals) /\ ops[k + 1] # DeleteNode(at)
    BY <1>1, <2>1
  <2>4. CASE ops[k + 1].op = "set"
    <3>1. Exists(run[k + 1], at)
      <4>1. ops[k + 1] \in OpsAt(BelowNode(at) \cup {at}, vals) /\ run[k] \in Configs(vals)
        BY <2>2, <2>3, SwitchOpsType DEF V
      <4>2. Exists(AfterOp(run[k], ops[k + 1], lists), at)
        BY <2>4, <4>1, SetCreates
      <4> QED
        BY <2>2, <4>2
    <3> QED
      BY <2>1, <3>1
  <2>5. CASE ops[k + 1].op # "set"
    <3>1. ops[k + 1] \in OpsAt(BelowNode(at), vals) /\ ops[k + 1].op = "delete" /\ ops[k + 1] # SetNode(at)
      BY <2>3, <2>5 DEF SwitchOps, OpsAt, SetNode, SetOp
    <3>2. Exists(run[k], at) => Exists(run[k + 1], at)
      BY <2>2, <3>1, DeleteBelowLeaves DEF V
    <3>3. (\E i \in 1..(k + 1) : ops[i] = SetNode(at)) => \E i \in 1..k : ops[i] = SetNode(at)
      BY <2>1, <3>1
    <3> QED
      BY <1>5, <2>1, <3>2, <3>3
  <2> QED
    BY <2>4, <2>5
<1>6. n \in T
  <2> HIDE DEF T
  <2>1. \A k \in 0..n : k \in T
    BY <1>1, <1>4, <1>5, Induction
  <2> QED
    BY <1>1, <2>1
<1> QED
  BY <1>1, <1>3, <1>6

(* An operation that deletes the node at the end removes it. *)
LEMMA NodeIsRemoved ==
  ASSUME NEW vals, NoValue \in vals, NEW c \in Configs(vals), NEW at \in Place, NEW lists,
         NEW ops \in Seq(OpsAt(Place, vals)), ops # <<>>, ops[Len(ops)] = DeleteNode(at)
  PROVE  ~Exists(AfterOps(c, ops, lists), at)
<1> DEFINE n == Len(ops)
           V == Configs(vals)
<1>1. n \in Nat /\ n # 0 /\ DOMAIN ops = 1..n /\ \A i \in 1..n : ops[i] \in OpsAt(Place, vals)
  OBVIOUS
<1>2. c \in V /\ \A d \in V, i \in 1..n : AfterOp(d, ops[i], lists) \in V
  BY <1>1, AfterOpType
<1>3. ops[n] = DeleteNode(at)
  OBVIOUS
<1> HIDE DEF n, V
<1>4. PICK run \in [0..n -> V] : /\ \A i \in 1..n : run[i] = AfterOp(run[i - 1], ops[i], lists)
                                 /\ AfterOps(c, ops, lists) = run[n]
  <2>1. AfterOpsRuns(V, c, ops, lists, n)
    BY <1>1, <1>2, AfterOpsRun
  <2> QED
    BY <2>1 DEF AfterOpsRuns
<1>5. run[n] = AfterOp(run[n - 1], DeleteNode(at), lists)
  BY <1>1, <1>3, <1>4
<1> QED
  BY <1>4, <1>5, DeleteRemoves

(* Without operations nothing changes. *)
LEMMA NoOps ==
  ASSUME NEW vals, NEW c \in Configs(vals), NEW lists
  PROVE  AfterOps(c, <<>>, lists) = c
<1> DEFINE V == Configs(vals)
<1>1. c \in V /\ 0 \in Nat /\ DOMAIN <<>> = 1..0 /\ \A d \in V, i \in 1..0 : AfterOp(d, <<>>[i], lists) \in V
  OBVIOUS
<1> HIDE DEF V
<1>2. AfterOpsRuns(V, c, <<>>, lists, 0)
  <2> DEFINE none == <<>>
  <2>1. DOMAIN none = 1..0 /\ \A d \in V, i \in 1..0 : AfterOp(d, none[i], lists) \in V
    BY <1>1
  <2> HIDE DEF none
  <2>2. AfterOpsRuns(V, c, none, lists, 0)
    BY <1>1, <2>1, AfterOpsRun
  <2> QED
    BY <2>2 DEF none
<1> QED
  BY <1>2 DEF AfterOpsRuns
=============================================================================
