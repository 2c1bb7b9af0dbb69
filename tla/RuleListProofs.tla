--------------------------- MODULE RuleListProofs ---------------------------
(***************************************************************************)
(* What TLAPS proves about RuleList, for every ruleset to begin with,      *)
(* every action, name and typed number and any number of gestures: numbers *)
(* stay numbers and settings single, gestures on different rules do not    *)
(* disturb each other, and one gesture, a move with all its renumbering    *)
(* included, does to what VyOS evaluates what it says.                     *)
(***************************************************************************)
EXTENDS RuleList, ConfigTreeProofs

-----------------------------------------------------------------------------
(* Paths of rules and of settings *)

LEMMA StartsWith ==
  ASSUME NEW S, NEW s \in Seq(S), NEW t \in Seq(S), Len(t) =< Len(s),
         \A i \in 1..Len(t) : s[i] = t[i]
  PROVE  SubSeq(s, 1, Len(t)) = t
<1> DEFINE k == Len(t)
           u == SubSeq(s, 1, k)
<1>1. k \in Nat /\ Len(s) \in Nat /\ k =< Len(s) /\ \A i \in 1..k : s[i] \in S
  OBVIOUS
<1> HIDE DEF k
<1>2. /\ u \in Seq(S) /\ Len(u) = IF 1 =< k THEN k - 1 + 1 ELSE 0
      /\ \A i \in 1..(k - 1 + 1) : u[i] = s[1 + i - 1]
  BY <1>1, SubSeqProperties
<1> HIDE DEF u
<1>3. Len(u) = k /\ \A i \in 1..k : u[i] = s[i]
  BY <1>1, <1>2
<1>4. u = t
  BY <1>2, <1>3, SeqEqual DEF k
<1> QED
  BY <1>4 DEF k, u

(* One of two sequences of a path, element by element. *)
LEMMA ShortPaths ==
  ASSUME NEW n, NEW l
  PROVE  /\ Len(<<n>>) = 1 /\ SubSeq(<<n>>, 1, 1) = <<n>>
         /\ Len(<<n, l>>) = 2 /\ SubSeq(<<n, l>>, 1, 1) = <<n>> /\ SubSeq(<<n, l>>, 1, 2) = <<n, l>>
<1> DEFINE S == {n, l}
           s == <<n, l>>
           t == <<n>>
<1>1. /\ t \in Seq(S) /\ Len(t) = 1 /\ t[1] = n
      /\ s \in Seq(S) /\ Len(s) = 2 /\ s[1] = n /\ s[2] = l
  OBVIOUS
<1>2. 1 =< 1 /\ 1 =< 2 /\ 2 =< 2 /\ \A i \in 1..1 : i = 1
  OBVIOUS
<1> HIDE DEF S, s, t
<1>3. SubSeq(t, 1, Len(t)) = t /\ SubSeq(s, 1, Len(t)) = t /\ SubSeq(s, 1, Len(s)) = s
  <2>1. SubSeq(t, 1, Len(t)) = t
    BY <1>1, <1>2, StartsWith
  <2>2. SubSeq(s, 1, Len(t)) = t
    BY <1>1, <1>2, StartsWith
  <2>3. SubSeq(s, 1, Len(s)) = s
    BY <1>1, <1>2, StartsWith
  <2> QED
    BY <2>1, <2>2, <2>3
<1>4. Len(<<n>>) = 1 /\ Len(<<n, l>>) = 2
  OBVIOUS
<1> QED
  BY <1>3, <1>4 DEF s, t

LEMMA RulePaths ==
  ASSUME NEW n, NEW m
  PROVE  /\ Len(<<n>>) = 1 /\ Front(<<n>>) = <<>>
         /\ IsPrefix(<<n>>, <<m>>) <=> n = m
<1>1. Len(<<n>>) = 1 /\ Len(<<m>>) = 1 /\ SubSeq(<<n>>, 1, 1) = <<n>> /\ SubSeq(<<m>>, 1, 1) = <<m>>
  BY ShortPaths
<1>2. SubSeq(<<n>>, 1, 0) = <<>>
  BY SubSeqEmpty
<1>3. 1 - 1 = 0 /\ 1 =< 1
  OBVIOUS
<1>4. <<n>> = <<m>> <=> n = m
  OBVIOUS
<1> QED
  BY <1>1, <1>2, <1>3, <1>4 DEF IsPrefix, Front

LEMMA LeafUnderLeaf ==
  ASSUME NEW n, NEW l, NEW m, NEW k
  PROVE  IsPrefix(<<n, l>>, <<m, k>>) <=> n = m /\ l = k
<1>1. Len(<<n, l>>) = 2 /\ Len(<<m, k>>) = 2 /\ SubSeq(<<n, l>>, 1, 2) = <<n, l>> /\ SubSeq(<<m, k>>, 1, 2) = <<m, k>>
  BY ShortPaths
<1>2. 2 =< 2
  OBVIOUS
<1>3. <<n, l>> = <<m, k>> <=> n = m /\ l = k
  OBVIOUS
<1> QED
  BY <1>1, <1>2, <1>3 DEF IsPrefix

LEMMA LeafPaths ==
  ASSUME NEW n, NEW l, NEW m, NEW k
  PROVE  /\ Len(<<n, l>>) = 2 /\ Front(<<n, l>>) = <<n>>
         /\ IsPrefix(<<n>>, <<m, k>>) <=> n = m
         /\ ~IsPrefix(<<n, l>>, <<m>>)
         /\ IsPrefix(<<n, l>>, <<m, k>>) <=> n = m /\ l = k
         /\ <<n>> # <<m, k>>
<1>1. Len(<<n, l>>) = 2 /\ Len(<<m, k>>) = 2 /\ Len(<<m>>) = 1 /\ Len(<<n>>) = 1
  BY ShortPaths
<1>2. SubSeq(<<n, l>>, 1, 1) = <<n>> /\ SubSeq(<<m, k>>, 1, 1) = <<m>> /\ SubSeq(<<n>>, 1, 1) = <<n>>
  BY ShortPaths
<1>3. IsPrefix(<<n, l>>, <<m, k>>) <=> n = m /\ l = k
  BY LeafUnderLeaf
<1>4. 2 - 1 = 1 /\ 1 =< 2 /\ ~(2 =< 1)
  OBVIOUS
<1>5. <<n>> = <<m>> <=> n = m
  OBVIOUS
<1>6. <<n>> # <<m, k>>
  OBVIOUS
<1>7. Front(<<n, l>>) = <<n>> /\ (IsPrefix(<<n>>, <<m, k>>) <=> n = m) /\ ~IsPrefix(<<n, l>>, <<m>>)
  BY <1>1, <1>2, <1>4, <1>5 DEF IsPrefix, Front
<1> QED
  BY <1>1, <1>3, <1>6, <1>7

LEMMA NodeIs ==
  ASSUME NEW p, NEW v, NEW q, NEW w
  PROVE  /\ Node(p, v).path = p /\ Node(p, v).val = v
         /\ Node(p, v) = Node(q, w) <=> p = q /\ v = w
BY DEF Node

(* A node of a ruleset is a rule or one of its settings. *)
LEMMA RuleNodeIs ==
  ASSUME NEW c, IsRuleset(c), NEW n \in c
  PROVE  \/ \E m \in Number : n = Node(<<m>>, NoValue)
         \/ \E m \in Number : \E l, v : n = Node(<<m, l>>, v) /\ Fits(l, v)
<1>1. IsRuleNode(n)
  BY DEF IsRuleset
<1>2. CASE IsRulePath(n.path) /\ n.val = NoValue
  BY <1>1, <1>2 DEF IsRuleNode, IsRulePath
<1>3. CASE IsLeafPath(n.path) /\ Fits(n.path[2], n.val)
  BY <1>1, <1>3 DEF IsRuleNode, IsLeafPath
<1> QED
  BY <1>1, <1>2, <1>3 DEF IsRuleNode

LEMMA IsARuleNode ==
  ASSUME NEW m \in Number, NEW l, NEW v
  PROVE  /\ IsRuleNode(Node(<<m>>, NoValue))
         /\ Fits(l, v) => IsRuleNode(Node(<<m, l>>, v))
BY DEF IsRuleNode, IsRulePath, IsLeafPath, Node

(* The settings of a rule. *)
LEMMA ContentIs ==
  ASSUME NEW c, IsRuleset(c), NEW n, NEW l, NEW v
  PROVE  /\ \A s \in Content(c, n) : s = <<s[1], s[2]>> /\ Fits(s[1], s[2])
         /\ <<l, v>> \in Content(c, n) <=> Node(<<n, l>>, v) \in c
<1>1. ASSUME NEW s \in Content(c, n)
      PROVE  \E k, w : s = <<k, w>> /\ Fits(k, w) /\ Node(<<n, k>>, w) \in c
  <2>1. PICK m \in c : s = <<m.path[2], m.val>> /\ m.path[1] = n /\ Len(m.path) = 2
    BY DEF Content
  <2>2. CASE \E j \in Number : m = Node(<<j>>, NoValue)
    BY <2>1, <2>2, NodeIs, RulePaths
  <2>3. ASSUME NEW j \in Number, NEW k, NEW w, m = Node(<<j, k>>, w), Fits(k, w)
        PROVE  \E x, y : s = <<x, y>> /\ Fits(x, y) /\ Node(<<n, x>>, y) \in c
    <3>1. j = n /\ s = <<k, w>>
      BY <2>1, <2>3, NodeIs
    <3> QED
      BY <2>3, <3>1
  <2> QED
    BY <2>2, <2>3, RuleNodeIs
<1>2. ASSUME Node(<<n, l>>, v) \in c PROVE <<l, v>> \in Content(c, n)
  <2> DEFINE x == Node(<<n, l>>, v)
  <2>1. x.path = <<n, l>> /\ x.val = v /\ x.path[1] = n /\ x.path[2] = l /\ Len(x.path) = 2
    BY NodeIs, LeafPaths
  <2> HIDE DEF x
  <2> QED
    BY <1>2, <2>1 DEF Content, x
<1>3. ASSUME <<l, v>> \in Content(c, n) PROVE Node(<<n, l>>, v) \in c
  <2>1. PICK k, w : <<l, v>> = <<k, w>> /\ Node(<<n, k>>, w) \in c
    BY <1>1, <1>3
  <2> QED
    BY <2>1
<1>4. ASSUME NEW s \in Content(c, n) PROVE s = <<s[1], s[2]>> /\ Fits(s[1], s[2])
  <2>1. PICK k, w : s = <<k, w>> /\ Fits(k, w)
    BY <1>1
  <2> QED
    BY <2>1
<1> QED
  BY <1>2, <1>3, <1>4

-----------------------------------------------------------------------------
(* One operation on a ruleset *)

LEMMA UnderRule ==
  ASSUME NEW c, IsRuleset(c), NEW n, NEW x \in c
  PROVE  IsPrefix(<<n>>, x.path) <=> x.path[1] = n
<1>1. ASSUME NEW m, x = Node(<<m>>, NoValue)
      PROVE  IsPrefix(<<n>>, x.path) <=> x.path[1] = n
  <2>1. x.path = <<m>> /\ <<m>>[1] = m
    BY <1>1, NodeIs
  <2>2. IsPrefix(<<n>>, <<m>>) <=> n = m
    BY RulePaths
  <2> QED
    BY <2>1, <2>2, Zenon
<1>2. ASSUME NEW m, NEW k, NEW v, x = Node(<<m, k>>, v)
      PROVE  IsPrefix(<<n>>, x.path) <=> x.path[1] = n
  <2>1. x.path = <<m, k>> /\ <<m, k>>[1] = m
    BY <1>2, NodeIs
  <2>2. IsPrefix(<<n>>, <<m, k>>) <=> n = m
    BY LeafPaths
  <2> QED
    BY <2>1, <2>2, Zenon
<1>3. \/ \E m \in Number : x = Node(<<m>>, NoValue)
      \/ \E m \in Number : \E l, v : x = Node(<<m, l>>, v) /\ Fits(l, v)
  BY RuleNodeIs
<1>4. CASE \E m \in Number : x = Node(<<m>>, NoValue)
  BY <1>1, <1>4
<1>5. CASE \E m \in Number : \E l, v : x = Node(<<m, l>>, v) /\ Fits(l, v)
  BY <1>2, <1>5
<1> QED
  BY <1>3, <1>4, <1>5

LEMMA UnderLeaf ==
  ASSUME NEW c, IsRuleset(c), NEW n, NEW l, NEW p, p = <<n, l>>, NEW x \in c
  PROVE  IsPrefix(p, x.path) <=> x.path = p
<1>1. ASSUME NEW m, x = Node(<<m>>, NoValue)
      PROVE  IsPrefix(p, x.path) <=> x.path = p
  <2>1. x.path = <<m>>
    BY <1>1, NodeIs
  <2>2. ~IsPrefix(<<n, l>>, <<m>>) /\ <<m>> # <<n, l>>
    BY LeafPaths
  <2> QED
    BY <2>1, <2>2, Zenon
<1>2. ASSUME NEW m, NEW k, NEW v, x = Node(<<m, k>>, v)
      PROVE  IsPrefix(p, x.path) <=> x.path = p
  <2>1. x.path = <<m, k>>
    BY <1>2, NodeIs
  <2>2. IsPrefix(<<n, l>>, <<m, k>>) <=> n = m /\ l = k
    BY LeafUnderLeaf
  <2>3. <<m, k>> = <<n, l>> <=> n = m /\ l = k
    OBVIOUS
  <2> QED
    BY <2>1, <2>2, <2>3, Zenon
<1>3. \/ \E m \in Number : x = Node(<<m>>, NoValue)
      \/ \E m \in Number : \E k, v : x = Node(<<m, k>>, v) /\ Fits(k, v)
  BY RuleNodeIs
<1>4. CASE \E m \in Number : x = Node(<<m>>, NoValue)
  BY <1>1, <1>4
<1>5. CASE \E m \in Number : \E k, v : x = Node(<<m, k>>, v) /\ Fits(k, v)
  BY <1>2, <1>5
<1> QED
  BY <1>3, <1>4, <1>5

LEMMA BelowRule ==
  ASSUME NEW c, IsRuleset(c), NEW n, NEW p, p = <<n>>
  PROVE  Below(c, p) = {x \in c : x.path[1] = n}
<1>1. ASSUME NEW x \in c PROVE IsPrefix(p, x.path) <=> x.path[1] = n
  BY UnderRule
<1> QED
  BY <1>1 DEF Below

LEMMA BelowLeaf ==
  ASSUME NEW c, IsRuleset(c), NEW n, NEW l, NEW p, p = <<n, l>>
  PROVE  /\ Below(c, p) = {x \in c : x.path = p}
         /\ Exists(c, p) <=> \E x \in c : x.path = p
<1>1. ASSUME NEW x \in c PROVE IsPrefix(p, x.path) <=> x.path = p
  BY UnderLeaf
<1> QED
  BY <1>1 DEF Below, Exists

(* A ruleset stays one when a node takes the place of those at its path.   *)
LEMMA WithNode ==
  ASSUME NEW c, IsRuleset(c), NEW x, IsRuleNode(x), NEW d, d \subseteq c \cup {x},
         \A y \in d : y.path = x.path => y = x
  PROVE  IsRuleset(d)
<1>1. IsFiniteSet(d)
  BY FS_AddElement, FS_Subset DEF IsRuleset
<1>2. \A y \in d : IsRuleNode(y)
  BY DEF IsRuleset
<1>3. ASSUME NEW y \in d, NEW z \in d, y.path = z.path PROVE y = z
  <2>1. CASE y = x \/ z = x
    BY <1>3, <2>1
  <2>2. CASE y # x /\ z # x
    BY <1>3, <2>2 DEF IsRuleset
  <2> QED
    BY <2>1, <2>2
<1> QED
  BY <1>1, <1>2, <1>3 DEF IsRuleset

LEMMA PartOfRuleset ==
  ASSUME NEW c, IsRuleset(c), NEW d, d \subseteq c
  PROVE  IsRuleset(d)
<1>1. IsFiniteSet(d)
  BY FS_Subset DEF IsRuleset
<1> QED
  BY <1>1 DEF IsRuleset

LEMMA DeleteIs ==
  ASSUME NEW c, NEW p
  PROVE  AfterOp(c, DeleteNode(p), {}) =
           (c \ Below(c, p))
           \cup (IF Below(c, p) # {} /\ Front(p) # <<>> /\ ~Exists(c \ Below(c, p), Front(p))
                 THEN {Node(Front(p), NoValue)} ELSE {})
<1> DEFINE op == DeleteNode(p)
<1>1. op.op # "set" /\ op.path = p /\ op.val = NoValue
  BY DEF DeleteNode, DeleteOp
<1> HIDE DEF op
<1>2. AfterOp(c, op, {}) =
        (c \ Below(c, p))
        \cup (IF Below(c, p) # {} /\ Front(p) # <<>> /\ ~Exists(c \ Below(c, p), Front(p))
              THEN {Node(Front(p), NoValue)} ELSE {})
  BY <1>1, Zenon DEF AfterOp, AfterDelete
<1> QED
  BY <1>2 DEF op

LEMMA SetIs ==
  ASSUME NEW c, NEW p, NEW v
  PROVE  AfterOp(c, SetOp(p, v), {}) =
           IF v = NoValue THEN IF Exists(c, p) THEN c ELSE c \cup {Node(p, NoValue)}
                          ELSE {x \in c : x.path # p} \cup {Node(p, v)}
<1> DEFINE op == SetOp(p, v)
<1>1. op.op = "set" /\ op.path = p /\ op.val = v
  BY DEF SetOp
<1> HIDE DEF op
<1>2. AfterOp(c, op, {}) = AfterSet(c, op, {})
  BY <1>1 DEF AfterOp
<1>3. AfterSet(c, op, {}) =
        IF v = NoValue THEN IF Exists(c, p) THEN c ELSE c \cup {Node(p, NoValue)}
                       ELSE {x \in c : x.path # p \/ p \in {}} \cup {Node(p, v)}
  BY <1>1, Zenon DEF AfterSet
<1>4. {x \in c : x.path # p \/ p \in {}} = {x \in c : x.path # p}
  OBVIOUS
<1> QED
  BY <1>2, <1>3, <1>4 DEF op

LEMMA SetNodeIs ==
  ASSUME NEW c, NEW p
  PROVE  AfterOp(c, SetNode(p), {}) = IF Exists(c, p) THEN c ELSE c \cup {Node(p, NoValue)}
<1>1. AfterOp(c, SetOp(p, NoValue), {}) =
        IF NoValue = NoValue THEN IF Exists(c, p) THEN c ELSE c \cup {Node(p, NoValue)}
                             ELSE {x \in c : x.path # p} \cup {Node(p, NoValue)}
  BY SetIs, Zenon
<1> QED
  BY <1>1 DEF SetNode

LEMMA RuleIsDeleted ==
  ASSUME NEW c, IsRuleset(c), NEW n, NEW p, p = <<n>>
  PROVE  AfterOp(c, DeleteNode(p), {}) = {x \in c : x.path[1] # n}
<1>1. Front(p) = <<>>
  BY RulePaths
<1>2. AfterOp(c, DeleteNode(p), {}) =
        (c \ Below(c, p))
        \cup (IF Below(c, p) # {} /\ Front(p) # <<>> /\ ~Exists(c \ Below(c, p), Front(p))
              THEN {Node(Front(p), NoValue)} ELSE {})
  BY DeleteIs, Zenon
<1>3. Below(c, p) = {x \in c : x.path[1] = n}
  BY BelowRule
<1> HIDE DEF Below
<1> QED
  BY <1>1, <1>2, <1>3

Without(c, path) == {x \in c : x.path # path}

LEMMA LeafIsDeleted ==
  ASSUME NEW c, IsRuleset(c), NEW n, NEW l, NEW p, p = <<n, l>>
  PROVE  \E r : r \subseteq {Node(<<n>>, NoValue)} /\ AfterOp(c, DeleteNode(p), {}) = Without(c, p) \cup r
<1> DEFINE gone == Below(c, p)
           added == IF gone # {} /\ Front(p) # <<>> /\ ~Exists(c \ gone, Front(p)) THEN {Node(Front(p), NoValue)} ELSE {}
<1>1. Front(p) = <<n>>
  BY LeafPaths
<1>2. AfterOp(c, DeleteNode(p), {}) = (c \ gone) \cup added
  BY DeleteIs, Zenon
<1>3. gone = {x \in c : x.path = p}
  BY BelowLeaf
<1>4. added \in SUBSET {Node(Front(p), NoValue)}
  OBVIOUS
<1> HIDE DEF gone, added
<1>5. c \ gone = Without(c, p)
  BY <1>3 DEF Without
<1>6. AfterOp(c, DeleteNode(p), {}) = Without(c, p) \cup added
  BY <1>2, <1>5
<1>7. added \subseteq {Node(<<n>>, NoValue)}
  BY <1>1, <1>4
<1> QED
  BY <1>6, <1>7

LEMMA RuleIsSet ==
  ASSUME NEW c, NEW p
  PROVE  \E r : r \subseteq {Node(p, NoValue)} /\ AfterOp(c, SetNode(p), {}) = c \cup r
<1>1. AfterOp(c, SetNode(p), {}) = IF Exists(c, p) THEN c ELSE c \cup {Node(p, NoValue)}
  BY SetNodeIs, Zenon
<1>2. CASE Exists(c, p)
  <2>1. AfterOp(c, SetNode(p), {}) = c \cup {} /\ {} \subseteq {Node(p, NoValue)}
    BY <1>1, <1>2
  <2> QED
    BY <2>1
<1>3. CASE ~Exists(c, p)
  <2>1. AfterOp(c, SetNode(p), {}) = c \cup {Node(p, NoValue)} /\ {Node(p, NoValue)} \subseteq {Node(p, NoValue)}
    BY <1>1, <1>3
  <2> QED
    BY <2>1
<1> QED
  BY <1>2, <1>3

LEMMA FlagIsSet ==
  ASSUME NEW c, IsRuleset(c), NEW n, NEW l, NEW p, p = <<n, l>>
  PROVE  AfterOp(c, SetNode(p), {}) =
           IF \E x \in c : x.path = p THEN c ELSE c \cup {Node(p, NoValue)}
<1>1. Exists(c, p) <=> \E x \in c : x.path = p
  BY BelowLeaf
<1>2. AfterOp(c, SetNode(p), {}) = IF Exists(c, p) THEN c ELSE c \cup {Node(p, NoValue)}
  BY SetNodeIs, Zenon
<1> HIDE DEF Exists
<1> QED
  BY <1>1, <1>2

(* Every operation of the page leaves a ruleset, and the other rules as    *)
(* they are.                                                               *)
LEMMA OpKeepsRuleset ==
  ASSUME NEW c, IsRuleset(c), NEW op, IsRuleOp(op)
  PROVE  IsRuleset(AfterOp(c, op, {}))
<1> DEFINE d == AfterOp(c, op, {})
<1>1. ASSUME NEW n \in Number, NEW e, e \subseteq c, NEW r, r \subseteq {Node(<<n>>, NoValue)}
      PROVE  IsRuleset(e \cup r)
  <2> DEFINE x == Node(<<n>>, NoValue)
  <2>1. IsRuleNode(x)
    BY IsARuleNode
  <2>2. ASSUME NEW y \in e \cup r, y.path = x.path PROVE y = x
    <3>1. CASE y \in r
      BY <1>1, <3>1
    <3>2. CASE y \in c
      <4>1. y.path = <<n>>
        BY <2>2, NodeIs
      <4>2. ASSUME NEW m, NEW k, NEW v, y = Node(<<m, k>>, v) PROVE FALSE
        <5>1. y.path = <<m, k>>
          BY <4>2, NodeIs
        <5>2. <<n>> # <<m, k>>
          BY LeafPaths
        <5> QED
          BY <4>1, <5>1, <5>2
      <4>3. PICK m \in Number : y = Node(<<m>>, NoValue)
        <5>1. \/ \E m \in Number : y = Node(<<m>>, NoValue)
              \/ \E m \in Number : \E k, v : y = Node(<<m, k>>, v) /\ Fits(k, v)
          BY <3>2, RuleNodeIs
        <5> QED
          BY <4>2, <5>1
      <4>4. <<m>> = <<n>>
        BY <4>1, <4>3, NodeIs
      <4> QED
        BY <4>3, <4>4
    <3>3. y \in c \/ y \in r
      BY <1>1, <2>2
    <3> QED
      BY <3>1, <3>2, <3>3
  <2>3. e \cup r \subseteq c \cup {x}
    BY <1>1
  <2> HIDE DEF x
  <2> QED
    BY <2>1, <2>2, <2>3, WithNode
<1>2. CASE IsRulePath(op.path) /\ op \in {SetNode(op.path), DeleteNode(op.path)}
  <2>1. PICK n \in Number : op.path = <<n>>
    BY <1>2 DEF IsRulePath
  <2>2. CASE op = SetNode(<<n>>)
    BY <1>1, <2>2, RuleIsSet
  <2>3. CASE op = DeleteNode(<<n>>)
    <3>1. d \subseteq c
      BY <2>3, RuleIsDeleted
    <3> QED
      BY <3>1, PartOfRuleset
  <2> QED
    BY <1>2, <2>1, <2>2, <2>3
<1>3. CASE IsLeafPath(op.path) /\ op = DeleteNode(op.path)
  <2> DEFINE n == op.path[1]
             l == op.path[2]
  <2>1. op.path = <<n, l>> /\ n \in Number
    BY <1>3 DEF IsLeafPath
  <2> HIDE DEF n, l
  <2> DEFINE p == op.path
             e == Without(c, p)
  <2>2. PICK r : r \subseteq {Node(<<n>>, NoValue)} /\ d = e \cup r
    <3>1. op = DeleteNode(p) /\ p = <<n, l>>
      BY <1>3, <2>1
    <3> HIDE DEF p
    <3>2. \E r : r \subseteq {Node(<<n>>, NoValue)} /\ AfterOp(c, DeleteNode(p), {}) = Without(c, p) \cup r
      BY <3>1, LeafIsDeleted
    <3> QED
      BY <3>1, <3>2
  <2>3. e \subseteq c
    BY DEF Without
  <2> HIDE DEF e
  <2>4. IsRuleset(e \cup r)
    BY <1>1, <2>1, <2>2, <2>3
  <2> QED
    BY <2>2, <2>4
<1>4. CASE IsLeafPath(op.path) /\ op = SetOp(op.path, op.val) /\ Fits(op.path[2], op.val)
  <2> DEFINE n == op.path[1]
             l == op.path[2]
  <2>1. op.path = <<n, l>> /\ n \in Number /\ op.path[2] = l
    BY <1>4 DEF IsLeafPath
  <2> HIDE DEF n, l
  <2> DEFINE v == op.val
             x == Node(<<n, l>>, v)
  <2>2. op = SetOp(<<n, l>>, v) /\ IsRuleNode(x) /\ x.path = <<n, l>>
    BY <1>4, <2>1, IsARuleNode, NodeIs
  <2> HIDE DEF v
  <2>3. CASE v # NoValue
    <3>1. d = {y \in c : y.path # <<n, l>>} \cup {x}
      BY <2>2, <2>3, SetIs
    <3>2. d \subseteq c \cup {x} /\ \A y \in d : y.path = x.path => y = x
      BY <2>2, <3>1
    <3> HIDE DEF x, d
    <3>3. IsRuleset(d)
      BY <2>2, <3>2, WithNode
    <3> QED
      BY <3>3 DEF d
  <2>4. CASE v = NoValue
    <3>1. d = IF \E y \in c : y.path = <<n, l>> THEN c ELSE c \cup {x}
      BY <2>2, <2>4, FlagIsSet DEF SetNode
    <3>2. CASE \E y \in c : y.path = <<n, l>>
      BY <3>1, <3>2
    <3>3. CASE ~\E y \in c : y.path = <<n, l>>
      <4>1. d \subseteq c \cup {x} /\ \A y \in d : y.path = x.path => y = x
        BY <2>2, <3>1, <3>3
      <4> HIDE DEF x, d
      <4>2. IsRuleset(d)
        BY <2>2, <4>1, WithNode
      <4> QED
        BY <4>2 DEF d
    <3> QED
      BY <3>2, <3>3
  <2> QED
    BY <2>3, <2>4
<1> QED
  BY <1>2, <1>3, <1>4 DEF IsRuleOp

-----------------------------------------------------------------------------
(* What one operation does to one setting *)

(* How the operations of the page look. *)
LEMMA RuleOpIs ==
  ASSUME NEW op, IsRuleOp(op)
  PROVE  \/ \E m \in Number : op = SetNode(<<m>>)
         \/ \E m \in Number : op = DeleteNode(<<m>>)
         \/ \E m \in Number : \E k : op = DeleteNode(<<m, k>>)
         \/ \E m \in Number : \E k, w : op = SetOp(<<m, k>>, w) /\ Fits(k, w)
<1>1. CASE IsRulePath(op.path) /\ op \in {SetNode(op.path), DeleteNode(op.path)}
  BY <1>1 DEF IsRulePath
<1>2. CASE IsLeafPath(op.path) /\ op = DeleteNode(op.path)
  BY <1>2 DEF IsLeafPath
<1>3. CASE IsLeafPath(op.path) /\ op = SetOp(op.path, op.val) /\ Fits(op.path[2], op.val)
  <2>1. op.path = <<op.path[1], op.path[2]>> /\ op.path[1] \in Number
    BY <1>3 DEF IsLeafPath
  <2> QED
    BY <1>3, <2>1
<1> QED
  BY <1>1, <1>2, <1>3 DEF IsRuleOp

(* Such an operation has a path. *)
LEMMA OpPath ==
  ASSUME NEW p, NEW v
  PROVE  SetNode(p).path = p /\ DeleteNode(p).path = p /\ SetOp(p, v).path = p
BY DEF SetNode, DeleteNode, SetOp, DeleteOp

(* A setting of a leaf takes the place of the one before. *)
LEMMA LeafIsSet ==
  ASSUME NEW c, IsRuleset(c), NEW n, NEW l, NEW p, p = <<n, l>>, NEW v
  PROVE  \/ AfterOp(c, SetOp(p, v), {}) = Without(c, p) \cup {Node(p, v)}
         \/ v = NoValue /\ AfterOp(c, SetOp(p, v), {}) = c /\ \E x \in c : x.path = p
<1>1. CASE v # NoValue
  BY <1>1, SetIs DEF Without
<1>2. CASE v = NoValue
  <2>1. AfterOp(c, SetNode(p), {}) = IF \E x \in c : x.path = p THEN c ELSE c \cup {Node(p, NoValue)}
    BY FlagIsSet
  <2>2. SetNode(p) = SetOp(p, v)
    BY <1>2 DEF SetNode
  <2>3. CASE \E x \in c : x.path = p
    BY <1>2, <2>1, <2>2, <2>3
  <2>4. CASE ~\E x \in c : x.path = p
    <3>1. Without(c, p) = c
      BY <2>4 DEF Without
    <3> QED
      BY <1>2, <2>1, <2>2, <2>4, <3>1
  <2> QED
    BY <2>3, <2>4
<1> QED
  BY <1>1, <1>2

(* An operation on another path leaves a setting as it is. *)
LEMMA OtherOp ==
  ASSUME NEW c, IsRuleset(c), NEW op, IsRuleOp(op), NEW n, NEW l, NEW v,
         op.path # <<n>>, op.path # <<n, l>>
  PROVE  Node(<<n, l>>, v) \in AfterOp(c, op, {}) <=> Node(<<n, l>>, v) \in c
<1> DEFINE x == Node(<<n, l>>, v)
           d == AfterOp(c, op, {})
<1>1. x.path = <<n, l>> /\ x.path[1] = n
  BY NodeIs
<1>2. \A m : x.path # <<m>>
  BY <1>1, LeafPaths
<1>3. \A y : x.path # y.path => x # y
  OBVIOUS
<1> HIDE DEF x, d
<1>4. ASSUME NEW m \in Number, op = SetNode(<<m>>) PROVE x \in d <=> x \in c
  <2> DEFINE p == <<m>>
  <2>1. x # Node(p, NoValue)
    BY <1>2, <1>3, NodeIs
  <2>2. op = SetNode(p)
    BY <1>4
  <2> HIDE DEF p
  <2>3. PICK r : r \subseteq {Node(p, NoValue)} /\ AfterOp(c, SetNode(p), {}) = c \cup r
    BY RuleIsSet
  <2> QED
    BY <2>1, <2>2, <2>3 DEF d
<1>5. ASSUME NEW m \in Number, op = DeleteNode(<<m>>) PROVE x \in d <=> x \in c
  <2> DEFINE p == <<m>>
  <2>1. op = DeleteNode(p) /\ p = <<m>>
    BY <1>5
  <2>2. m # n
    BY <2>1, OpPath
  <2> HIDE DEF p
  <2>3. AfterOp(c, DeleteNode(p), {}) = {y \in c : y.path[1] # m}
    BY <2>1, RuleIsDeleted
  <2>4. d = {y \in c : y.path[1] # m}
    BY <2>1, <2>3 DEF d
  <2> QED
    BY <1>1, <2>2, <2>4
<1>6. ASSUME NEW m \in Number, NEW k, op = DeleteNode(<<m, k>>) PROVE x \in d <=> x \in c
  <2> DEFINE p == <<m, k>>
  <2>1. op = DeleteNode(p) /\ p = <<m, k>>
    BY <1>6
  <2>2. x.path # p
    BY <1>1, <2>1, OpPath
  <2> HIDE DEF p
  <2>3. PICK r : r \subseteq {Node(<<m>>, NoValue)} /\ AfterOp(c, DeleteNode(p), {}) = Without(c, p) \cup r
    BY <2>1, LeafIsDeleted
  <2>4. x # Node(<<m>>, NoValue)
    BY <1>2, <1>3, NodeIs
  <2>5. x \in Without(c, p) <=> x \in c
    BY <2>2 DEF Without
  <2> QED
    BY <2>1, <2>3, <2>4, <2>5 DEF d
<1>7. ASSUME NEW m \in Number, NEW k, NEW w, op = SetOp(<<m, k>>, w) PROVE x \in d <=> x \in c
  <2> DEFINE p == <<m, k>>
  <2>1. op = SetOp(p, w) /\ p = <<m, k>>
    BY <1>7
  <2>2. x.path # p
    BY <1>1, <2>1, OpPath
  <2> HIDE DEF p
  <2>3. \/ AfterOp(c, SetOp(p, w), {}) = Without(c, p) \cup {Node(p, w)}
        \/ AfterOp(c, SetOp(p, w), {}) = c
    BY <2>1, LeafIsSet
  <2>4. x # Node(p, w)
    BY <1>3, <2>2, NodeIs
  <2>5. x \in Without(c, p) <=> x \in c
    BY <2>2 DEF Without
  <2> QED
    BY <2>1, <2>3, <2>4, <2>5 DEF d
<1>8. x \in d <=> x \in c
  <2>1. \/ \E m \in Number : op = SetNode(<<m>>)
        \/ \E m \in Number : op = DeleteNode(<<m>>)
        \/ \E m \in Number : \E k : op = DeleteNode(<<m, k>>)
        \/ \E m \in Number : \E k, w : op = SetOp(<<m, k>>, w) /\ Fits(k, w)
    BY RuleOpIs
  <2>2. CASE \E m \in Number : op = SetNode(<<m>>)
    BY <1>4, <2>2
  <2>3. CASE \E m \in Number : op = DeleteNode(<<m>>)
    BY <1>5, <2>3
  <2>4. CASE \E m \in Number : \E k : op = DeleteNode(<<m, k>>)
    BY <1>6, <2>4
  <2>5. CASE \E m \in Number : \E k, w : op = SetOp(<<m, k>>, w) /\ Fits(k, w)
    BY <1>7, <2>5
  <2> QED
    BY <2>1, <2>2, <2>3, <2>4, <2>5
<1> QED
  BY <1>8 DEF x, d

(* A deleted rule has no settings. *)
LEMMA NothingLeft ==
  ASSUME NEW c, IsRuleset(c), NEW n, NEW l, NEW v, NEW p, p = <<n>>
  PROVE  Node(<<n, l>>, v) \notin AfterOp(c, DeleteNode(p), {})
<1> DEFINE x == Node(<<n, l>>, v)
<1>1. x.path[1] = n
  BY NodeIs
<1> HIDE DEF x
<1>2. AfterOp(c, DeleteNode(p), {}) = {y \in c : y.path[1] # n}
  BY RuleIsDeleted
<1>3. x \notin AfterOp(c, DeleteNode(p), {})
  BY <1>1, <1>2
<1> QED
  BY <1>3 DEF x

(* What a field that shows `value` stands for. *)
Shows(leaf, value, v) == value # Absent /\ v = IF leaf = "log" THEN NoValue ELSE value

(* The operation for a field. *)
LEMMA FieldOpIs ==
  ASSUME NEW n \in Number, NEW l \in FormLeaves, NEW value
  PROVE  /\ FieldOp(n, l, value).path = <<n, l>>
         /\ IsRuleOp(FieldOp(n, l, value))
<1> DEFINE p == <<n, l>>
           op == FieldOp(n, l, value)
<1>1. IsLeafPath(p) /\ p[2] = l
  BY DEF IsLeafPath
<1> HIDE DEF p
<1>2. CASE value = Absent
  <2>1. op = DeleteNode(p) /\ op.path = p
    BY <1>2, OpPath DEF FieldOp, p
  <2> QED
    BY <1>1, <2>1 DEF IsRuleOp, p
<1>3. CASE value # Absent /\ l = "log"
  <2>1. op = SetOp(p, NoValue) /\ op.path = p
    BY <1>3, OpPath DEF FieldOp, p, SetNode
  <2>2. op.val = NoValue
    BY <2>1 DEF SetOp
  <2> QED
    BY <1>1, <1>3, <2>1, <2>2 DEF IsRuleOp, p, Fits
<1>4. CASE value # Absent /\ l # "log"
  <2>1. op = SetOp(p, value) /\ op.path = p
    BY <1>4, OpPath DEF FieldOp, p
  <2>2. op.val = value
    BY <2>1 DEF SetOp
  <2> QED
    BY <1>1, <1>4, <2>1, <2>2 DEF IsRuleOp, p, Fits, Absent
<1> QED
  BY <1>2, <1>3, <1>4

(* Afterwards the setting is what the field shows. *)
LEMMA FieldIsSaved ==
  ASSUME NEW c, IsRuleset(c), NEW n, NEW l \in FormLeaves, NEW value, NEW v
  PROVE  Node(<<n, l>>, v) \in AfterOp(c, FieldOp(n, l, value), {}) <=> Shows(l, value, v)
<1> DEFINE p == <<n, l>>
           d == AfterOp(c, FieldOp(n, l, value), {})
           x == Node(p, v)
<1>1. p = <<n, l>> /\ x.path = p
  BY NodeIs
<1>2. \A w : x = Node(p, w) <=> v = w
  BY NodeIs
<1>3. x \notin Without(c, p)
  BY <1>1 DEF Without
<1>4. CASE value = Absent
  <2>1. FieldOp(n, l, value) = DeleteNode(p)
    BY <1>4 DEF FieldOp
  <2> HIDE DEF p
  <2>2. PICK r : r \subseteq {Node(<<n>>, NoValue)} /\ AfterOp(c, DeleteNode(p), {}) = Without(c, p) \cup r
    BY <1>1, LeafIsDeleted
  <2>3. x # Node(<<n>>, NoValue)
    <3>1. Node(<<n>>, NoValue).path = <<n>> /\ <<n>> # p
      BY <1>1, NodeIs, LeafPaths
    <3> QED
      BY <1>1, <3>1
  <2>4. x \notin d
    BY <1>3, <2>1, <2>2, <2>3
  <2> QED
    BY <1>4, <2>4 DEF Shows, p
<1>5. ASSUME NEW w, FieldOp(n, l, value) = SetOp(p, w), Fits(l, w), w = NoValue => l = "log"
      PROVE  x \in d <=> v = w
  <2> HIDE DEF p
  <2>1. \/ AfterOp(c, SetOp(p, w), {}) = Without(c, p) \cup {Node(p, w)}
        \/ w = NoValue /\ AfterOp(c, SetOp(p, w), {}) = c /\ \E y \in c : y.path = p
    BY <1>1, LeafIsSet
  <2>2. CASE AfterOp(c, SetOp(p, w), {}) = Without(c, p) \cup {Node(p, w)}
    BY <1>2, <1>3, <1>5, <2>2
  <2>3. CASE w = NoValue /\ AfterOp(c, SetOp(p, w), {}) = c /\ \E y \in c : y.path = p
    <3>1. PICK y \in c : y.path = p
      BY <2>3
    <3>2. y = Node(p, y.val) /\ IsRuleNode(y)
      BY <3>1 DEF IsRuleset, IsRuleNode
    <3>3. ~IsRulePath(p) /\ p[2] = l
      BY <1>1, LeafPaths DEF IsRulePath
    <3>4. Fits(l, y.val)
      BY <3>1, <3>2, <3>3 DEF IsRuleNode
    <3>5. y.val = NoValue
      BY <1>5, <2>3, <3>4 DEF Fits
    <3>6. x \in c => x = y
      BY <1>1, <3>1 DEF IsRuleset
    <3>7. x \in c <=> v = NoValue
      BY <1>2, <3>1, <3>2, <3>5, <3>6
    <3> QED
      BY <1>5, <2>3, <3>7
  <2> QED
    BY <2>1, <2>2, <2>3
<1>6. CASE value # Absent /\ l = "log"
  <2>1. FieldOp(n, l, value) = SetOp(p, NoValue) /\ Fits(l, NoValue)
    BY <1>6 DEF FieldOp, SetNode, Fits
  <2>2. x \in d <=> v = NoValue
    BY <1>5, <1>6, <2>1
  <2> QED
    BY <1>6, <2>2 DEF Shows
<1>7. CASE value # Absent /\ l # "log"
  <2>1. FieldOp(n, l, value) = SetOp(p, value) /\ Fits(l, value)
    BY <1>7 DEF FieldOp, Fits, Absent
  <2>2. x \in d <=> v = value
    BY <1>5, <1>7, <2>1 DEF Absent
  <2> QED
    BY <1>7, <2>2 DEF Shows
<1> QED
  BY <1>4, <1>6, <1>7

-----------------------------------------------------------------------------
(* What a commit does to one setting *)

(* The rulesets in between. *)
LEMMA RulesetRun ==
  ASSUME NEW c, IsRuleset(c), NEW ops, NEW n \in Nat, DOMAIN ops = 1..n, \A i \in 1..n : IsRuleOp(ops[i])
  PROVE  \E V : (\A d \in V : IsRuleset(d)) /\ AfterOpsRuns(V, c, ops, {}, n)
<1> DEFINE W == c \cup {Node(ops[i].path, ops[i].val) : i \in 1..n} \cup {Node(Front(ops[i].path), NoValue) : i \in 1..n}
           V == {d \in SUBSET W : IsRuleset(d)}
<1>1. c \in V
  OBVIOUS
<1>2. ASSUME NEW d \in V, NEW i \in 1..n PROVE AfterOp(d, ops[i], {}) \in V
  <2>1. IsRuleset(AfterOp(d, ops[i], {}))
    BY OpKeepsRuleset
  <2> DEFINE op == ops[i]
  <2>2. Node(op.path, op.val) \in W /\ Node(Front(op.path), NoValue) \in W /\ d \subseteq W
    OBVIOUS
  <2> HIDE DEF W, op
  <2>3. CASE op.op = "set"
    <3>1. AfterOp(d, op, {}) \subseteq d \cup {Node(op.path, op.val)}
      BY <2>3 DEF AfterOp, AfterSet
    <3> QED
      BY <2>1, <2>2, <3>1 DEF op
  <2>4. CASE op.op # "set"
    <3>1. AfterOp(d, op, {}) \subseteq d \cup {Node(Front(op.path), NoValue)}
      BY <2>4, Zenon DEF AfterOp, AfterDelete
    <3> QED
      BY <2>1, <2>2, <3>1 DEF op
  <2> QED
    BY <2>3, <2>4
<1>3. \A d \in V : IsRuleset(d)
  OBVIOUS
<1> HIDE DEF V
<1>4. AfterOpsRuns(V, c, ops, {}, n)
  BY <1>1, <1>2, AfterOpsRun
<1> QED
  BY <1>3, <1>4

(* A sequence of operations on rules and their settings. *)
RuleOps(ops, k) == k \in Nat /\ DOMAIN ops = 1..k /\ \A i \in 1..k : IsRuleOp(ops[i])

(* An operation that may disturb a setting: on the rule or on the setting. *)
MayDisturb(op, n, l) == op.path = <<n>> \/ op.path = <<n, l>>

(* Among the operations, o alone decides whether x is there: when it is in R. *)
Decides(ops, k, x, o, R) ==
  /\ \A i \in 1..k : ops[i] # o => \A d : IsRuleset(d) => (x \in AfterOp(d, ops[i], {}) <=> x \in d)
  /\ \A d : IsRuleset(d) => (x \in AfterOp(d, o, {}) <=> x \in R)

(* When all operations on a setting are one and the same, it is what that  *)
(* operation makes it; without one it stays as it is.                      *)
LEMMA SettingAfterOps ==
  ASSUME NEW c, IsRuleset(c), NEW ops, NEW n, RuleOps(ops, n),
         NEW x, NEW o, NEW R, Decides(ops, n, x, o, R)
  PROVE  /\ (\E i \in 1..n : ops[i] = o) => (x \in AfterOps(c, ops, {}) <=> x \in R)
         /\ (\A i \in 1..n : ops[i] # o) => (x \in AfterOps(c, ops, {}) <=> x \in c)
<1> USE DEF RuleOps, Decides
<1>1. PICK V : (\A d \in V : IsRuleset(d)) /\ AfterOpsRuns(V, c, ops, {}, n)
  BY RulesetRun
<1>2. PICK run \in [0..n -> V] : /\ run[0] = c
                                 /\ \A i \in 1..n : run[i] = AfterOp(run[i - 1], ops[i], {})
                                 /\ AfterOps(c, ops, {}) = run[n]
  BY <1>1 DEF AfterOpsRuns
<1> DEFINE T == {k \in 0..n : x \in run[k] <=> x \in IF \E i \in 1..k : ops[i] = o THEN R ELSE c}
<1>3. 0 \in T
  BY <1>2
<1>4. ASSUME NEW k \in 0..(n - 1), k \in T PROVE k + 1 \in T
  <2>1. k + 1 \in 1..n /\ k + 1 \in 0..n /\ (k + 1) - 1 = k /\ k \in 0..n
    OBVIOUS
  <2>2. run[k + 1] = AfterOp(run[k], ops[k + 1], {}) /\ IsRuleset(run[k]) /\ IsRuleOp(ops[k + 1])
    BY <1>1, <1>2, <2>1
  <2>3. CASE ops[k + 1] = o
    <3>1. x \in run[k + 1] <=> x \in R
      BY <2>2, <2>3
    <3>2. \E i \in 1..(k + 1) : ops[i] = o
      BY <2>1, <2>3
    <3> QED
      BY <2>1, <3>1, <3>2
  <2>4. CASE ops[k + 1] # o
    <3>1. x \in run[k + 1] <=> x \in run[k]
      BY <2>1, <2>2, <2>4
    <3>2. (\E i \in 1..(k + 1) : ops[i] = o) <=> \E i \in 1..k : ops[i] = o
      BY <2>1, <2>4
    <3> QED
      BY <1>4, <2>1, <3>1, <3>2
  <2> QED
    BY <2>3, <2>4
<1>5. n \in T
  <2> HIDE DEF T
  <2>1. \A k \in 0..n : k \in T
    BY <1>3, <1>4, Induction
  <2> QED
    BY <2>1
<1> QED
  BY <1>2, <1>5

-----------------------------------------------------------------------------
(* What is queued *)

(* The elements of a sequence. *)
LEMMA RangeIs ==
  ASSUME NEW S, NEW s \in Seq(S)
  PROVE  /\ Range(s) \subseteq S
         /\ s \in Seq(Range(s))
         /\ \A x : x \in Range(s) <=> \E i \in 1..Len(s) : s[i] = x
<1>1. DOMAIN s = 1..Len(s) /\ Len(s) \in Nat /\ \A i \in 1..Len(s) : s[i] \in S
  OBVIOUS
<1>2. s \in [1..Len(s) -> Range(s)]
  BY <1>1 DEF Range
<1>3. s \in Seq(Range(s))
  BY <1>1, <1>2
<1> QED
  BY <1>1, <1>3 DEF Range

LEMMA ConcatRange ==
  ASSUME NEW S, NEW s \in Seq(S), NEW t \in Seq(S)
  PROVE  s \o t \in Seq(S) /\ Range(s \o t) = Range(s) \cup Range(t)
<1>1. /\ s \o t \in Seq(S) /\ Len(s \o t) = Len(s) + Len(t)
      /\ \A i \in 1..(Len(s) + Len(t)) : (s \o t)[i] = IF i =< Len(s) THEN s[i] ELSE t[i - Len(s)]
  BY ConcatProperties
<1>2. Len(s) \in Nat /\ Len(t) \in Nat
  OBVIOUS
<1> DEFINE u == s \o t
<1>3. /\ \A x : x \in Range(s) <=> \E i \in 1..Len(s) : s[i] = x
      /\ \A x : x \in Range(t) <=> \E i \in 1..Len(t) : t[i] = x
  BY RangeIs
<1>4. u \in Seq(S) /\ Len(u) = Len(s) + Len(t)
      /\ \A i \in 1..(Len(s) + Len(t)) : u[i] = IF i =< Len(s) THEN s[i] ELSE t[i - Len(s)]
  BY <1>1
<1> HIDE DEF u
<1>5. \A x : x \in Range(u) <=> \E i \in 1..Len(u) : u[i] = x
  BY <1>4, RangeIs
<1>6. ASSUME NEW x \in Range(s) PROVE x \in Range(u)
  <2>1. PICK i \in 1..Len(s) : s[i] = x
    BY <1>3
  <2>2. i \in 1..Len(u) /\ u[i] = x
    BY <1>2, <1>4, <2>1
  <2> QED
    BY <1>5, <2>2
<1>7. ASSUME NEW x \in Range(t) PROVE x \in Range(u)
  <2>1. PICK i \in 1..Len(t) : t[i] = x
    BY <1>3
  <2> DEFINE j == Len(s) + i
  <2>2. j \in 1..(Len(s) + Len(t)) /\ ~(j =< Len(s)) /\ j - Len(s) = i
    BY <1>2, <2>1
  <2> HIDE DEF j
  <2>3. j \in 1..Len(u) /\ u[j] = x
    BY <1>4, <2>1, <2>2
  <2> QED
    BY <1>5, <2>3
<1>8. ASSUME NEW x \in Range(u) PROVE x \in Range(s) \cup Range(t)
  <2>1. PICK i \in 1..Len(u) : u[i] = x
    BY <1>5, <1>8
  <2>2. CASE i =< Len(s)
    <3>1. i \in 1..Len(s) /\ s[i] = x
      BY <1>2, <1>4, <2>1, <2>2
    <3> QED
      BY <1>3, <3>1
  <2>3. CASE ~(i =< Len(s))
    <3>1. i - Len(s) \in 1..Len(t) /\ t[i - Len(s)] = x
      BY <1>2, <1>4, <2>1, <2>3
    <3> QED
      BY <1>3, <3>1
  <2> QED
    BY <2>2, <2>3
<1>9. Range(u) = Range(s) \cup Range(t)
  BY <1>6, <1>7, <1>8
<1> QED
  BY <1>4, <1>9 DEF u

LEMMA RuleOpType ==
  ASSUME NEW O, \A op \in O : IsRuleOp(op)
  PROVE  \E paths, vals : O \subseteq OpsAt(paths, vals)
<1> DEFINE paths == {op.path : op \in O}
           vals == {op.val : op \in O}
<1>1. ASSUME NEW op \in O PROVE op \in OpsAt(paths, vals)
  <2>1. op.path \in paths /\ op.val \in vals
    OBVIOUS
  <2>2. \/ op = SetNode(op.path)
        \/ op = DeleteNode(op.path)
        \/ op = SetOp(op.path, op.val)
    BY DEF IsRuleOp
  <2>3. op = [op |-> "set", path |-> op.path, val |-> op.val] \/ op = [op |-> "delete", path |-> op.path, val |-> op.val]
    BY <2>2 DEF SetNode, DeleteNode, SetOp, DeleteOp
  <2> HIDE DEF paths, vals
  <2> QED
    BY <2>1, <2>3 DEF OpsAt
<1> HIDE DEF paths, vals
<1> QED
  BY <1>1

(* What add() queues: the operation, unless it takes back a delete. *)
LEMMA AddedRange ==
  ASSUME NEW O, \A op \in O : IsRuleOp(op), NEW q \in Seq(O), NEW op \in O
  PROVE  /\ Add(q, op) \in Seq(O)
         /\ (op = SetNode(op.path) => DeleteNode(op.path) \notin O) => Range(Add(q, op)) = Range(q) \cup {op}
<1>1. PICK paths, vals : O \subseteq OpsAt(paths, vals)
  BY RuleOpType
<1>2. q \in Seq(OpsAt(paths, vals)) /\ op \in OpsAt(paths, vals)
  BY <1>1, SeqMonotonic
<1> DEFINE appends == Add(q, op) = Append(q, op)
           repeats == Add(q, op) = q /\ q # <<>> /\ q[Len(q)] = op
           cancels == op = SetNode(op.path) /\ \E k \in 1..Len(q) : q[k] = DeleteNode(op.path) /\ Add(q, op) = RemoveAt(q, k)
<1>3. repeats \/ appends \/ cancels
  BY <1>2, AddIs
<1>4. CASE repeats
  <2>1. Len(q) \in 1..Len(q) /\ Add(q, op) = q
    BY <1>4
  <2>2. op \in Range(q)
    BY <1>4, <2>1, RangeIs
  <2> QED
    BY <2>1, <2>2
<1>5. CASE appends
  <2>1. Append(q, op) = q \o <<op>> /\ <<op>> \in Seq(O)
    OBVIOUS
  <2>2. Range(<<op>>) = {op}
    BY DEF Range
  <2>3. q \o <<op>> \in Seq(O) /\ Range(q \o <<op>>) = Range(q) \cup Range(<<op>>)
    BY <2>1, ConcatRange
  <2> QED
    BY <1>5, <2>1, <2>2, <2>3
<1>6. CASE cancels
  <2>1. PICK k \in 1..Len(q) : q[k] = DeleteNode(op.path) /\ Add(q, op) = RemoveAt(q, k)
    BY <1>6
  <2>2. q[k] \in O
    OBVIOUS
  <2>3. RemoveAt(q, k) \in Seq(O)
    BY RemoveAtIs
  <2> QED
    BY <1>6, <2>1, <2>2, <2>3
<1> QED
  BY <1>3, <1>4, <1>5, <1>6

(* What a gesture queues: its operations, unless one takes back a delete. *)
LEMMA AddedAllRange ==
  ASSUME NEW O, \A op \in O : IsRuleOp(op), NEW q \in Seq(O), NEW ops \in Seq(O)
  PROVE  /\ AddAll(q, ops) \in Seq(O)
         /\ (\A op \in O : op = SetNode(op.path) => DeleteNode(op.path) \notin O) =>
              Range(AddAll(q, ops)) = Range(q) \cup Range(ops)
<1> DEFINE n == Len(ops)
           V == Seq(O)
<1>1. n \in Nat /\ DOMAIN ops = 1..n /\ \A i \in 1..n : ops[i] \in O
  OBVIOUS
<1>2. q \in V /\ \A r \in V, i \in 1..n : Add(r, ops[i]) \in V
  BY <1>1, AddedRange
<1> HIDE DEF n, V
<1>3. PICK run \in [0..n -> V] : /\ run[0] = q
                                 /\ \A i \in 1..n : run[i] = Add(run[i - 1], ops[i])
                                 /\ AddAll(q, ops) = run[n]
  <2>1. AddAllRuns(V, q, ops, n)
    BY <1>1, <1>2, AddAllRun
  <2> QED
    BY <2>1 DEF AddAllRuns
<1>4. run[n] \in Seq(O)
  BY <1>1, <1>3 DEF V
<1>5. ASSUME \A op \in O : op = SetNode(op.path) => DeleteNode(op.path) \notin O
      PROVE  Range(run[n]) = Range(q) \cup Range(ops)
  <2> DEFINE T == {k \in 0..n : Range(run[k]) = Range(q) \cup {ops[i] : i \in 1..k}}
  <2>1. 0 \in T
    BY <1>1, <1>3
  <2>2. ASSUME NEW k \in 0..(n - 1), k \in T PROVE k + 1 \in T
    <3>1. k + 1 \in 1..n /\ k + 1 \in 0..n /\ (k + 1) - 1 = k /\ k \in 0..n
      BY <1>1
    <3>2. run[k + 1] = Add(run[k], ops[k + 1]) /\ run[k] \in Seq(O) /\ ops[k + 1] \in O
      BY <1>1, <1>3, <3>1 DEF V
    <3>3. Range(run[k + 1]) = Range(run[k]) \cup {ops[k + 1]}
      <4> DEFINE r == run[k]
                 op == ops[k + 1]
      <4>1. r \in Seq(O) /\ op \in O /\ (op = SetNode(op.path) => DeleteNode(op.path) \notin O)
        BY <1>5, <3>2
      <4> HIDE DEF r, op
      <4>2. Range(Add(r, op)) = Range(r) \cup {op}
        BY <4>1, AddedRange
      <4> QED
        BY <3>2, <4>2 DEF r, op
    <3>4. {ops[i] : i \in 1..(k + 1)} = {ops[i] : i \in 1..k} \cup {ops[k + 1]}
      BY <3>1
    <3> QED
      BY <2>2, <3>1, <3>3, <3>4
  <2>3. n \in T
    <3> HIDE DEF T
    <3>1. \A k \in 0..n : k \in T
      BY <1>1, <2>1, <2>2, Induction
    <3> QED
      BY <1>1, <3>1
  <2>4. Range(ops) = {ops[i] : i \in 1..n}
    BY <1>1 DEF Range
  <2> QED
    BY <2>3, <2>4
<1> QED
  BY <1>3, <1>4, <1>5

-----------------------------------------------------------------------------
(* The rules in order *)

Rank(S, n) == Cardinality({m \in S : m < n})

LEMMA RankIsUnique ==
  ASSUME NEW S, S \subseteq Nat, IsFiniteSet(S), NEW m \in S, NEW n \in S, m < n
  PROVE  Rank(S, m) \in Nat /\ Rank(S, n) \in Nat /\ Rank(S, m) < Rank(S, n)
<1> DEFINE below == {k \in S : k < m}
           above == {k \in S : k < n}
<1>1. below \subseteq S /\ above \subseteq S /\ m \notin below /\ below \cup {m} \subseteq above
  <2>1. m \in Nat /\ n \in Nat /\ \A k \in S : k \in Nat
    OBVIOUS
  <2>2. ASSUME NEW k \in below PROVE k \in above
    <3>1. k \in S /\ k \in Nat /\ k < m
      BY <2>1
    <3>2. k < n
      BY <2>1, <3>1
    <3> QED
      BY <3>1, <3>2
  <2>3. m \in above /\ m \notin below
    BY <2>1
  <2>4. below \subseteq S /\ above \subseteq S
    OBVIOUS
  <2> HIDE DEF below, above
  <2> QED
    BY <2>2, <2>3, <2>4
<1>2. Rank(S, m) = Cardinality(below) /\ Rank(S, n) = Cardinality(above)
  BY DEF Rank
<1> HIDE DEF below, above
<1>3. IsFiniteSet(below) /\ IsFiniteSet(above) /\ Cardinality(below) \in Nat /\ Cardinality(above) \in Nat
  BY <1>1, FS_Subset, FS_CardinalityType
<1>4. Cardinality(below \cup {m}) = Cardinality(below) + 1
  BY <1>1, <1>3, FS_AddElement
<1>5. Cardinality(below \cup {m}) =< Cardinality(above)
  BY <1>1, <1>3, FS_Subset
<1> QED
  BY <1>2, <1>3, <1>4, <1>5

LEMMA RankIsBounded ==
  ASSUME NEW S, S \subseteq Nat, IsFiniteSet(S), NEW n \in S
  PROVE  Rank(S, n) + 1 \in 1..Cardinality(S)
<1> DEFINE below == {k \in S : k < n}
<1>1. below \subseteq S /\ n \notin below /\ below \cup {n} \subseteq S
  OBVIOUS
<1>2. Rank(S, n) = Cardinality(below)
  BY DEF Rank
<1> HIDE DEF below
<1>3. IsFiniteSet(below) /\ Cardinality(below) \in Nat /\ Cardinality(S) \in Nat
  BY <1>1, FS_Subset, FS_CardinalityType
<1>4. Cardinality(below \cup {n}) = Cardinality(below) + 1
  BY <1>1, <1>3, FS_AddElement
<1>5. Cardinality(below \cup {n}) =< Cardinality(S)
  BY <1>1, FS_Subset
<1> QED
  BY <1>2, <1>3, <1>4, <1>5

LEMMA RankIsTaken ==
  ASSUME NEW S, S \subseteq Nat, IsFiniteSet(S)
  PROVE  \A i \in 1..Cardinality(S) : \E n \in S : Rank(S, n) = i - 1
<1> DEFINE T == {s \in SUBSET S : \A i \in 1..Cardinality(s) : \E n \in s : Rank(s, n) = i - 1}
<1>1. ASSUME NEW s \in SUBSET S, \A r \in SUBSET s : r # s => r \in T PROVE s \in T
  <2>1. IsFiniteSet(s) /\ s \subseteq Nat /\ Cardinality(s) \in Nat
    BY FS_Subset, FS_CardinalityType
  <2>2. CASE s = {}
    <3>1. Cardinality(s) = 0
      BY <2>2, FS_EmptySet
    <3> QED
      BY <3>1
  <2>3. CASE s # {}
    <3> DEFINE x == Max(s)
               r == s \ {x}
    <3>1. x \in s /\ \A y \in s : y =< x
      BY <2>1, <2>3, MaxOfFinite
    <3> HIDE DEF x
    <3>2. Cardinality(r) = Cardinality(s) - 1
      BY <2>1, <3>1, FS_RemoveElement
    <3>3. r \in SUBSET s /\ r # s /\ r \in SUBSET S
      BY <3>1
    <3>4. \A i \in 1..Cardinality(r) : \E n \in r : Rank(r, n) = i - 1
      BY <1>1, <3>3
    <3>5. ASSUME NEW n \in r PROVE Rank(s, n) = Rank(r, n)
      <4>1. {m \in s : m < n} = {m \in r : m < n}
        BY <2>1, <3>1
      <4> QED
        BY <4>1 DEF Rank
    <3>6. Rank(s, x) = Cardinality(s) - 1
      <4>1. {m \in s : m < x} = r
        <5>1. \A y \in s : y \in Nat /\ (y < x <=> y # x)
          BY <2>1, <3>1
        <5> QED
          BY <5>1
      <4> QED
        BY <3>2, <4>1 DEF Rank
    <3>7. ASSUME NEW i \in 1..Cardinality(s) PROVE \E n \in s : Rank(s, n) = i - 1
      <4>1. CASE i = Cardinality(s)
        BY <3>1, <3>6, <4>1
      <4>2. CASE i # Cardinality(s)
        <5>1. i \in 1..Cardinality(r)
          BY <2>1, <3>2, <4>2
        <5>2. PICK n \in r : Rank(r, n) = i - 1
          BY <3>4, <5>1
        <5>3. n \in s /\ Rank(s, n) = i - 1
          BY <3>3, <3>5, <5>2
        <5> QED
          BY <5>3
      <4> QED
        BY <4>1, <4>2
    <3> QED
      BY <3>7
  <2> QED
    BY <2>2, <2>3
<1>2. \A s \in SUBSET S : s \in T
  <2> HIDE DEF T
  <2> QED
    BY <1>1, SubsetInduction
<1> QED
  BY <1>2

RuleNumbers == {n.path[1] : n \in router}

(* The page shows every rule, by its number. *)
LEMMA ShownIs ==
  ASSUME IsRuleset(router)
  PROVE  Shown \in Seq(Number) /\ Range(Shown) = RuleNumbers
<1> DEFINE N == Cardinality(RuleNumbers)
<1>1. RuleNumbers \subseteq Number
  <2> SUFFICES ASSUME NEW n \in router PROVE n.path[1] \in Number
    BY DEF RuleNumbers
  <2> QED
    BY DEF IsRuleset, IsRuleNode, IsRulePath, IsLeafPath
<1>2. IsFiniteSet(RuleNumbers)
  <2> DEFINE first == [n \in router |-> n.path[1]]
  <2>1. first \in Surjection(router, RuleNumbers)
    BY DEF Surjection, RuleNumbers
  <2> QED
    BY <2>1, FS_Surjection DEF IsRuleset, ExistsSurjection
<1>3. RuleNumbers \subseteq Nat /\ N \in Nat
  BY <1>1, <1>2, FS_CardinalityType DEF Number
<1>4. Shown = [i \in 1..N |-> CHOOSE n \in RuleNumbers : Rank(RuleNumbers, n) = i - 1]
  BY Zenon DEF Shown, Rank, RuleNumbers
<1> HIDE DEF N, RuleNumbers, Shown
<1>5. ASSUME NEW i \in 1..N PROVE Shown[i] \in RuleNumbers /\ Rank(RuleNumbers, Shown[i]) = i - 1
  <2>1. \E n \in RuleNumbers : Rank(RuleNumbers, n) = i - 1
    BY <1>2, <1>3, RankIsTaken DEF N
  <2>2. Shown[i] = CHOOSE n \in RuleNumbers : Rank(RuleNumbers, n) = i - 1
    BY <1>4
  <2> QED
    BY <2>1, <2>2
<1>6. DOMAIN Shown = 1..N /\ Shown \in [1..N -> RuleNumbers]
  BY <1>4, <1>5
<1>7. Shown \in Seq(Number)
  <2>1. Shown \in [1..N -> Number]
    BY <1>1, <1>6
  <2> QED
    BY <1>3, <2>1
<1>8. ASSUME NEW n \in RuleNumbers PROVE n \in Range(Shown)
  <2> DEFINE i == Rank(RuleNumbers, n) + 1
  <2>1. i \in 1..N
    BY <1>2, <1>3, RankIsBounded DEF N
  <2>2. Shown[i] \in RuleNumbers /\ Rank(RuleNumbers, Shown[i]) = i - 1
    BY <1>5, <2>1
  <2> DEFINE m == Shown[i]
  <2>3. m \in RuleNumbers /\ Rank(RuleNumbers, m) = Rank(RuleNumbers, n) /\ m \in Nat /\ n \in Nat
    <3>1. i - 1 = Rank(RuleNumbers, n)
      <4>1. IsFiniteSet({k \in RuleNumbers : k < n})
        BY <1>2, FS_Subset
      <4>2. Rank(RuleNumbers, n) \in Nat
        BY <4>1, FS_CardinalityType DEF Rank
      <4> QED
        BY <4>2
    <3> QED
      BY <1>3, <2>2, <3>1
  <2> HIDE DEF m, i
  <2>4. ~(m < n) /\ ~(n < m)
    <3> DEFINE S == RuleNumbers
    <3>1. S \subseteq Nat /\ IsFiniteSet(S) /\ m \in S /\ n \in S /\ Rank(S, m) = Rank(S, n)
      BY <1>2, <1>3, <2>3
    <3> HIDE DEF S
    <3>2. ASSUME m < n PROVE Rank(S, m) \in Nat /\ Rank(S, n) \in Nat /\ Rank(S, m) < Rank(S, n)
      BY <3>1, <3>2, RankIsUnique
    <3>3. ASSUME n < m PROVE Rank(S, n) \in Nat /\ Rank(S, m) \in Nat /\ Rank(S, n) < Rank(S, m)
      BY <3>1, <3>3, RankIsUnique
    <3> QED
      BY <3>1, <3>2, <3>3
  <2>5. m = n
    BY <2>3, <2>4
  <2> QED
    BY <1>6, <2>1, <2>5 DEF Range, m
<1>9. Range(Shown) \subseteq RuleNumbers
  BY <1>5, <1>6 DEF Range
<1> QED
  BY <1>7, <1>8, <1>9

-----------------------------------------------------------------------------
(* The operations of a move *)

LEMMA FlattenSeqIs ==
  ASSUME NEW S, NEW seqs \in Seq(Seq(S))
  PROVE  /\ FlattenSeq(seqs) \in Seq(S)
         /\ \A x : x \in Range(FlattenSeq(seqs)) <=> \E i \in 1..Len(seqs) : x \in Range(seqs[i])
<1> DEFINE n == Len(seqs)
           V == Seq(S)
           I == 1..n
           step == [iv \in I \X V |-> iv[2] \o seqs[iv[1]]]
           flatten == CHOOSE f : f = [i \in 1..n |-> IF i = 1 THEN seqs[i] ELSE f[i - 1] \o seqs[i]]
<1>1. n \in Nat /\ \A i \in 1..n : seqs[i] \in V
  OBVIOUS
<1>2. CASE n = 0
  <2>1. seqs = <<>> /\ Len(seqs) = 0
    BY <1>2
  <2>2. FlattenSeq(seqs) = seqs
    BY <2>1 DEF FlattenSeq
  <2> DEFINE w == FlattenSeq(seqs)
  <2>3. w = <<>>
    BY <2>1, <2>2
  <2> HIDE DEF w
  <2>4. w \in Seq(S) /\ Range(w) = {}
    BY <2>3 DEF Range
  <2>5. 1..Len(seqs) = {}
    BY <2>1
  <2> QED
    BY <2>4, <2>5 DEF w
<1>3. CASE n # 0
  <2>1. FlattenSeq(seqs) = flatten[n]
    BY <1>3, Zenon DEF FlattenSeq
  <2>2. step \in [I \X V -> V] /\ \A i \in I, v \in V : step[<<i, v>>] = v \o seqs[i]
    <3>1. ASSUME NEW i \in I, NEW v \in V PROVE v \o seqs[i] \in V
      BY <1>1, ConcatProperties
    <3> QED
      BY <3>1
  <2>3. <<>> \in V /\ \A v \in V : <<>> \o v = v
    OBVIOUS
  <2> HIDE DEF n, V, step, flatten, I
  <2>4. PICK run \in [0..n -> V] : IsRun(run, n, <<>>, step)
    <3>1. HasFold(n, V, <<>>, step)
      BY <1>1, <2>2, <2>3, SequenceFold DEF I
    <3> QED
      BY <3>1 DEF HasFold
  <2>5. run[0] = <<>> /\ \A i \in 1..n : run[i] \in V /\ i - 1 \in 0..n /\ run[i] = run[i - 1] \o seqs[i]
    <3>1. \A i \in 1..n : i \in I /\ i - 1 \in 0..n /\ i \in 0..n
      BY <1>1 DEF I
    <3> QED
      BY <2>2, <2>4, <3>1 DEF IsRun
  <2> DEFINE g == [i \in 1..n |-> run[i]]
  <2>6. \A i \in 1..n : g[i] = IF i = 1 THEN seqs[i] ELSE g[i - 1] \o seqs[i]
    <3> SUFFICES ASSUME NEW i \in 1..n PROVE g[i] = IF i = 1 THEN seqs[i] ELSE g[i - 1] \o seqs[i]
      OBVIOUS
    <3>1. g[i] = run[i - 1] \o seqs[i]
      BY <2>5
    <3>2. CASE i = 1
      <4>1. run[i - 1] = <<>> /\ seqs[i] \in V
        BY <1>1, <2>5, <3>2
      <4>2. <<>> \o seqs[i] = seqs[i]
        BY <2>3, <4>1
      <4> QED
        BY <3>1, <3>2, <4>1, <4>2
    <3>3. CASE i # 1
      <4>1. i - 1 \in 1..n
        BY <1>1, <3>3
      <4> QED
        BY <3>1, <3>3, <4>1
    <3> QED
      BY <3>2, <3>3
  <2>7. g = [i \in 1..n |-> IF i = 1 THEN seqs[i] ELSE g[i - 1] \o seqs[i]]
    BY <2>6
  <2> HIDE DEF g
  <2>8. flatten = [i \in 1..n |-> IF i = 1 THEN seqs[i] ELSE flatten[i - 1] \o seqs[i]]
    BY <2>7, Zenon DEF flatten
  <2> DEFINE R(k) == {x \in S : \E i \in 1..k : x \in Range(seqs[i])}
             T == {k \in 0..n : k # 0 => flatten[k] \in V /\ Range(flatten[k]) = R(k)}
  <2>9. 0 \in T
    BY <1>1
  <2>10. ASSUME NEW k \in 0..(n - 1), k \in T PROVE k + 1 \in T
    <3>1. k + 1 \in 1..n /\ k + 1 \in 0..n /\ (k + 1) - 1 = k /\ k \in 0..n
      BY <1>1
    <3>2. flatten[k + 1] = IF k + 1 = 1 THEN seqs[k + 1] ELSE flatten[k] \o seqs[k + 1]
      BY <2>8, <3>1
    <3>3. seqs[k + 1] \in V /\ Range(seqs[k + 1]) \subseteq S
      BY <1>1, <3>1, RangeIs DEF V
    <3>4. R(k + 1) = R(k) \cup Range(seqs[k + 1])
      <4>1. \A i : i \in 1..(k + 1) <=> i \in 1..k \/ i = k + 1
        BY <3>1
      <4> QED
        BY <3>3, <4>1
    <3>5. CASE k = 0
      <4>1. R(k) = {}
        BY <3>5
      <4> HIDE DEF R
      <4>2. flatten[k + 1] = seqs[k + 1]
        BY <3>2, <3>5
      <4>3. Range(flatten[k + 1]) = R(k + 1)
        BY <3>4, <4>1, <4>2
      <4> QED
        BY <3>1, <3>3, <4>2, <4>3
    <3>6. CASE k # 0
      <4> HIDE DEF R
      <4> DEFINE v == flatten[k]
                 e == seqs[k + 1]
      <4>1. v \in V /\ Range(v) = R(k)
        BY <2>10, <3>6
      <4>5. e \in V /\ Range(e) = Range(seqs[k + 1])
        BY <3>3
      <4>2. flatten[k + 1] = v \o e
        <5>1. k + 1 # 1
          BY <3>1, <3>6
        <5> QED
          BY <3>2, <5>1
      <4> HIDE DEF v, e
      <4>3. v \o e \in V /\ Range(v \o e) = Range(v) \cup Range(e)
        BY <4>1, <4>5, ConcatRange DEF V
      <4>4. Range(v \o e) = R(k + 1)
        BY <3>4, <4>1, <4>3, <4>5
      <4> QED
        BY <3>1, <4>2, <4>3, <4>4
    <3> QED
      BY <3>5, <3>6
  <2>11. n \in T
    <3> HIDE DEF T
    <3>1. \A k \in 0..n : k \in T
      BY <1>1, <2>9, <2>10, Induction
    <3> QED
      BY <1>1, <3>1
  <2>12. flatten[n] \in V /\ Range(flatten[n]) = R(n)
    BY <1>3, <2>11
  <2>13. ASSUME NEW x, NEW i \in 1..n, x \in Range(seqs[i]) PROVE x \in S
    <3>1. seqs[i] \in Seq(S)
      BY <1>1 DEF V
    <3> QED
      BY <2>13, <3>1, RangeIs
  <2>14. \A x : x \in R(n) <=> \E i \in 1..n : x \in Range(seqs[i])
    BY <2>13
  <2> HIDE DEF R
  <2> QED
    BY <2>1, <2>12, <2>14 DEF V, n
<1> QED
  BY <1>2, <1>3

Moved(from, to, n) == SetOp(to \o SubSeq(n.path, Len(from) + 1, Len(n.path)), n.val)

(* Replaying a subtree sets its leaves under the other path. *)
LEMMA SubtreeToSetOpsIs ==
  ASSUME NEW config, NEW from, NEW to, NEW S, S = LeavesBelow(config, from), IsFiniteSet(S),
         NEW M, M = {Moved(from, to, x) : x \in S}
  PROVE  SubtreeToSetOps(config, from, to) \in Seq(M) /\ Range(SubtreeToSetOps(config, from, to)) = M
<1> DEFINE V == Seq(M)
<1>0. <<>> \in V /\ \A ops \in V, x \in S : Append(ops, Moved(from, to, x)) \in V
  OBVIOUS
<1> HIDE DEF V
<1> DEFINE step == [xv \in S \X V |-> Append(xv[2], Moved(from, to, xv[1]))]
           pick == [s \in SUBSET S |-> CHOOSE x \in s : TRUE]
           iter == CHOOSE g : g = [s \in SUBSET S |-> IF s = {} THEN <<>> ELSE Append(g[s \ {CHOOSE x \in s : TRUE}], Moved(from, to, (CHOOSE x \in s : TRUE)))]
<1>1. Picks(pick, S) /\ \A s \in SUBSET S : pick[s] = CHOOSE x \in s : TRUE
  BY DEF Picks
<1>2. step \in [S \X V -> V]
  BY <1>0
<1>3. \A x \in S, ops \in V : step[<<x, ops>>] = Append(ops, Moved(from, to, x))
  OBVIOUS
<1> HIDE DEF step, pick
<1>4. PICK h \in [SUBSET S -> V] : IsFold(h, S, <<>>, step, pick)
  BY <1>0, <1>1, <1>2, FoldExists
<1>5. \A s \in SUBSET S : s # {} => (CHOOSE x \in s : TRUE) \in s
  BY <1>1 DEF Picks
<1>6. \A s \in SUBSET S : h[s] = IF s = {} THEN <<>> ELSE Append(h[s \ {CHOOSE x \in s : TRUE}], Moved(from, to, (CHOOSE x \in s : TRUE)))
  BY <1>1, <1>3, <1>4, <1>5 DEF IsFold
<1>7. h = [s \in SUBSET S |-> IF s = {} THEN <<>> ELSE Append(h[s \ {CHOOSE x \in s : TRUE}], Moved(from, to, (CHOOSE x \in s : TRUE)))]
  BY <1>4, <1>6
<1>8. iter = [s \in SUBSET S |-> IF s = {} THEN <<>> ELSE Append(iter[s \ {CHOOSE x \in s : TRUE}], Moved(from, to, (CHOOSE x \in s : TRUE)))]
  BY <1>7, Zenon
<1>9. SubtreeToSetOps(config, from, to) = iter[S]
  BY Zenon DEF SubtreeToSetOps, Moved, FoldSet, MapThenFoldSet
<1> HIDE DEF iter
<1> DEFINE Image(s) == {Moved(from, to, x) : x \in s}
           U == {s \in SUBSET S : iter[s] \in V /\ Range(iter[s]) = Image(s)}
<1>10. ASSUME NEW s \in SUBSET S, \A r \in SUBSET s : r # s => r \in U
       PROVE  s \in U
  <2>1. CASE s = {}
    <3>1. iter[s] = <<>> /\ Range(<<>>) = {}
      BY <1>8, <2>1 DEF Range
    <3> QED
      BY <1>0, <2>1, <3>1
  <2>2. CASE s # {}
    <3> DEFINE x == CHOOSE x \in s : TRUE
    <3>1. x \in s
      BY <1>5, <2>2
    <3> HIDE DEF x
    <3>2. s \ {x} \in SUBSET s /\ s \ {x} # s
      BY <3>1
    <3> DEFINE r == iter[s \ {x}]
               e == Moved(from, to, x)
    <3>3. r \in V /\ Range(r) = Image(s \ {x})
      BY <1>10, <3>2
    <3>4. iter[s] = Append(iter[s \ {x}], Moved(from, to, x))
      BY <1>8, <2>2 DEF x
    <3>5. e \in M /\ e \in Image(s) /\ Image(s) = Image(s \ {x}) \cup {e}
      BY <3>1
    <3> HIDE DEF r, e, Image
    <3>6. Append(r, e) \in Seq(M) /\ Range(Append(r, e)) = Range(r) \cup {e}
      <4> DEFINE u == <<e>>
      <4>1. Append(r, e) = r \o u
        BY <3>3, <3>5 DEF V
      <4>2. Range(u) = {e}
        BY DEF Range
      <4>3. r \in Seq(M) /\ u \in Seq(M)
        BY <3>3, <3>5 DEF V
      <4> HIDE DEF u
      <4>4. r \o u \in Seq(M) /\ Range(r \o u) = Range(r) \cup Range(u)
        BY ONLY <4>3, ConcatRange
      <4> QED
        BY <4>1, <4>2, <4>4
    <3>7. iter[s] \in V /\ Range(iter[s]) = Image(s)
      BY <3>3, <3>4, <3>5, <3>6 DEF V, r, e
    <3> QED
      BY <3>7
  <2> QED
    BY <2>1, <2>2
<1>11. \A s \in SUBSET S : s \in U
  <2> HIDE DEF U
  <2> QED
    BY <1>10, SubsetInduction
<1>12. iter[S] \in V /\ Range(iter[S]) = Image(S)
  BY <1>11
<1> QED
  BY <1>9, <1>12 DEF V

(* What a move may queue. *)
MoveOps(c) ==
  {SetNode(<<m>>) : m \in Number} \cup {DeleteNode(<<m>>) : m \in Number}
  \cup UNION {{SetOp(<<m, x.path[2]>>, x.val) : m \in Number} : x \in {y \in c : IsLeafPath(y.path)}}

LEMMA MoveOpsAreRuleOps ==
  ASSUME NEW c, IsRuleset(c)
  PROVE  \A op \in MoveOps(c) : IsRuleOp(op)
<1> SUFFICES ASSUME NEW op \in MoveOps(c) PROVE IsRuleOp(op)
  OBVIOUS
<1>1. CASE \E m \in Number : op \in {SetNode(<<m>>), DeleteNode(<<m>>)}
  BY <1>1, OpPath DEF IsRuleOp, IsRulePath
<1>2. CASE \E m \in Number, x \in c : IsLeafPath(x.path) /\ op = SetOp(<<m, x.path[2]>>, x.val)
  <2>1. PICK m \in Number, x \in c : IsLeafPath(x.path) /\ op = SetOp(<<m, x.path[2]>>, x.val)
    BY <1>2
  <2> DEFINE k == x.path[2]
             p == <<m, k>>
  <2>2. p[2] = k /\ IsLeafPath(p)
    BY DEF IsLeafPath
  <2>3. IsRuleNode(x) /\ x.path # <<x.path[1]>>
    <3>1. x.path = <<x.path[1], x.path[2]>>
      BY <2>1 DEF IsLeafPath
    <3>2. <<x.path[1]>> # <<x.path[1], x.path[2]>>
      BY LeafPaths
    <3> QED
      BY <3>1, <3>2 DEF IsRuleset
  <2>4. Fits(k, x.val)
    BY <2>3 DEF IsRuleNode, IsRulePath
  <2>5. op = SetOp(p, x.val) /\ op.path = p /\ op.val = x.val
    BY <2>1 DEF SetOp
  <2> HIDE DEF p, k
  <2>6. Fits(p[2], x.val)
    BY <2>2, <2>4
  <2> QED
    BY <2>2, <2>5, <2>6 DEF IsRuleOp
<1> QED
  BY <1>1, <1>2 DEF MoveOps

(* A path with another rule number. *)
LEMMA MovedPaths ==
  ASSUME NEW m, NEW k, NEW new
  PROVE  /\ <<new>> \o SubSeq(<<m>>, 1 + 1, 1) = <<new>>
         /\ <<new>> \o SubSeq(<<m, k>>, 1 + 1, 2) = <<new, k>>
<1> DEFINE S == {m, k, new}
           s == <<m, k>>
           t == <<new>>
           u == <<k>>
           y == <<new, k>>
<1>1. /\ y \in Seq(S) /\ Len(y) = 2 /\ y[1] = new /\ y[2] = k
      /\ s \in Seq(S) /\ Len(s) = 2 /\ s[2] = k
      /\ t \in Seq(S) /\ Len(t) = 1 /\ t[1] = new
      /\ u \in Seq(S) /\ Len(u) = 1 /\ u[1] = k
  OBVIOUS
<1>2. SubSeq(<<m>>, 2, 1) = <<>>
  BY SubSeqEmpty
<1>3. t \o <<>> = t
  BY <1>1, ConcatEmptySeq
<1> HIDE DEF S, s
<1>4. SubSeq(s, 2, 2) = u
  <2> DEFINE w == SubSeq(s, 2, 2)
  <2>1. 2 \in Int /\ \A i \in 2..2 : s[i] \in S
    BY <1>1
  <2>2. w \in Seq(S) /\ Len(w) = (IF 2 =< 2 THEN 2 - 2 + 1 ELSE 0) /\ \A i \in 1..(2 - 2 + 1) : w[i] = s[2 + i - 1]
    BY <2>1, SubSeqProperties
  <2> HIDE DEF w
  <2>3. Len(w) = 1 /\ w[1] = k
    BY <1>1, <2>2
  <2>4. \A i \in 1..Len(w) : w[i] = u[i]
    BY <1>1, <2>3
  <2> HIDE DEF u
  <2>5. w = u
    BY <1>1, <2>2, <2>3, <2>4, SeqEqual
  <2> QED
    BY <2>5 DEF w
<1>5. t \o u = y
  <2> HIDE DEF t, u, y
  <2>1. /\ t \o u \in Seq(S) /\ Len(t \o u) = 1 + 1
        /\ \A i \in 1..(1 + 1) : (t \o u)[i] = IF i =< 1 THEN t[i] ELSE u[i - 1]
    BY <1>1, ConcatProperties
  <2> DEFINE z == t \o u
  <2>2. z \in Seq(S) /\ Len(z) = 2 /\ z[1] = new /\ z[2] = k
    BY <1>1, <2>1
  <2> HIDE DEF z
  <2>3. \A i \in 1..Len(z) : z[i] = y[i]
    BY <1>1, <2>2
  <2>4. z = y
    BY <1>1, <2>2, <2>3, SeqEqual
  <2> QED
    BY <2>4 DEF z
<1>6. 1 + 1 = 2
  OBVIOUS
<1> QED
  BY <1>2, <1>3, <1>4, <1>5, <1>6 DEF s

LEMMA MovedIs ==
  ASSUME NEW c, IsRuleset(c), NEW old, NEW new \in Number, NEW x \in c
  PROVE  Moved(<<old>>, <<new>>, x) \in MoveOps(c)
<1>1. ASSUME NEW m, x = Node(<<m>>, NoValue) PROVE Moved(<<old>>, <<new>>, x) = SetNode(<<new>>)
  <2>1. x.path = <<m>> /\ x.val = NoValue /\ Len(<<m>>) = 1 /\ Len(<<old>>) = 1
    BY <1>1, NodeIs, ShortPaths
  <2>2. <<new>> \o SubSeq(<<m>>, 1 + 1, 1) = <<new>>
    BY MovedPaths
  <2> QED
    BY <2>1, <2>2 DEF Moved, SetNode
<1>2. ASSUME NEW m \in Number, NEW k, NEW v, x = Node(<<m, k>>, v)
      PROVE  Moved(<<old>>, <<new>>, x) = SetOp(<<new, x.path[2]>>, x.val) /\ IsLeafPath(x.path)
  <2>1. x.path = <<m, k>> /\ x.path[2] = k /\ Len(<<m, k>>) = 2 /\ Len(<<old>>) = 1
    BY <1>2, NodeIs, ShortPaths
  <2>2. <<new>> \o SubSeq(<<m, k>>, 1 + 1, 2) = <<new, k>>
    BY MovedPaths
  <2>3. IsLeafPath(<<m, k>>)
    BY DEF IsLeafPath
  <2> QED
    BY <2>1, <2>2, <2>3 DEF Moved
<1>3. \/ \E m \in Number : x = Node(<<m>>, NoValue)
      \/ \E m \in Number : \E l, v : x = Node(<<m, l>>, v) /\ Fits(l, v)
  BY RuleNodeIs
<1>4. CASE \E m \in Number : x = Node(<<m>>, NoValue)
  BY <1>1, <1>4 DEF MoveOps
<1>5. CASE \E m \in Number : \E l, v : x = Node(<<m, l>>, v) /\ Fits(l, v)
  <2>1. Moved(<<old>>, <<new>>, x) = SetOp(<<new, x.path[2]>>, x.val) /\ IsLeafPath(x.path)
    BY <1>2, <1>5
  <2> QED
    BY <2>1 DEF MoveOps
<1> QED
  BY <1>3, <1>4, <1>5

LEMMA MoveItemType ==
  ASSUME NEW S, NEW s \in Seq(S), NEW from \in 1..Len(s), NEW to \in 1..Len(s)
  PROVE  MoveItem(s, from, to) \in Seq(S) /\ Len(MoveItem(s, from, to)) = Len(s)
<1> DEFINE n == Len(s)
           r == RemoveAt(s, from)
           e == <<s[from]>>
<1>1. r \in Seq(S) /\ Len(r) = n - 1 /\ n \in Nat
  BY RemoveAtIs
<1>2. e \in Seq(S) /\ Len(e) = 1
  OBVIOUS
<1>3. MoveItem(s, from, to) = (SubSeq(r, 1, to - 1) \o e) \o SubSeq(r, to, Len(r))
  BY DEF MoveItem, InsertAt
<1>4. from \in 1..n /\ to \in 1..n
  OBVIOUS
<1> HIDE DEF n, r, e
<1> DEFINE a == SubSeq(r, 1, to - 1)
           b == SubSeq(r, to, Len(r))
<1>5. a \in Seq(S) /\ Len(a) = to - 1
  <2>1. 1 \in Int /\ to - 1 \in Int /\ \A i \in 1..(to - 1) : r[i] \in S
    BY <1>1, <1>4
  <2>2. a \in Seq(S) /\ Len(a) = IF 1 =< to - 1 THEN to - 1 - 1 + 1 ELSE 0
    BY <2>1, SubSeqProperties
  <2> QED
    BY <1>1, <1>4, <2>2
<1>6. b \in Seq(S) /\ Len(b) = n - to
  <2>1. to \in Int /\ Len(r) \in Int /\ \A i \in to..Len(r) : r[i] \in S
    BY <1>1, <1>4
  <2>2. b \in Seq(S) /\ Len(b) = IF to =< Len(r) THEN Len(r) - to + 1 ELSE 0
    BY <2>1, SubSeqProperties
  <2> QED
    BY <1>1, <1>4, <2>2
<1> HIDE DEF a, b
<1>7. a \o e \in Seq(S) /\ Len(a \o e) = to
  <2>1. a \o e \in Seq(S) /\ Len(a \o e) = Len(a) + Len(e)
    BY <1>2, <1>5, ConcatProperties
  <2> QED
    BY <1>2, <1>4, <1>5, <2>1
<1>8. (a \o e) \o b \in Seq(S) /\ Len((a \o e) \o b) = n
  <2> DEFINE f == a \o e
  <2>1. f \in Seq(S) /\ Len(f) = to
    BY <1>7
  <2> HIDE DEF f
  <2>2. f \o b \in Seq(S) /\ Len(f \o b) = Len(f) + Len(b)
    BY <1>6, <2>1, ConcatProperties
  <2>3. f \o b \in Seq(S) /\ Len(f \o b) = n
    BY <1>1, <1>4, <1>6, <2>1, <2>2
  <2> QED
    BY <2>3 DEF f
<1> QED
  BY <1>3, <1>8 DEF a, b, n

(* A free number is a number. *)
LEMMA IdealNumberType ==
  ASSUME NEW prev \in Nat, NEW next \in Nat
  PROVE  IdealNumberBetween(prev, next) \in Nat
<1>1. CASE prev = NoNumber /\ next =< 1
  BY <1>1 DEF IdealNumberBetween, NoNumber
<1>2. CASE prev = NoNumber /\ next > 1
  BY <1>2 DEF IdealNumberBetween, NoNumber
<1>3. CASE prev # NoNumber /\ next = NoNumber
  BY <1>3 DEF IdealNumberBetween, NoNumber
<1>4. CASE prev # NoNumber /\ next # NoNumber
  <2>1. IdealNumberBetween(prev, next) = IF next - prev =< 1 THEN NoNumber ELSE prev + (next - prev) \div 2
    BY <1>4 DEF IdealNumberBetween
  <2>2. ~(next - prev =< 1) => (next - prev) \div 2 \in Nat
    OBVIOUS
  <2> QED
    BY <2>1, <2>2 DEF NoNumber
<1> QED
  BY <1>1, <1>2, <1>3, <1>4

Changes == [old : Number, new : Number]

LEMMA RenumberingType ==
  ASSUME IsRuleset(router), NEW from \in DOMAIN Shown, NEW to \in DOMAIN Shown
  PROVE  Renumbering(from, to) \in Seq(Changes)
<1> DEFINE reordered == MoveItem(Shown, from, to)
           ideal == IdealNumberBetween(NumberAt(reordered, to - 1), NumberAt(reordered, to + 1))
           all == [i \in DOMAIN reordered |->
                     IF reordered[i] = 10 * i THEN <<>> ELSE <<[old |-> reordered[i], new |-> 10 * i]>>]
<1>1. Shown \in Seq(Number) /\ DOMAIN Shown = 1..Len(Shown)
  BY ShownIs
<1>2. reordered \in Seq(Number) /\ Len(reordered) = Len(Shown)
  BY <1>1, MoveItemType
<1>3. Renumbering(from, to) = IF ideal # NoNumber THEN <<[old |-> reordered[to], new |-> ideal]>> ELSE FlattenSeq(all)
  BY Zenon DEF Renumbering
<1> HIDE DEF reordered
<1>4. \A i : NumberAt(reordered, i) \in Nat
  BY <1>2 DEF NumberAt, Number, NoNumber
<1>5. ideal \in Nat
  BY <1>4, IdealNumberType
<1> HIDE DEF ideal
<1>6. CASE ideal # NoNumber
  <2>1. reordered[to] \in Number /\ ideal \in Number
    BY <1>1, <1>2, <1>5, <1>6 DEF Number
  <2>2. [old |-> reordered[to], new |-> ideal] \in Changes
    BY <2>1 DEF Changes
  <2> HIDE DEF all
  <2> QED
    BY <1>3, <1>6, <2>2
<1>7. CASE ~(ideal # NoNumber)
  <2>1. ASSUME NEW i \in DOMAIN reordered PROVE all[i] \in Seq(Changes)
    <3>1. reordered[i] \in Number /\ 10 * i \in Number
      BY <1>2 DEF Number, NoNumber
    <3>2. [old |-> reordered[i], new |-> 10 * i] \in Changes
      BY <3>1 DEF Changes
    <3> QED
      BY <3>2
  <2>2. DOMAIN reordered = 1..Len(reordered) /\ Len(reordered) \in Nat
    BY <1>2
  <2>3. all \in [1..Len(reordered) -> Seq(Changes)]
    BY <2>1, <2>2
  <2>4. all \in Seq(Seq(Changes))
    BY <2>2, <2>3
  <2> HIDE DEF all
  <2>5. FlattenSeq(all) \in Seq(Changes)
    BY <2>4, FlattenSeqIs
  <2> QED
    BY <1>3, <1>7, <2>5
<1> QED
  BY <1>6, <1>7

(* A move queues deletes of rules, and sets of rules and their settings. *)
LEMMA ReorderRuleOpsType ==
  ASSUME IsRuleset(router), NEW from \in DOMAIN Shown, NEW to \in DOMAIN Shown
  PROVE  ReorderRuleOps(from, to) \in Seq(MoveOps(router))
<1> DEFINE changes == Renumbering(from, to)
           deletes == [i \in DOMAIN changes |-> DeleteNode(<<changes[i].old>>)]
           sets == [i \in DOMAIN changes |-> SubtreeToSetOps(router, <<changes[i].old>>, <<changes[i].new>>)]
           O == MoveOps(router)
<1>1. ReorderRuleOps(from, to) = deletes \o FlattenSeq(sets)
  BY Zenon DEF ReorderRuleOps
<1>2. changes \in Seq(Changes)
  BY RenumberingType
<1> HIDE DEF changes
<1>3. /\ DOMAIN changes = 1..Len(changes) /\ Len(changes) \in Nat
      /\ \A i \in DOMAIN changes : changes[i].old \in Number /\ changes[i].new \in Number
  <2>1. DOMAIN changes = 1..Len(changes) /\ Len(changes) \in Nat /\ \A i \in DOMAIN changes : changes[i] \in Changes
    BY <1>2
  <2> QED
    BY <2>1 DEF Changes
<1>4. deletes \in Seq(O)
  <2>1. ASSUME NEW i \in DOMAIN changes PROVE deletes[i] \in O
    BY <1>3 DEF MoveOps
  <2>2. deletes \in [1..Len(changes) -> O]
    BY <1>3, <2>1
  <2> HIDE DEF O, deletes
  <2> QED
    BY <1>3, <2>2
<1>5. ASSUME NEW old \in Number, NEW new \in Number
      PROVE  SubtreeToSetOps(router, <<old>>, <<new>>) \in Seq(O)
  <2> DEFINE p == <<old>>
             q == <<new>>
             S == LeavesBelow(router, p)
             M == {Moved(p, q, x) : x \in S}
  <2>1. S \subseteq router
    BY DEF LeavesBelow, Below
  <2>2. IsFiniteSet(S)
    BY <2>1, FS_Subset DEF IsRuleset
  <2>3. \A x \in S : Moved(p, q, x) \in O
    BY <2>1, MovedIs
  <2>4. S = LeavesBelow(router, p) /\ M = {Moved(p, q, x) : x \in S} /\ M \subseteq O
    BY <2>3
  <2> HIDE DEF S, M, O, p, q
  <2>5. SubtreeToSetOps(router, p, q) \in Seq(M)
    BY <2>2, <2>4, SubtreeToSetOpsIs
  <2>6. SubtreeToSetOps(router, p, q) \in Seq(O)
    BY <2>4, <2>5, SeqMonotonic
  <2> QED
    BY <2>6 DEF p, q
<1>6. FlattenSeq(sets) \in Seq(O)
  <2>1. ASSUME NEW i \in DOMAIN changes PROVE sets[i] \in Seq(O)
    BY <1>3, <1>5
  <2>2. sets \in [1..Len(changes) -> Seq(O)]
    BY <1>3, <2>1
  <2> HIDE DEF O, sets
  <2>3. sets \in Seq(Seq(O))
    BY <1>3, <2>2
  <2> QED
    BY <2>3, FlattenSeqIs
<1> HIDE DEF O, deletes, sets
<1>7. deletes \o FlattenSeq(sets) \in Seq(O)
  BY <1>4, <1>6, ConcatProperties
<1> QED
  BY <1>1, <1>7 DEF O

-----------------------------------------------------------------------------
(* Types *)

RuleFormOps(n, values) == {FieldOp(n, l, values[l]) : l \in FormLeaves}

(* What saving a form queues: one operation for each changed field. *)
LEMMA RuleFormToOpsIs ==
  ASSUME NEW n, NEW before, NEW values
  PROVE  /\ RuleFormToOps(n, before, values) \in Seq(RuleFormOps(n, values))
         /\ Range(RuleFormToOps(n, before, values)) =
              {FieldOp(n, l, values[l]) : l \in {m \in FormLeaves : before[m] # values[m]}}
<1> DEFINE O == RuleFormOps(n, values)
           op(l) == FieldOp(n, l, values[l])
           changed(l) == IF before[l] # values[l] THEN {op(l)} ELSE {}
           field(l) == ChangedField(n, l, before, values)
<1>1. ASSUME NEW l \in FormLeaves PROVE field(l) \in Seq(O) /\ Range(field(l)) = changed(l)
  <2>1. op(l) \in O
    BY DEF RuleFormOps
  <2> DEFINE o == op(l)
  <2>2. field(l) = IF before[l] = values[l] THEN <<>> ELSE <<o>>
    BY DEF ChangedField
  <2> HIDE DEF o, O
  <2>3. <<>> \in Seq(O) /\ <<o>> \in Seq(O)
    BY <2>1 DEF o
  <2>4. Range(<<>>) = {} /\ Range(<<o>>) = {o}
    BY DEF Range
  <2> QED
    BY <2>2, <2>3, <2>4 DEF o
<1> DEFINE a == field("action")
           b == field("description")
           c == field("log")
<1>2. /\ a \in Seq(O) /\ Range(a) = changed("action")
      /\ b \in Seq(O) /\ Range(b) = changed("description")
      /\ c \in Seq(O) /\ Range(c) = changed("log")
  BY <1>1 DEF FormLeaves
<1>3. RuleFormToOps(n, before, values) = (a \o b) \o c
  BY DEF RuleFormToOps
<1> HIDE DEF a, b, c, O
<1>4. a \o b \in Seq(O) /\ Range(a \o b) = Range(a) \cup Range(b)
  BY <1>2, ConcatRange
<1>5. (a \o b) \o c \in Seq(O) /\ Range((a \o b) \o c) = Range(a \o b) \cup Range(c)
  <2> DEFINE d == a \o b
  <2>1. d \in Seq(O)
    BY <1>4
  <2> HIDE DEF d
  <2>2. d \o c \in Seq(O) /\ Range(d \o c) = Range(d) \cup Range(c)
    BY <1>2, <2>1, ConcatRange
  <2> QED
    BY <2>2 DEF d
<1>6. changed("action") \cup changed("description") \cup changed("log") =
        {op(l) : l \in {m \in FormLeaves : before[m] # values[m]}}
  <2> HIDE DEF op
  <2> QED
    BY DEF FormLeaves
<1> QED
  BY <1>2, <1>3, <1>4, <1>5, <1>6 DEF O

LEMMA RuleFormOpsAreRuleOps ==
  ASSUME NEW n \in Number, NEW values
  PROVE  \A op \in RuleFormOps(n, values) : IsRuleOp(op)
BY FieldOpIs DEF RuleFormOps

(* Queueing operations on rules keeps the types. *)
LEMMA QueueType ==
  ASSUME TypeOK, NEW O, \A op \in O : IsRuleOp(op), NEW ops \in Seq(O), NEW g, Queue(ops, g),
         form'.open => form'.number \in Number /\ form'.rule \in {NoNumber, form'.number}
  PROVE  TypeOK'
<1> DEFINE P == Range(queue) \cup O
<1>1. queue \in Seq(P) /\ ops \in Seq(P)
  BY SeqMonotonic DEF TypeOK
<1>2. \A op \in P : IsRuleOp(op)
  BY DEF TypeOK
<1> HIDE DEF P
<1>3. queue' \in Seq(P)
  <2>1. AddAll(queue, ops) \in Seq(P)
    BY <1>1, <1>2, AddedAllRange
  <2> QED
    BY <2>1 DEF Queue
<1>4. Range(queue') \subseteq P /\ queue' \in Seq(Range(queue'))
  BY <1>3, RangeIs
<1>5. asked' \in Seq(Range(asked'))
  <2> DEFINE A == Range(asked) \cup {g}
             more == Append(asked, g)
  <2>1. asked \in Seq(A) /\ g \in A
    BY SeqMonotonic DEF TypeOK
  <2> HIDE DEF A
  <2>2. more \in Seq(A)
    BY <2>1
  <2> HIDE DEF more
  <2>3. more \in Seq(Range(more))
    BY <2>2, RangeIs
  <2>4. asked' = more
    BY DEF Queue, more
  <2> QED
    BY <2>3, <2>4
<1>6. router' = router /\ commits' = commits
  BY DEF Queue
<1>7. IsRuleset(router') /\ commits' \in 0..MaxCommits
  BY <1>6 DEF TypeOK
<1>8. \A op \in Range(queue') : IsRuleOp(op)
  BY <1>2, <1>4
<1> QED
  BY <1>4, <1>5, <1>7, <1>8 DEF TypeOK

(* A commit leaves a ruleset. *)
LEMMA AfterQueue ==
  ASSUME TypeOK
  PROVE  IsRuleset(AfterOps(router, queue, {}))
<1> DEFINE n == Len(queue)
           ops == queue
           c == router
<1>1. n \in Nat /\ DOMAIN ops = 1..n /\ (\A i \in 1..n : IsRuleOp(ops[i])) /\ IsRuleset(c)
  <2>1. n \in Nat /\ DOMAIN ops = 1..n /\ \A i \in 1..n : ops[i] \in Range(ops)
    BY DEF TypeOK
  <2> QED
    BY <2>1 DEF TypeOK
<1> HIDE DEF n, ops, c
<1>2. PICK V : (\A d \in V : IsRuleset(d)) /\ AfterOpsRuns(V, c, ops, {}, n)
  BY <1>1, RulesetRun
<1>3. AfterOps(c, ops, {}) \in V
  BY <1>1, <1>2 DEF AfterOpsRuns
<1> QED
  BY <1>2, <1>3 DEF c, ops

LEMMA SuggestionIsNumber ==
  ASSUME IsRuleset(router)
  PROVE  SuggestNextNumber \in Number
<1>1. Shown \in Seq(Number)
  BY ShownIs
<1> DEFINE s == Shown
<1>2. SuggestNextNumber = IF s = <<>> THEN 10 ELSE 10 * (Last(s) \div 10 + 1)
  BY DEF SuggestNextNumber
<1>3. s \in Seq(Number)
  BY <1>1
<1> HIDE DEF s
<1>4. s # <<>> => Last(s) \in Nat
  BY <1>3 DEF Last, Number
<1>5. \A x \in Nat : x \div 10 \in Nat
  OBVIOUS
<1>6. \A y \in Nat : 10 * (y + 1) \in Nat \ {0}
  OBVIOUS
<1>7. s # <<>> => 10 * (Last(s) \div 10 + 1) \in Nat \ {0}
  <2> DEFINE y == Last(s) \div 10
  <2>1. s # <<>> => y \in Nat
    BY <1>4, <1>5
  <2> HIDE DEF y
  <2>2. s # <<>> => 10 * (y + 1) \in Nat \ {0}
    BY <1>6, <2>1
  <2> QED
    BY <2>2 DEF y
<1> QED
  BY <1>2, <1>7 DEF Number, NoNumber

LEMMA InitType ==
  ASSUME Init
  PROVE  TypeOK
<1>1. IsRuleset(router)
  BY StartAssumption DEF Init
<1>2. <<>> \in Seq(Range(<<>>)) /\ \A op \in Range(<<>>) : FALSE
  BY DEF Range
<1>3. ~form.open
  BY DEF Init, NoForm
<1>4. commits \in 0..MaxCommits
  BY RuleListAssumption DEF Init
<1> QED
  BY <1>1, <1>2, <1>3, <1>4 DEF Init, TypeOK

LEMMA SubmitNumber ==
  ASSUME TypeOK, NEW values, NEW number, Submit(values, number)
  PROVE  number \in Number
BY RuleListAssumption DEF TypeOK, Submit, Number, NoNumber

(* What is queued is committed within the bound of the model. *)
TypeInv == TypeOK /\ (queue # <<>> => commits < MaxCommits)

LEMMA NextType ==
  ASSUME TypeInv, [Next]_vars
  PROVE  TypeOK'
<1> USE DEF TypeInv
<1>1. Shown \in Seq(Number) /\ \A i \in DOMAIN Shown : Shown[i] \in Number
  <2>1. Shown \in Seq(Number)
    BY ShownIs DEF TypeOK
  <2> QED
    BY <2>1
<1>2. ~NoForm.open
  BY DEF NoForm
<1>3. CASE OpenAdd
  <2> DEFINE f == [NoForm EXCEPT !.open = TRUE, !.number = SuggestNextNumber]
  <2>1. SuggestNextNumber \in Number
    BY SuggestionIsNumber DEF TypeOK
  <2>2. f.number = SuggestNextNumber /\ f.rule = NoNumber
    BY DEF NoForm
  <2>3. form' = f /\ UNCHANGED <<router, queue, commits, asked>>
    BY <1>3 DEF OpenAdd, Show
  <2> HIDE DEF f
  <2> QED
    BY <2>1, <2>2, <2>3 DEF TypeOK
<1>4. ASSUME NEW i \in DOMAIN Shown, OpenEdit(Shown[i]) PROVE TypeOK'
  <2> DEFINE n == Shown[i]
             f == [rule |-> n, open |-> TRUE, values |-> RuleToFormValues(router, n), number |-> n]
  <2>1. n \in Number /\ f.number = n /\ f.rule = n
    BY <1>1
  <2>2. form' = f /\ UNCHANGED <<router, queue, commits, asked>>
    BY <1>4 DEF OpenEdit, Show
  <2> HIDE DEF f, n
  <2> QED
    BY <2>1, <2>2 DEF TypeOK
<1>5. ASSUME NEW i \in DOMAIN Shown, QueueDeleteRule(Shown[i]) PROVE TypeOK'
  <2> DEFINE n == Shown[i]
             op == DeleteNode(<<n>>)
             g == [kind |-> "delete", number |-> n]
             O == {op}
  <2>1. n \in Number
    BY <1>1
  <2>2. Queue(<<op>>, g) /\ form' = IF form.rule = n THEN NoForm ELSE form
    BY <1>5 DEF QueueDeleteRule
  <2>3. IsRuleOp(op)
    BY <2>1, OpPath DEF IsRuleOp, IsRulePath
  <2>4. <<op>> \in Seq(O)
    OBVIOUS
  <2>5. form'.open => form'.number \in Number /\ form'.rule \in {NoNumber, form'.number}
    BY <1>2, <2>2 DEF TypeOK
  <2>6. \A o \in O : IsRuleOp(o)
    BY <2>3
  <2> HIDE DEF op, g, O, n
  <2> QED
    BY <2>2, <2>4, <2>5, <2>6, QueueType
<1>6. ASSUME NEW from \in DOMAIN Shown, NEW to \in DOMAIN Shown, ReorderRule(from, to) PROVE TypeOK'
  <2> DEFINE ops == ReorderRuleOps(from, to)
             g == [kind |-> "move", from |-> from, to |-> to]
             O == MoveOps(router)
  <2>1. Queue(ops, g) /\ form' = form
    BY <1>6 DEF ReorderRule
  <2>2. ops \in Seq(O) /\ \A op \in O : IsRuleOp(op)
    BY ReorderRuleOpsType, MoveOpsAreRuleOps DEF TypeOK
  <2>3. form'.open => form'.number \in Number /\ form'.rule \in {NoNumber, form'.number}
    BY <2>1 DEF TypeOK
  <2> HIDE DEF ops, g, O
  <2> QED
    BY <2>1, <2>2, <2>3, QueueType
<1>7. ASSUME NEW values, NEW number, Submit(values, number) PROVE TypeOK'
  <2> DEFINE before == IF form.rule = NoNumber THEN BlankRuleFormValues ELSE RuleToFormValues(router, number)
             ops == RuleFormToOps(number, before, values)
             g == [kind |-> "save", rule |-> form.rule, number |-> number, opened |-> form.values, values |-> values, ops |-> ops]
             O == RuleFormOps(number, values)
  <2>1. number \in Number
    BY <1>7, SubmitNumber
  <2>2. Queue(ops, g) /\ form' = NoForm
    BY <1>7 DEF Submit
  <2>3. ops \in Seq(O) /\ \A op \in O : IsRuleOp(op)
    BY <2>1, RuleFormToOpsIs, RuleFormOpsAreRuleOps
  <2>4. form'.open => form'.number \in Number /\ form'.rule \in {NoNumber, form'.number}
    BY <1>2, <2>2
  <2> HIDE DEF ops, g, O
  <2> QED
    BY <2>2, <2>3, <2>4, QueueType
<1>8. CASE Cancel
  <2>1. form' = NoForm /\ UNCHANGED <<router, queue, commits, asked>>
    BY <1>8 DEF Cancel, Show
  <2> QED
    BY <1>2, <2>1 DEF TypeOK
<1>9. CASE Commit
  <2>1. /\ router' = AfterOps(router, queue, {}) /\ queue' = <<>> /\ asked' = <<>> /\ commits' = commits + 1
        /\ form' \in {form, NoForm}
    BY <1>9 DEF Commit
  <2>2. IsRuleset(router')
    BY <2>1, AfterQueue
  <2>3. <<>> \in Seq(Range(<<>>)) /\ \A op \in Range(<<>>) : FALSE
    BY DEF Range
  <2>4. commits' \in 0..MaxCommits
    BY <1>9, RuleListAssumption DEF Commit, TypeOK
  <2>5. form'.open => form'.number \in Number /\ form'.rule \in {NoNumber, form'.number}
    BY <1>2, <2>1 DEF TypeOK
  <2> QED
    BY <2>1, <2>2, <2>3, <2>4, <2>5 DEF TypeOK
<1>10. CASE UNCHANGED vars
  BY <1>10 DEF vars, TypeOK
<1> QED
  BY <1>3, <1>4, <1>5, <1>6, <1>7, <1>8, <1>9, <1>10 DEF Next

LEMMA NextTypeInv ==
  ASSUME TypeInv, [Next]_vars
  PROVE  TypeInv'
<1>1. TypeOK'
  BY NextType
<1>2. ASSUME NEW ops, NEW g, Queue(ops, g) PROVE commits' < MaxCommits
  BY <1>2 DEF Queue, MayQueue
<1>3. ASSUME UNCHANGED <<queue, commits>> PROVE queue' # <<>> => commits' < MaxCommits
  BY <1>3 DEF TypeInv
<1>4. ASSUME Next PROVE queue' # <<>> => commits' < MaxCommits
  <2>1. CASE OpenAdd \/ Cancel \/ \E i \in DOMAIN Shown : OpenEdit(Shown[i])
    BY <1>3, <2>1 DEF OpenAdd, Cancel, OpenEdit, Show
  <2>2. CASE \E i \in DOMAIN Shown : QueueDeleteRule(Shown[i])
    BY <1>2, <2>2 DEF QueueDeleteRule
  <2>3. CASE \E from, to \in DOMAIN Shown : ReorderRule(from, to)
    BY <1>2, <2>3 DEF ReorderRule
  <2>4. CASE \E values \in TypedValues, n \in Typed \cup {form.number} : Submit(values, n)
    BY <1>2, <2>4, Zenon DEF Submit
  <2>5. CASE Commit
    BY <2>5 DEF Commit
  <2> QED
    BY <1>4, <2>1, <2>2, <2>3, <2>4, <2>5 DEF Next
<1>5. CASE UNCHANGED vars
  BY <1>1, <1>5 DEF vars, TypeInv
<1> QED
  BY <1>1, <1>4, <1>5 DEF TypeInv

(***************************************************************************)
(* Whatever is saved, deleted, moved and committed, the router holds a     *)
(* ruleset: rules with numbers above zero, every setting of a rule once;   *)
(* and the queue holds nothing but operations on rules and their settings. *)
(***************************************************************************)
THEOREM RulesetInvariant == Spec => []TypeInv
<1>1. Init => TypeInv
  BY InitType DEF Init, TypeInv
<1> QED
  BY <1>1, NextTypeInv, PTL DEF Spec

(* The invariant that the run checks follows. *)
THEOREM RulesetCorrect == Spec => []TypeOK
<1>1. TypeInv => TypeOK
  BY DEF TypeInv
<1> QED
  BY <1>1, RulesetInvariant, PTL

-----------------------------------------------------------------------------
(* What the form of a rule shows *)

(* Two sets of pairs with the same pairs. *)
LEMMA SamePairs ==
  ASSUME NEW A, NEW B,
         \A s \in A : s = <<s[1], s[2]>>, \A s \in B : s = <<s[1], s[2]>>,
         \A l, v : <<l, v>> \in A <=> <<l, v>> \in B
  PROVE  A = B
<1>1. ASSUME NEW s \in A PROVE s \in B
  <2>1. <<s[1], s[2]>> \in A
    BY <1>1
  <2>2. <<s[1], s[2]>> \in B
    BY <2>1
  <2> QED
    BY <2>2
<1>2. ASSUME NEW s \in B PROVE s \in A
  <2>1. <<s[1], s[2]>> \in B
    BY <1>2
  <2>2. <<s[1], s[2]>> \in A
    BY <2>1
  <2> QED
    BY <2>2
<1> QED
  BY <1>1, <1>2

LEMMA KnownIs ==
  ASSUME NEW values, NEW l, NEW v
  PROVE  /\ \A s \in Known(values) : s = <<s[1], s[2]>>
         /\ <<l, v>> \in Known(values) <=> l \in FormLeaves /\ Shows(l, values[l], v)
<1>1. \A s \in Known(values) : \E k, w : s = <<k, w>>
  BY DEF Known
<1>2. ASSUME <<l, v>> \in Known(values) PROVE l \in FormLeaves /\ Shows(l, values[l], v)
  <2>1. PICK k \in FormLeaves : values[k] # Absent /\ <<l, v>> = <<k, IF k = "log" THEN NoValue ELSE values[k]>>
    BY <1>2, Zenon DEF Known
  <2>2. l = k /\ v = IF k = "log" THEN NoValue ELSE values[k]
    BY <2>1
  <2> QED
    BY <2>1, <2>2 DEF Shows
<1>3. ASSUME l \in FormLeaves, Shows(l, values[l], v) PROVE <<l, v>> \in Known(values)
  BY <1>3 DEF Known, Shows
<1> QED
  BY <1>1, <1>2, <1>3

(* A field of the form shows the setting. *)
LEMMA FieldIs ==
  ASSUME NEW c, IsRuleset(c), NEW n, NEW l \in FormLeaves, NEW v
  PROVE  Node(<<n, l>>, v) \in c <=> Shows(l, Field(c, n, l), v)
<1> DEFINE p == <<n, l>>
           nodes == {x \in c : x.path = p}
<1>1. Field(c, n, l) = CASE nodes = {} -> Absent
                      [] nodes # {} /\ l = "log" -> Present
                      [] OTHER -> (CHOOSE x \in nodes : TRUE).val
  BY DEF Field
<1>2. Node(p, v).path = p
  BY NodeIs
<1>3. CASE nodes = {}
  <2>1. Field(c, n, l) = Absent
    BY <1>1, <1>3
  <2>2. Node(p, v) \notin c
    BY <1>2, <1>3
  <2> QED
    BY <2>1, <2>2 DEF Shows
<1>4. CASE nodes # {}
  <2> DEFINE x == CHOOSE x \in nodes : TRUE
  <2>1. x \in nodes
    BY <1>4
  <2>2. x \in c /\ x.path = p
    BY <2>1
  <2>3. Field(c, n, l) = IF l = "log" THEN Present ELSE x.val
    BY <1>1, <1>4
  <2> HIDE DEF x, nodes
  <2>4. x = Node(p, x.val) /\ Fits(l, x.val)
    <3>1. IsRuleNode(x) /\ ~IsRulePath(p) /\ p[2] = l
      BY <2>2, LeafPaths DEF IsRuleset, IsRulePath
    <3> QED
      BY <2>2, <3>1 DEF IsRuleNode
  <2>5. Node(p, v) \in c <=> v = x.val
    <3>1. Node(p, v) \in c => Node(p, v) = x
      BY <1>2, <2>2 DEF IsRuleset
    <3>2. Node(p, v) = Node(p, x.val) <=> v = x.val
      BY NodeIs
    <3> QED
      BY <2>2, <2>4, <3>1, <3>2
  <2>6. CASE l = "log"
    BY <2>3, <2>4, <2>5, <2>6, PresentAssumption DEF Shows, Fits
  <2>7. CASE l # "log"
    BY <2>3, <2>4, <2>5, <2>7 DEF Shows, Fits, FormLeaves, Absent
  <2> QED
    BY <2>6, <2>7
<1> QED
  BY <1>3, <1>4

-----------------------------------------------------------------------------
(* Gestures on different rules.  The inductive invariant: as long as they  *)
(* are, the queue holds the operations of every gesture, as they would be  *)
(* computed now, and nothing else.                                         *)

Before(c, g) == IF g.rule = NoNumber THEN BlankRuleFormValues ELSE RuleToFormValues(c, g.number)

GestureOps(c, g) ==
  IF g.kind = "delete" THEN {DeleteNode(<<g.number>>)}
  ELSE {FieldOp(g.number, l, g.values[l]) : l \in {m \in FormLeaves : Before(c, g)[m] # g.values[m]}}

IsGesture(c, g) ==
  /\ g.kind \in {"save", "delete"} /\ g.number \in Number
  /\ g.kind = "save" /\ g.rule = NoNumber => \A n \in c : n.path[1] # g.number

Separate(gestures) ==
  /\ \A i \in DOMAIN gestures : gestures[i].kind # "move"
  /\ \A i, j \in DOMAIN gestures : gestures[i].number = gestures[j].number => i = j

AllOps(c, gestures) == UNION {GestureOps(c, gestures[i]) : i \in DOMAIN gestures}

QueueInv ==
  /\ \A i \in DOMAIN asked : asked[i].kind # "move" => IsGesture(router, asked[i])
  /\ Separate(asked) => Range(queue) = AllOps(router, asked)

(* The operations of a gesture. *)
LEMMA GestureOpIs ==
  ASSUME NEW c, NEW g, IsGesture(c, g), NEW op \in GestureOps(c, g)
  PROVE  /\ IsRuleOp(op) /\ op.path[1] = g.number
         /\ \/ g.kind = "delete" /\ op = DeleteNode(<<g.number>>)
            \/ /\ g.kind = "save"
               /\ \E l \in FormLeaves : /\ Before(c, g)[l] # g.values[l]
                                        /\ op = FieldOp(g.number, l, g.values[l]) /\ op.path = <<g.number, l>>
<1>1. CASE g.kind = "delete"
  <2>1. op = DeleteNode(<<g.number>>) /\ op.path = <<g.number>>
    BY <1>1, OpPath DEF GestureOps
  <2>2. IsRulePath(op.path)
    BY <2>1 DEF IsRulePath, IsGesture
  <2> QED
    BY <1>1, <2>1, <2>2 DEF IsRuleOp
<1>2. CASE g.kind = "save"
  <2>1. PICK l \in FormLeaves : Before(c, g)[l] # g.values[l] /\ op = FieldOp(g.number, l, g.values[l])
    BY <1>2 DEF GestureOps
  <2>2. op.path = <<g.number, l>> /\ IsRuleOp(op)
    BY <2>1, FieldOpIs DEF IsGesture
  <2> QED
    BY <1>2, <2>1, <2>2
<1> QED
  BY <1>1, <1>2 DEF IsGesture

(* What two gestures on one rule do not queue together. *)
LEMMA NothingTakenBack ==
  ASSUME NEW c, NEW gestures, Separate(gestures), \A i \in DOMAIN gestures : IsGesture(c, gestures[i])
  PROVE  /\ \A op \in AllOps(c, gestures) : IsRuleOp(op)
         /\ \A op \in AllOps(c, gestures) : op = SetNode(op.path) => DeleteNode(op.path) \notin AllOps(c, gestures)
<1>1. ASSUME NEW op \in AllOps(c, gestures) PROVE IsRuleOp(op)
  <2>1. PICK i \in DOMAIN gestures : op \in GestureOps(c, gestures[i])
    BY DEF AllOps
  <2> QED
    BY <2>1, GestureOpIs
<1>2. ASSUME NEW op \in AllOps(c, gestures), op = SetNode(op.path), DeleteNode(op.path) \in AllOps(c, gestures) PROVE FALSE
  <2> DEFINE p == op.path
             del == DeleteNode(p)
  <2>1. op = SetNode(p) /\ op.path = p /\ del.path = p
    BY <1>2, OpPath
  <2>2. SetNode(p) # DeleteNode(p)
    BY DEF SetNode, SetOp, DeleteNode, DeleteOp
  <2>3. del \in AllOps(c, gestures) /\ op # del
    BY <1>2, <2>1, <2>2
  <2> HIDE DEF p, del
  <2>4. PICK i \in DOMAIN gestures : op \in GestureOps(c, gestures[i])
    BY DEF AllOps
  <2>5. PICK j \in DOMAIN gestures : del \in GestureOps(c, gestures[j])
    BY <2>3 DEF AllOps
  <2> DEFINE g == gestures[i]
             h == gestures[j]
  <2>6. IsGesture(c, g) /\ IsGesture(c, h) /\ op \in GestureOps(c, g) /\ del \in GestureOps(c, h)
    BY <2>4, <2>5
  <2>7. i = j
    <3>1. op.path[1] = g.number
      BY <2>6, GestureOpIs
    <3>2. del.path[1] = h.number
      BY <2>6, GestureOpIs
    <3> QED
      BY <2>1, <3>1, <3>2 DEF Separate
  <2>8. del \in GestureOps(c, g)
    BY <2>6, <2>7
  <2> HIDE DEF g, h
  <2>9. CASE g.kind = "delete"
    BY <2>3, <2>6, <2>8, <2>9 DEF GestureOps
  <2>10. CASE g.kind # "delete"
    <3>1. PICK l \in FormLeaves : op = FieldOp(g.number, l, g.values[l]) /\ op.path = <<g.number, l>>
      BY <2>6, <2>10, GestureOpIs
    <3>2. PICK k \in FormLeaves : del = FieldOp(g.number, k, g.values[k]) /\ del.path = <<g.number, k>>
      BY <2>6, <2>8, <2>10, GestureOpIs
    <3>3. k = l
      BY <2>1, <3>1, <3>2
    <3> QED
      BY <2>3, <3>1, <3>2, <3>3
  <2> QED
    BY <2>9, <2>10
<1> QED
  BY <1>1, <1>2

(* What a queued gesture is and queues. *)
LEMMA QueueKeeps ==
  ASSUME TypeOK, QueueInv, NEW ops, NEW g, Queue(ops, g), g.kind # "move",
         IsGesture(router, g), ops \in Seq(GestureOps(router, g)), Range(ops) = GestureOps(router, g)
  PROVE  QueueInv'
<1> DEFINE c == router
           a == asked
           b == Append(a, g)
           n == Len(a)
<1>1. a \in Seq(Range(a)) /\ n \in Nat /\ DOMAIN a = 1..n
  BY DEF TypeOK
<1>2. /\ DOMAIN b = 1..(n + 1) /\ (\A i \in 1..n : b[i] = a[i]) /\ b[n + 1] = g
  <2>1. a \in Seq(Range(a) \cup {g}) /\ g \in Range(a) \cup {g}
    BY <1>1, SeqMonotonic
  <2> HIDE DEF a
  <2> QED
    BY <2>1
<1>3. asked' = b /\ queue' = AddAll(queue, ops) /\ router' = router
  BY DEF Queue
<1>0. IsGesture(c, g) /\ ops \in Seq(GestureOps(c, g)) /\ Range(ops) = GestureOps(c, g)
  OBVIOUS
<1> HIDE DEF c, a, b, n
<1>4. \A i \in DOMAIN b : b[i].kind # "move" => IsGesture(c, b[i])
  <2>1. \A i \in DOMAIN a : a[i].kind # "move" => IsGesture(c, a[i])
    BY DEF QueueInv, a, c
  <2>2. \A i \in DOMAIN b : i \in DOMAIN a \/ i = n + 1
    BY <1>1, <1>2
  <2>3. ASSUME NEW i \in DOMAIN b, b[i].kind # "move" PROVE IsGesture(c, b[i])
    <3>1. CASE i \in DOMAIN a
      <4>1. b[i] = a[i]
        BY <1>1, <1>2, <3>1
      <4> QED
        BY <2>1, <2>3, <3>1, <4>1
    <3>2. CASE i = n + 1
      BY <1>2, <1>0, <3>2
    <3> QED
      BY <2>2, <3>1, <3>2
  <2> QED
    BY <2>3
<1>5. ASSUME Separate(b) PROVE Range(AddAll(queue, ops)) = AllOps(c, b)
  <2>1. Separate(a)
    <3>1. \A i \in DOMAIN a : i \in DOMAIN b /\ b[i] = a[i]
      BY <1>1, <1>2
    <3> QED
      BY <1>5, <3>1 DEF Separate
  <2>2. Range(queue) = AllOps(c, a)
    BY <2>1 DEF QueueInv, a, c
  <2>3. AllOps(c, b) = AllOps(c, a) \cup GestureOps(c, g)
    <3>1. DOMAIN b = DOMAIN a \cup {n + 1}
      BY <1>1, <1>2
    <3>2. \A i \in DOMAIN a : b[i] = a[i]
      BY <1>1, <1>2
    <3>3. ASSUME NEW op \in AllOps(c, b) PROVE op \in AllOps(c, a) \cup GestureOps(c, g)
      <4>1. PICK i \in DOMAIN b : op \in GestureOps(c, b[i])
        BY DEF AllOps
      <4>2. CASE i \in DOMAIN a
        BY <3>2, <4>1, <4>2 DEF AllOps
      <4>3. CASE i = n + 1
        BY <1>2, <4>1, <4>3
      <4> QED
        BY <3>1, <4>2, <4>3
    <3>4. ASSUME NEW op \in AllOps(c, a) PROVE op \in AllOps(c, b)
      <4>1. PICK i \in DOMAIN a : op \in GestureOps(c, a[i])
        BY DEF AllOps
      <4>2. i \in DOMAIN b /\ b[i] = a[i]
        BY <3>1, <3>2
      <4> QED
        BY <4>1, <4>2 DEF AllOps
    <3>5. ASSUME NEW op \in GestureOps(c, g) PROVE op \in AllOps(c, b)
      <4>1. n + 1 \in DOMAIN b /\ b[n + 1] = g
        BY <1>2, <3>1
      <4> QED
        BY <4>1 DEF AllOps
    <3> QED
      BY <3>3, <3>4, <3>5
  <2> DEFINE O == AllOps(c, b)
  <2>4. /\ \A op \in O : IsRuleOp(op)
        /\ \A op \in O : op = SetNode(op.path) => DeleteNode(op.path) \notin O
    <3>1. \A i \in DOMAIN b : IsGesture(c, b[i])
      BY <1>4, <1>5 DEF Separate
    <3> QED
      BY <1>5, <3>1, NothingTakenBack
  <2>5. queue \in Seq(O)
    <3>1. queue \in Seq(Range(queue)) /\ Range(queue) \subseteq O
      BY <2>2, <2>3 DEF TypeOK
    <3> HIDE DEF O
    <3> QED
      BY <3>1, SeqMonotonic
  <2>6. ops \in Seq(O)
    <3>1. GestureOps(c, g) \subseteq O
      BY <2>3
    <3> HIDE DEF O
    <3> QED
      BY <1>0, <3>1, SeqMonotonic
  <2> HIDE DEF O
  <2>7. Range(AddAll(queue, ops)) = Range(queue) \cup Range(ops)
    BY <2>4, <2>5, <2>6, AddedAllRange
  <2> QED
    BY <1>0, <2>2, <2>3, <2>7 DEF O
<1> QED
  BY <1>3, <1>4, <1>5 DEF QueueInv, c

(* A move ends the comparison of gestures until the next commit. *)
LEMMA MoveKeeps ==
  ASSUME TypeOK, QueueInv, NEW ops, NEW g, Queue(ops, g), g.kind = "move"
  PROVE  QueueInv'
<1> DEFINE a == asked
           b == Append(a, g)
           n == Len(a)
<1>1. a \in Seq(Range(a)) /\ n \in Nat /\ DOMAIN a = 1..n
  BY DEF TypeOK
<1>2. DOMAIN b = 1..(n + 1) /\ (\A i \in 1..n : b[i] = a[i]) /\ b[n + 1] = g
  <2>1. a \in Seq(Range(a) \cup {g}) /\ g \in Range(a) \cup {g}
    BY <1>1, SeqMonotonic
  <2> HIDE DEF a
  <2> QED
    BY <2>1
<1>3. asked' = b /\ router' = router
  BY DEF Queue
<1>4. \A i \in DOMAIN a : a[i].kind # "move" => IsGesture(router, a[i])
  BY DEF QueueInv
<1> HIDE DEF a, b, n
<1>5. ASSUME NEW i \in DOMAIN b, b[i].kind # "move" PROVE IsGesture(router, b[i])
  <2>1. i \in DOMAIN a /\ b[i] = a[i]
    BY <1>1, <1>2, <1>5
  <2> QED
    BY <1>4, <1>5, <2>1
<1>6. ~Separate(b)
  <2>1. n + 1 \in DOMAIN b
    BY <1>1, <1>2
  <2> QED
    BY <1>2, <2>1 DEF Separate
<1> QED
  BY <1>3, <1>5, <1>6 DEF QueueInv

LEMMA SubmitKeeps ==
  ASSUME TypeOK, QueueInv, NEW values, NEW number, Submit(values, number)
  PROVE  QueueInv'
<1> DEFINE before == IF form.rule = NoNumber THEN BlankRuleFormValues ELSE RuleToFormValues(router, number)
           ops == RuleFormToOps(number, before, values)
           g == [kind |-> "save", rule |-> form.rule, number |-> number, opened |-> form.values, values |-> values, ops |-> ops]
           O == {FieldOp(number, l, values[l]) : l \in {m \in FormLeaves : before[m] # values[m]}}
<1>1. number \in Number
  BY SubmitNumber
<1>2. Queue(ops, g)
  BY DEF Submit
<1>3. g.kind = "save" /\ g.rule = form.rule /\ g.number = number /\ g.values = values
  OBVIOUS
<1>4. Range(ops) = O /\ ops \in Seq(RuleFormOps(number, values))
  BY RuleFormToOpsIs
<1>5. form.rule = NoNumber => number \notin RuleNumbers
  <2>1. Range(Shown) = RuleNumbers
    BY ShownIs DEF TypeOK
  <2> QED
    BY <2>1 DEF Submit
<1> HIDE DEF g, ops
<1>6. before = Before(router, g)
  BY <1>3 DEF Before
<1>7. GestureOps(router, g) = O
  BY <1>3, <1>6 DEF GestureOps
<1>8. IsGesture(router, g)
  BY <1>1, <1>3, <1>5 DEF IsGesture, RuleNumbers
<1>9. ops \in Seq(O)
  <2> HIDE DEF O
  <2>1. \A i \in 1..Len(ops) : ops[i] \in O
    BY <1>4 DEF Range
  <2> QED
    BY <1>4, <2>1
<1> HIDE DEF O
<1> QED
  BY <1>2, <1>3, <1>4, <1>7, <1>8, <1>9, QueueKeeps

LEMMA DeleteKeeps ==
  ASSUME TypeOK, QueueInv, NEW n \in Number, QueueDeleteRule(n)
  PROVE  QueueInv'
<1> DEFINE op == DeleteNode(<<n>>)
           ops == <<op>>
           g == [kind |-> "delete", number |-> n]
<1>1. Queue(ops, g)
  BY DEF QueueDeleteRule
<1>2. g.kind = "delete" /\ g.number = n
  OBVIOUS
<1> HIDE DEF g
<1>3. GestureOps(router, g) = {op}
  BY <1>2 DEF GestureOps
<1>4. IsGesture(router, g)
  BY <1>2 DEF IsGesture
<1> HIDE DEF op
<1>5. ops \in Seq({op}) /\ Range(ops) = {op}
  BY DEF Range
<1> HIDE DEF ops
<1> QED
  BY <1>1, <1>2, <1>3, <1>4, <1>5, QueueKeeps

LEMMA NextQueueInv ==
  ASSUME TypeInv, QueueInv, [Next]_vars
  PROVE  QueueInv'
<1>1. TypeOK
  BY DEF TypeInv
<1>2. ASSUME UNCHANGED <<router, queue, asked>> PROVE QueueInv'
  BY <1>2 DEF QueueInv
<1>3. \A i \in DOMAIN Shown : Shown[i] \in Number
  <2>1. Shown \in Seq(Number)
    BY <1>1, ShownIs DEF TypeOK
  <2> QED
    BY <2>1
<1>4. CASE OpenAdd \/ Cancel \/ \E i \in DOMAIN Shown : OpenEdit(Shown[i])
  BY <1>2, <1>4 DEF OpenAdd, Cancel, OpenEdit, Show
<1>5. CASE \E i \in DOMAIN Shown : QueueDeleteRule(Shown[i])
  BY <1>1, <1>3, <1>5, DeleteKeeps
<1>6. CASE \E from, to \in DOMAIN Shown : ReorderRule(from, to)
  <2>1. PICK from, to \in DOMAIN Shown : ReorderRule(from, to)
    BY <1>6
  <2> DEFINE g == [kind |-> "move", from |-> from, to |-> to]
  <2>2. Queue(ReorderRuleOps(from, to), g) /\ g.kind = "move"
    BY <2>1 DEF ReorderRule
  <2> HIDE DEF g
  <2> QED
    BY <1>1, <2>2, MoveKeeps
<1>7. CASE \E values \in TypedValues, n \in Typed \cup {form.number} : Submit(values, n)
  BY <1>1, <1>7, SubmitKeeps, Zenon
<1>8. CASE Commit
  <2>1. queue' = <<>> /\ asked' = <<>>
    BY <1>8 DEF Commit
  <2>2. AllOps(router', <<>>) = {} /\ Range(<<>>) = {} /\ DOMAIN <<>> = {}
    BY DEF AllOps, Range
  <2> DEFINE e == <<>>
  <2>3. queue' = e /\ asked' = e /\ AllOps(router', e) = {} /\ Range(e) = {} /\ DOMAIN e = {}
    BY <2>1, <2>2
  <2> HIDE DEF e
  <2> QED
    BY <2>3 DEF QueueInv
<1>9. CASE UNCHANGED vars
  BY <1>2, <1>9 DEF vars
<1> QED
  BY <1>4, <1>5, <1>6, <1>7, <1>8, <1>9, Zenon DEF Next

LEMMA InitQueueInv ==
  ASSUME Init
  PROVE  QueueInv
<1>1. queue = <<>> /\ asked = <<>>
  BY DEF Init
<1>2. AllOps(router, <<>>) = {} /\ Range(<<>>) = {} /\ DOMAIN <<>> = {}
  BY DEF AllOps, Range
<1> DEFINE e == <<>>
<1>3. queue = e /\ asked = e /\ AllOps(router, e) = {} /\ Range(e) = {} /\ DOMAIN e = {}
  BY <1>1, <1>2
<1> HIDE DEF e
<1> QED
  BY <1>3 DEF QueueInv

-----------------------------------------------------------------------------
(* What a commit makes of one rule *)

(* A setting that no operation names stays. *)
LEMMA UntouchedSetting ==
  ASSUME NEW c, IsRuleset(c), NEW ops, NEW k, RuleOps(ops, k),
         NEW n, NEW l, NEW v,
         \A i \in 1..k : ~MayDisturb(ops[i], n, l)
  PROVE  Node(<<n, l>>, v) \in AfterOps(c, ops, {}) <=> Node(<<n, l>>, v) \in c
<1> DEFINE o == DeleteNode(<<n>>)
           x == Node(<<n, l>>, v)
           none == {}
<1>1. \A i \in 1..k : ops[i] # o
  BY OpPath DEF MayDisturb
<1>2. ASSUME NEW i \in 1..k, ops[i] # o, NEW d, IsRuleset(d) PROVE x \in AfterOp(d, ops[i], {}) <=> x \in d
  BY <1>2, OtherOp DEF MayDisturb, RuleOps
<1>3. ASSUME NEW d, IsRuleset(d) PROVE x \in AfterOp(d, o, {}) <=> x \in none
  BY <1>3, NothingLeft
<1>4. Decides(ops, k, x, o, none)
  BY <1>2, <1>3 DEF Decides
<1> HIDE DEF o, x, none
<1>5. x \in AfterOps(c, ops, {}) <=> x \in c
  BY <1>1, <1>4, SettingAfterOps
<1> QED
  BY <1>5 DEF x

(* A setting of a rule that is deleted is gone. *)
LEMMA DeletedSetting ==
  ASSUME NEW c, IsRuleset(c), NEW ops, NEW k, RuleOps(ops, k),
         NEW n, NEW l, NEW v,
         \A i \in 1..k : ops[i] = DeleteNode(<<n>>) \/ ~MayDisturb(ops[i], n, l),
         \E i \in 1..k : ops[i] = DeleteNode(<<n>>)
  PROVE  Node(<<n, l>>, v) \notin AfterOps(c, ops, {})
<1> DEFINE o == DeleteNode(<<n>>)
           x == Node(<<n, l>>, v)
           none == {}
<1>1. \E i \in 1..k : ops[i] = o
  OBVIOUS
<1>2. ASSUME NEW i \in 1..k, ops[i] # o, NEW d, IsRuleset(d) PROVE x \in AfterOp(d, ops[i], {}) <=> x \in d
  BY <1>2, OtherOp DEF MayDisturb, RuleOps
<1>3. ASSUME NEW d, IsRuleset(d) PROVE x \in AfterOp(d, o, {}) <=> x \in none
  BY <1>3, NothingLeft
<1>4. Decides(ops, k, x, o, none)
  BY <1>2, <1>3 DEF Decides
<1> HIDE DEF o, x, none
<1>5. x \in AfterOps(c, ops, {}) <=> x \in none
  BY <1>1, <1>4, SettingAfterOps
<1> QED
  BY <1>5 DEF x, none

(* A field that one operation saves shows what was saved. *)
LEMMA SavedSetting ==
  ASSUME NEW c, IsRuleset(c), NEW ops, NEW k, RuleOps(ops, k),
         NEW n, NEW l \in FormLeaves, NEW value, NEW v,
         \A i \in 1..k : ops[i] = FieldOp(n, l, value) \/ ~MayDisturb(ops[i], n, l),
         \E i \in 1..k : ops[i] = FieldOp(n, l, value)
  PROVE  Node(<<n, l>>, v) \in AfterOps(c, ops, {}) <=> Shows(l, value, v)
<1> DEFINE o == FieldOp(n, l, value)
           x == Node(<<n, l>>, v)
           saved == {y \in {x} : Shows(l, value, v)}
<1>1. \E i \in 1..k : ops[i] = o
  OBVIOUS
<1>2. ASSUME NEW i \in 1..k, ops[i] # o, NEW d, IsRuleset(d) PROVE x \in AfterOp(d, ops[i], {}) <=> x \in d
  BY <1>2, OtherOp DEF MayDisturb, RuleOps
<1>3. ASSUME NEW d, IsRuleset(d) PROVE x \in AfterOp(d, o, {}) <=> x \in saved
  BY <1>3, FieldIsSaved
<1>4. x \in saved <=> Shows(l, value, v)
  OBVIOUS
<1>5. Decides(ops, k, x, o, saved)
  BY <1>2, <1>3 DEF Decides
<1> HIDE DEF o, x, saved
<1>6. x \in AfterOps(c, ops, {}) <=> x \in saved
  BY <1>1, <1>5, SettingAfterOps
<1> QED
  BY <1>4, <1>6 DEF x

LEMMA UntouchedRule ==
  ASSUME NEW c, IsRuleset(c), NEW ops, NEW k, RuleOps(ops, k),
         IsRuleset(AfterOps(c, ops, {})), NEW n, \A i \in 1..k : ops[i].path[1] # n
  PROVE  Content(AfterOps(c, ops, {}), n) = Content(c, n)
<1> DEFINE d == AfterOps(c, ops, {})
<1>1. ASSUME NEW l, NEW v PROVE Node(<<n, l>>, v) \in d <=> Node(<<n, l>>, v) \in c
  <2>1. \A i \in 1..k : ~MayDisturb(ops[i], n, l)
    BY DEF MayDisturb
  <2> QED
    BY <2>1, UntouchedSetting
<1> HIDE DEF d
<1>2. IsRuleset(d)
  BY DEF d
<1>3. /\ \A s \in Content(c, n) : s = <<s[1], s[2]>>
      /\ \A s \in Content(d, n) : s = <<s[1], s[2]>>
  BY <1>2, ContentIs
<1>4. \A l, v : <<l, v>> \in Content(d, n) <=> <<l, v>> \in Content(c, n)
  BY <1>1, <1>2, ContentIs
<1> QED
  BY <1>3, <1>4, SamePairs DEF d

LEMMA DeletedRule ==
  ASSUME NEW c, IsRuleset(c), NEW ops, NEW k, RuleOps(ops, k),
         IsRuleset(AfterOps(c, ops, {})), NEW n,
         \A i \in 1..k : ops[i].path[1] = n => ops[i] = DeleteNode(<<n>>),
         \E i \in 1..k : ops[i] = DeleteNode(<<n>>)
  PROVE  Content(AfterOps(c, ops, {}), n) = {}
<1> DEFINE d == AfterOps(c, ops, {})
<1>1. ASSUME NEW l, NEW v PROVE Node(<<n, l>>, v) \notin d
  <2>1. \A i \in 1..k : ops[i] = DeleteNode(<<n>>) \/ ~MayDisturb(ops[i], n, l)
    BY DEF MayDisturb
  <2> QED
    BY <2>1, DeletedSetting
<1> HIDE DEF d
<1>2. IsRuleset(d)
  BY DEF d
<1>3. ASSUME NEW s \in Content(d, n) PROVE FALSE
  <2>1. <<s[1], s[2]>> \in Content(d, n)
    BY <1>2, <1>3, ContentIs
  <2>2. Node(<<n, s[1]>>, s[2]) \in d
    BY <1>2, <2>1, ContentIs
  <2> QED
    BY <1>1, <2>2
<1> QED
  BY <1>3 DEF d

(* A save changes the fields that differ and nothing else of the rule. *)
LEMMA SavedRule ==
  ASSUME NEW c, IsRuleset(c), NEW ops, NEW k, RuleOps(ops, k),
         IsRuleset(AfterOps(c, ops, {})), NEW g, IsGesture(c, g), g.kind = "save",
         \A i \in 1..k : ops[i].path[1] = g.number => ops[i] \in GestureOps(c, g),
         \A op \in GestureOps(c, g) : \E i \in 1..k : ops[i] = op
  PROVE  Content(AfterOps(c, ops, {}), g.number) =
           Known(g.values) \cup {s \in Content(c, g.number) : s[1] \notin FormLeaves}
<1> DEFINE d == AfterOps(c, ops, {})
           n == g.number
           after(l, v) == IF l \in FormLeaves THEN Shows(l, g.values[l], v) ELSE Node(<<n, l>>, v) \in c
           unknown == {s \in Content(c, n) : s[1] \notin FormLeaves}
<1>1. ASSUME NEW op \in GestureOps(c, g)
      PROVE  \E m \in FormLeaves : Before(c, g)[m] # g.values[m] /\ op = FieldOp(n, m, g.values[m]) /\ op.path = <<n, m>>
  <2>1. PICK m \in FormLeaves : Before(c, g)[m] # g.values[m] /\ op = FieldOp(n, m, g.values[m])
    BY DEF GestureOps
  <2>2. op.path = <<n, m>>
    BY <2>1, FieldOpIs DEF IsGesture
  <2> QED
    BY <2>1, <2>2
<1>2. \A m \in FormLeaves : Before(c, g)[m] # g.values[m] => FieldOp(n, m, g.values[m]) \in GestureOps(c, g)
  BY DEF GestureOps
<1>3. ASSUME NEW l \in FormLeaves, NEW v PROVE Node(<<n, l>>, v) \in c <=> Shows(l, Before(c, g)[l], v)
  <2>1. CASE g.rule = NoNumber
    <3>1. Before(c, g)[l] = Absent
      BY <2>1 DEF Before, BlankRuleFormValues
    <3>2. Node(<<n, l>>, v) \notin c
      <4>1. Node(<<n, l>>, v).path[1] = n
        BY NodeIs
      <4> QED
        BY <2>1, <4>1 DEF IsGesture
    <3> QED
      BY <3>1, <3>2 DEF Shows
  <2>2. CASE g.rule # NoNumber
    <3>1. Before(c, g)[l] = Field(c, n, l)
      BY <2>2 DEF Before, RuleToFormValues
    <3> QED
      BY <3>1, FieldIs
  <2> QED
    BY <2>1, <2>2
<1>4. ASSUME NEW l, NEW v PROVE Node(<<n, l>>, v) \in d <=> after(l, v)
  <2>1. CASE l \in FormLeaves /\ Before(c, g)[l] # g.values[l]
    <3> DEFINE value == g.values[l]
               o == FieldOp(n, l, value)
    <3>1. \A i \in 1..k : ops[i] = o \/ ~MayDisturb(ops[i], n, l)
      <4> SUFFICES ASSUME NEW i \in 1..k, MayDisturb(ops[i], n, l) PROVE ops[i] = o
        OBVIOUS
      <4>1. ops[i] \in GestureOps(c, g)
        BY DEF MayDisturb
      <4>2. PICK m \in FormLeaves : ops[i] = FieldOp(n, m, g.values[m]) /\ ops[i].path = <<n, m>>
        BY <1>1, <4>1
      <4>3. m = l
        BY <4>2, LeafPaths DEF MayDisturb
      <4> QED
        BY <4>2, <4>3
    <3>2. \E i \in 1..k : ops[i] = o
      BY <1>2, <2>1
    <3> HIDE DEF value, n
    <3>3. Node(<<n, l>>, v) \in d <=> Shows(l, value, v)
      BY <2>1, <3>1, <3>2, SavedSetting
    <3> QED
      BY <2>1, <3>3 DEF value
  <2>2. CASE ~(l \in FormLeaves /\ Before(c, g)[l] # g.values[l])
    <3>1. \A i \in 1..k : ~MayDisturb(ops[i], n, l)
      <4> SUFFICES ASSUME NEW i \in 1..k, MayDisturb(ops[i], n, l) PROVE FALSE
        OBVIOUS
      <4>1. ops[i] \in GestureOps(c, g)
        BY DEF MayDisturb
      <4>2. PICK m \in FormLeaves : Before(c, g)[m] # g.values[m] /\ ops[i].path = <<n, m>>
        BY <1>1, <4>1
      <4>3. m = l
        BY <4>2, LeafPaths DEF MayDisturb
      <4> QED
        BY <2>2, <4>2, <4>3
    <3>2. Node(<<n, l>>, v) \in d <=> Node(<<n, l>>, v) \in c
      BY <3>1, UntouchedSetting
    <3>3. CASE l \in FormLeaves
      BY <1>3, <2>2, <3>2, <3>3
    <3>4. CASE l \notin FormLeaves
      BY <3>2, <3>4
    <3> QED
      BY <3>3, <3>4
  <2> QED
    BY <2>1, <2>2
<1>5. IsRuleset(d)
  OBVIOUS
<1> HIDE DEF d, n
<1>6. ASSUME NEW l, NEW v PROVE <<l, v>> \in Content(d, n) <=> <<l, v>> \in Known(g.values) \cup unknown
  <2>1. <<l, v>> \in Content(d, n) <=> after(l, v)
    BY <1>4, <1>5, ContentIs
  <2>2. <<l, v>> \in Known(g.values) <=> l \in FormLeaves /\ Shows(l, g.values[l], v)
    BY KnownIs
  <2>3. <<l, v>> \in unknown <=> l \notin FormLeaves /\ Node(<<n, l>>, v) \in c
    BY ContentIs
  <2> QED
    BY <2>1, <2>2, <2>3
<1>7. \A s \in Content(d, n) : s = <<s[1], s[2]>>
  BY <1>5, ContentIs
<1>8. \A s \in Known(g.values) \cup unknown : s = <<s[1], s[2]>>
  BY KnownIs, ContentIs
<1> HIDE DEF unknown
<1> QED
  BY <1>6, <1>7, <1>8, SamePairs DEF d, n, unknown

(* The gesture on a rule, and the operations queued for it. *)
LEMMA GestureOn ==
  ASSUME TypeOK, QueueInv, Separate(asked), NEW i \in DOMAIN asked
  PROVE  LET g == asked[i]
             h == CHOOSE f \in Range(asked) : f.number = g.number
         IN /\ h = g /\ IsGesture(router, g)
            /\ \A op \in Range(queue) : op.path[1] = g.number => op \in GestureOps(router, g)
            /\ GestureOps(router, g) \subseteq Range(queue)
<1> DEFINE g == asked[i]
           h == CHOOSE f \in Range(asked) : f.number = g.number
<1>1. \A j \in DOMAIN asked : IsGesture(router, asked[j])
  BY DEF Separate, QueueInv
<1>2. h = g
  <2>1. \A f \in Range(asked) : \E j \in DOMAIN asked : f = asked[j]
    BY DEF Range
  <2>2. g \in Range(asked)
    BY DEF Range
  <2> HIDE DEF g
  <2>3. h \in Range(asked) /\ h.number = g.number
    BY <2>2
  <2> HIDE DEF h
  <2>4. PICK j \in DOMAIN asked : h = asked[j]
    BY <2>1, <2>3
  <2> QED
    BY <2>3, <2>4 DEF Separate, g
<1>3. Range(queue) = AllOps(router, asked)
  BY DEF QueueInv
<1>4. ASSUME NEW op \in Range(queue), op.path[1] = g.number PROVE op \in GestureOps(router, g)
  <2>1. PICK j \in DOMAIN asked : op \in GestureOps(router, asked[j])
    BY <1>3 DEF AllOps
  <2>2. op.path[1] = asked[j].number
    BY <1>1, <2>1, GestureOpIs
  <2>3. j = i
    BY <1>4, <2>2 DEF Separate
  <2> QED
    BY <2>1, <2>3
<1>5. GestureOps(router, g) \subseteq Range(queue)
  BY <1>3 DEF AllOps
<1> QED
  BY <1>1, <1>2, <1>4, <1>5

LEMMA CommitAdds ==
  ASSUME TypeOK, QueueInv, Separate(asked), NEW n
  PROVE  Content(AfterOps(router, queue, {}), n) =
           IF \E i \in DOMAIN asked : asked[i].number = n
           THEN LET gesture == CHOOSE g \in Range(asked) : g.number = n
                IN IF gesture.kind = "delete" THEN {} ELSE Known(gesture.values) \cup Unknown(n)
           ELSE Content(router, n)
<1> DEFINE k == Len(queue)
           d == AfterOps(router, queue, {})
<1>1. IsRuleset(router) /\ IsRuleset(d)
  BY AfterQueue DEF TypeOK
<1>2. /\ RuleOps(queue, k)
      /\ \A i \in 1..k : queue[i] \in Range(queue)
      /\ \A op \in Range(queue) : \E i \in 1..k : queue[i] = op
  BY DEF RuleOps, TypeOK, Range
<1> HIDE DEF k
<1>3. CASE \E i \in DOMAIN asked : asked[i].number = n
  <2>1. PICK i \in DOMAIN asked : asked[i].number = n
    BY <1>3
  <2> DEFINE g == asked[i]
  <2>2. /\ (CHOOSE f \in Range(asked) : f.number = n) = g /\ IsGesture(router, g)
        /\ \A op \in Range(queue) : op.path[1] = n => op \in GestureOps(router, g)
        /\ GestureOps(router, g) \subseteq Range(queue)
    BY <2>1, GestureOn
  <2> HIDE DEF g
  <2>3. g.number = n
    BY <2>1 DEF g
  <2>4. CASE g.kind = "delete"
    <3>1. GestureOps(router, g) = {DeleteNode(<<n>>)}
      BY <2>3, <2>4 DEF GestureOps
    <3>2. /\ \A j \in 1..k : queue[j].path[1] = n => queue[j] = DeleteNode(<<n>>)
          /\ \E j \in 1..k : queue[j] = DeleteNode(<<n>>)
      BY <1>2, <2>2, <3>1
    <3>3. Content(d, n) = {}
      BY <1>1, <1>2, <3>2, DeletedRule
    <3> QED
      BY <1>3, <2>2, <2>4, <3>3
  <2>5. CASE g.kind # "delete"
    <3>1. g.kind = "save"
      BY <2>2, <2>5 DEF IsGesture
    <3>2. /\ \A j \in 1..k : queue[j].path[1] = g.number => queue[j] \in GestureOps(router, g)
          /\ \A op \in GestureOps(router, g) : \E j \in 1..k : queue[j] = op
      BY <1>2, <2>2, <2>3
    <3>3. Content(d, g.number) = Known(g.values) \cup {s \in Content(router, g.number) : s[1] \notin FormLeaves}
      BY <1>1, <1>2, <2>2, <3>1, <3>2, SavedRule
    <3>4. Content(d, n) = Known(g.values) \cup Unknown(n)
      BY <2>3, <3>3 DEF Unknown
    <3> QED
      BY <1>3, <2>2, <2>5, <3>4
  <2> QED
    BY <2>4, <2>5
<1>4. CASE ~\E i \in DOMAIN asked : asked[i].number = n
  <2>1. ASSUME NEW j \in 1..k, queue[j].path[1] = n PROVE FALSE
    <3>1. PICK i \in DOMAIN asked : queue[j] \in GestureOps(router, asked[i])
      BY <1>2 DEF QueueInv, AllOps
    <3>2. IsGesture(router, asked[i])
      BY DEF Separate, QueueInv
    <3>3. queue[j].path[1] = asked[i].number
      BY <3>1, <3>2, GestureOpIs
    <3> QED
      BY <1>4, <2>1, <3>3
  <2>2. Content(d, n) = Content(router, n)
    BY <1>1, <1>2, <2>1, UntouchedRule
  <2> QED
    BY <1>4, <2>2
<1> QED
  BY <1>3, <1>4

(* What is queued, and why: the two parts of the induction together. *)
THEOREM QueueInvariant == Spec => []QueueInv
<1>1. Init => TypeInv /\ QueueInv
  BY InitType, InitQueueInv DEF Init, TypeInv
<1>2. TypeInv /\ QueueInv /\ [Next]_vars => (TypeInv /\ QueueInv)'
  BY NextTypeInv, NextQueueInv
<1> QED
  BY <1>1, <1>2, PTL DEF Spec

(***************************************************************************)
(* Gestures on different rules add up: whatever forms are saved and rules  *)
(* deleted before a commit, in whatever order, every rule is afterwards    *)
(* what the gesture on it made of it, and every other rule is as it was.   *)
(***************************************************************************)
THEOREM SeparateGesturesAlwaysAdd == Spec => SeparateGesturesAdd
<1> DEFINE Separately ==
      Commit /\ (\A i \in DOMAIN asked : asked[i].kind # "move")
             /\ (\A i, j \in DOMAIN asked : asked[i].number = asked[j].number => i = j)
      => \A n \in Range(Shown) \cup {asked[i].number : i \in DOMAIN asked} : Content(router', n) =
           IF \E i \in DOMAIN asked : asked[i].number = n
           THEN LET gesture == CHOOSE g \in Range(asked) : g.number = n
                IN IF gesture.kind = "delete" THEN {} ELSE Known(gesture.values) \cup Unknown(n)
           ELSE Content(router, n)
<1>1. ASSUME TypeInv, QueueInv, Commit, Separate(asked) PROVE Separately
  <2>1. TypeOK /\ router' = AfterOps(router, queue, {})
    BY <1>1 DEF TypeInv, Commit
  <2> QED
    BY <1>1, <2>1, CommitAdds
<1>2. TypeInv /\ QueueInv => [Separately]_vars
  BY <1>1 DEF Separate
<1>3. Spec => []TypeInv /\ []QueueInv
  BY RulesetInvariant, QueueInvariant
<1> QED
  BY <1>2, <1>3, PTL DEF SeparateGesturesAdd

-----------------------------------------------------------------------------
(* The rules in order, of any configuration *)

Numbers(c) == {n.path[1] : n \in c}

Numbering(S) == [i \in 1..Cardinality(S) |-> CHOOSE n \in S : Rank(S, n) = i - 1]

Ascending(s) == \A i, j \in DOMAIN s : i < j => s[i] < s[j]

LEMMA NumbersAre ==
  ASSUME NEW c, IsRuleset(c)
  PROVE  Numbers(c) \subseteq Number /\ Numbers(c) \subseteq Nat /\ IsFiniteSet(Numbers(c))
<1>1. Numbers(c) \subseteq Number
  <2> SUFFICES ASSUME NEW n \in c PROVE n.path[1] \in Number
    BY DEF Numbers
  <2> QED
    BY DEF IsRuleset, IsRuleNode, IsRulePath, IsLeafPath
<1>2. IsFiniteSet(Numbers(c))
  <2> DEFINE first == [n \in c |-> n.path[1]]
  <2>1. first \in Surjection(c, Numbers(c))
    BY DEF Surjection, Numbers
  <2> QED
    BY <2>1, FS_Surjection DEF IsRuleset, ExistsSurjection
<1> QED
  BY <1>1, <1>2 DEF Number

LEMMA NumberingIs ==
  ASSUME NEW S, S \subseteq Nat, IsFiniteSet(S)
  PROVE  /\ Cardinality(S) \in Nat /\ Numbering(S) \in [1..Cardinality(S) -> S]
         /\ Ascending(Numbering(S))
<1> DEFINE N == Cardinality(S)
           s == Numbering(S)
<1>1. N \in Nat
  BY FS_CardinalityType
<1>2. DOMAIN s = 1..N /\ \A i \in 1..N : s[i] = CHOOSE n \in S : Rank(S, n) = i - 1
  BY DEF Numbering
<1>3. s = [i \in 1..N |-> s[i]]
  BY DEF Numbering
<1> HIDE DEF s
<1>4. ASSUME NEW i \in 1..N PROVE s[i] \in S /\ Rank(S, s[i]) = i - 1
  <2>1. \E n \in S : Rank(S, n) = i - 1
    BY RankIsTaken
  <2> QED
    BY <1>2, <2>1
<1>5. ASSUME NEW i \in 1..N, NEW j \in 1..N, i < j PROVE s[i] < s[j]
  <2> DEFINE m == s[i]
             n == s[j]
  <2>1. m \in S /\ n \in S /\ Rank(S, m) = i - 1 /\ Rank(S, n) = j - 1
    BY <1>4
  <2> HIDE DEF m, n
  <2>2. ~(n < m)
    <3>1. n < m => Rank(S, n) < Rank(S, m)
      BY <2>1, RankIsUnique
    <3> QED
      BY <1>5, <2>1, <3>1
  <2>3. m # n
    BY <1>5, <2>1
  <2>4. m \in Nat /\ n \in Nat
    BY <2>1
  <2> QED
    BY <2>2, <2>3, <2>4 DEF m, n
<1> QED
  BY <1>1, <1>2, <1>3, <1>4, <1>5 DEF Ascending, s

(* There is one ascending sequence of the elements of a set. *)
LEMMA NumberingIsUnique ==
  ASSUME NEW s \in Seq(Nat), Ascending(s)
  PROVE  IsFiniteSet(Range(s)) /\ Numbering(Range(s)) = s
<1> DEFINE N == Len(s)
           S == Range(s)
<1>1. N \in Nat /\ DOMAIN s = 1..N /\ s = [i \in 1..N |-> s[i]] /\ \A i \in 1..N : s[i] \in Nat /\ s[i] \in S
  BY DEF Range
<1>2. \A n \in S : \E i \in 1..N : n = s[i]
  BY <1>1 DEF Range
<1>3. \A i, j \in 1..N : i < j => s[i] < s[j]
  BY <1>1 DEF Ascending
<1> HIDE DEF N, S
<1>4. \A i, j \in 1..N : (s[i] < s[j] <=> i < j) /\ (s[i] = s[j] => i = j)
  <2> SUFFICES ASSUME NEW i \in 1..N, NEW j \in 1..N PROVE (s[i] < s[j] <=> i < j) /\ (s[i] = s[j] => i = j)
    OBVIOUS
  <2>1. i < j \/ j < i \/ i = j
    BY <1>1
  <2>2. s[i] \in Nat /\ s[j] \in Nat /\ (i < j => s[i] < s[j]) /\ (j < i => s[j] < s[i])
    BY <1>1, <1>3
  <2>3. i \in Nat /\ j \in Nat
    BY <1>1
  <2> QED
    BY <2>1, <2>2, <2>3
<1>5. ASSUME NEW k \in 0..N, NEW R, R = {s[j] : j \in 1..k}
      PROVE  IsFiniteSet(R) /\ Cardinality(R) = k
  <2> DEFINE f == [j \in 1..k |-> s[j]]
  <2>1. k \in Nat /\ \A j \in 1..k : j \in 1..N
    BY <1>1
  <2>2. f \in Bijection(1..k, R)
    <3>1. f \in [1..k -> R] /\ \A y \in R : \E j \in 1..k : f[j] = y
      BY <1>5
    <3>2. \A i, j \in 1..k : f[i] = f[j] => i = j
      BY <1>4, <2>1
    <3> QED
      BY <3>1, <3>2 DEF Bijection, Injection, IsInjective, Surjection
  <2>3. IsFiniteSet(1..k) /\ Cardinality(1..k) = k
    <3>1. 1 \in Int /\ k \in Int
      BY <2>1
    <3> QED
      BY <2>1, <3>1, FS_Interval
  <2> HIDE DEF f
  <2> QED
    BY <2>2, <2>3, FS_Bijection DEF ExistsBijection
<1>6. IsFiniteSet(S) /\ Cardinality(S) = N
  <2>1. S = {s[j] : j \in 1..N} /\ N \in 0..N
    BY <1>1, <1>2
  <2> QED
    BY <1>5, <2>1
<1>7. ASSUME NEW i \in 1..N PROVE Rank(S, s[i]) = i - 1
  <2>1. i - 1 \in 0..N
    BY <1>1
  <2>2. ASSUME NEW m \in S PROVE m < s[i] <=> m \in {s[j] : j \in 1..(i - 1)}
    <3>1. PICK j \in 1..N : m = s[j]
      BY <1>2
    <3>2. m < s[i] <=> j < i
      BY <1>4, <3>1
    <3>3. j < i => j \in 1..(i - 1)
      BY <1>1
    <3>4. ASSUME NEW k \in 1..(i - 1), m = s[k] PROVE j < i
      <4>1. k \in 1..N /\ k < i
        BY <1>1
      <4>2. k = j
        BY <1>4, <3>1, <3>4, <4>1
      <4> QED
        BY <4>1, <4>2
    <3> QED
      BY <3>1, <3>2, <3>3, <3>4
  <2>3. \A j \in 1..(i - 1) : s[j] \in S
    BY <1>1
  <2>4. {m \in S : m < s[i]} = {s[j] : j \in 1..(i - 1)}
    BY <2>2, <2>3
  <2> QED
    BY <1>5, <2>1, <2>4 DEF Rank
<1>8. ASSUME NEW i \in 1..N PROVE (CHOOSE n \in S : Rank(S, n) = i - 1) = s[i]
  <2>1. \A n \in S : Rank(S, n) = i - 1 => n = s[i]
    <3> SUFFICES ASSUME NEW n \in S, Rank(S, n) = i - 1 PROVE n = s[i]
      OBVIOUS
    <3>1. PICK j \in 1..N : n = s[j]
      BY <1>2
    <3>2. j - 1 = i - 1
      BY <1>7, <3>1
    <3> QED
      BY <3>1, <3>2
  <2>2. s[i] \in S /\ Rank(S, s[i]) = i - 1
    BY <1>1, <1>7
  <2> QED
    BY <2>1, <2>2
<1>9. Numbering(S) = s
  BY <1>1, <1>6, <1>8 DEF Numbering
<1> QED
  BY <1>6, <1>9 DEF S

-----------------------------------------------------------------------------
(* Sequences *)

LEMMA InsertAtIs ==
  ASSUME NEW S, NEW q \in Seq(S), NEW k \in 1..(Len(q) + 1), NEW e \in S
  PROVE  /\ InsertAt(q, k, e) \in Seq(S) /\ Len(InsertAt(q, k, e)) = Len(q) + 1
         /\ \A i \in 1..(Len(q) + 1) : InsertAt(q, k, e)[i] = IF i < k THEN q[i] ELSE IF i = k THEN e ELSE q[i - 1]
<1> DEFINE n == Len(q)
           a == SubSeq(q, 1, k - 1)
           b == SubSeq(q, k, n)
           m == <<e>>
           f == a \o m
<1>1. n \in Nat /\ k \in Nat /\ k >= 1 /\ k =< n + 1 /\ \A i \in 1..n : q[i] \in S
  OBVIOUS
<1>2. a \in Seq(S) /\ Len(a) = k - 1 /\ \A i \in 1..(k - 1) : a[i] = q[i]
  <2>1. 1 \in Int /\ k - 1 \in Int /\ \A i \in 1..(k - 1) : q[i] \in S
    BY <1>1
  <2>2. /\ a \in Seq(S) /\ Len(a) = IF 1 =< k - 1 THEN k - 1 - 1 + 1 ELSE 0
        /\ \A i \in 1..(k - 1 - 1 + 1) : a[i] = q[1 + i - 1]
    BY <2>1, SubSeqProperties
  <2> HIDE DEF a
  <2> QED
    BY <1>1, <2>2
<1>3. b \in Seq(S) /\ Len(b) = n + 1 - k /\ \A i \in 1..(n + 1 - k) : b[i] = q[k + i - 1]
  <2>1. k \in Int /\ n \in Int /\ \A i \in k..n : q[i] \in S
    BY <1>1
  <2>2. /\ b \in Seq(S) /\ Len(b) = IF k =< n THEN n - k + 1 ELSE 0
        /\ \A i \in 1..(n - k + 1) : b[i] = q[k + i - 1]
    BY <2>1, SubSeqProperties
  <2> HIDE DEF b
  <2> QED
    BY <1>1, <2>2
<1>4. m \in Seq(S) /\ Len(m) = 1 /\ m[1] = e
  OBVIOUS
<1>5. InsertAt(q, k, e) = f \o b
  BY DEF InsertAt
<1> HIDE DEF a, b, m, n
<1>6. f \in Seq(S) /\ Len(f) = k /\ (\A i \in 1..(k - 1) : f[i] = q[i]) /\ f[k] = e
  <2>1. /\ f \in Seq(S) /\ Len(f) = Len(a) + Len(m)
        /\ \A i \in 1..(Len(a) + Len(m)) : f[i] = IF i =< Len(a) THEN a[i] ELSE m[i - Len(a)]
    BY <1>2, <1>4, ConcatProperties
  <2> HIDE DEF f
  <2> QED
    BY <1>1, <1>2, <1>4, <2>1
<1> HIDE DEF f
<1>7. /\ f \o b \in Seq(S) /\ Len(f \o b) = Len(f) + Len(b)
      /\ \A i \in 1..(Len(f) + Len(b)) : (f \o b)[i] = IF i =< Len(f) THEN f[i] ELSE b[i - Len(f)]
  BY <1>3, <1>6, ConcatProperties
<1>8. Len(f) + Len(b) = n + 1
  BY <1>1, <1>3, <1>6
<1>9. ASSUME NEW i \in 1..(n + 1) PROVE (f \o b)[i] = IF i < k THEN q[i] ELSE IF i = k THEN e ELSE q[i - 1]
  <2>1. (f \o b)[i] = IF i =< k THEN f[i] ELSE b[i - k]
    BY <1>6, <1>7, <1>8
  <2>2. i > k => i - k \in 1..(n + 1 - k) /\ k + (i - k) - 1 = i - 1
    BY <1>1
  <2>3. i < k => i \in 1..(k - 1)
    BY <1>1
  <2> QED
    BY <1>1, <1>3, <1>6, <2>1, <2>2, <2>3
<1> QED
  BY <1>5, <1>7, <1>8, <1>9 DEF n

LEMMA MoveItemIs ==
  ASSUME NEW S, NEW s \in Seq(S), NEW from \in 1..Len(s), NEW to \in 1..Len(s)
  PROVE  /\ MoveItem(s, from, to) \in Seq(S) /\ Len(MoveItem(s, from, to)) = Len(s)
         /\ \A i \in 1..Len(s) : MoveItem(s, from, to)[i] =
              IF i < to THEN IF i < from THEN s[i] ELSE s[i + 1]
              ELSE IF i = to THEN s[from]
              ELSE IF i - 1 < from THEN s[i - 1] ELSE s[i]
<1> DEFINE n == Len(s)
           r == RemoveAt(s, from)
           e == s[from]
<1>1. /\ n \in Nat /\ r \in Seq(S) /\ Len(r) = n - 1
      /\ \A i \in 1..(n - 1) : r[i] = IF i < from THEN s[i] ELSE s[i + 1]
  <2>1. n \in Nat
    OBVIOUS
  <2>2. /\ RemoveAt(s, from) \in Seq(S) /\ Len(RemoveAt(s, from)) = Len(s) - 1
        /\ \A i \in 1..(Len(s) - 1) : RemoveAt(s, from)[i] = IF i < from THEN s[i] ELSE s[i + 1]
    BY RemoveAtIs
  <2> QED
    BY <2>1, <2>2
<1>2. e \in S /\ to \in 1..n /\ from \in 1..n
  OBVIOUS
<1>3. MoveItem(s, from, to) = InsertAt(r, to, e)
  BY DEF MoveItem
<1> HIDE DEF n, r, e
<1>4. to \in 1..(Len(r) + 1) /\ Len(r) + 1 = n
  BY <1>1, <1>2
<1>5. /\ InsertAt(r, to, e) \in Seq(S) /\ Len(InsertAt(r, to, e)) = n
      /\ \A i \in 1..n : InsertAt(r, to, e)[i] = IF i < to THEN r[i] ELSE IF i = to THEN e ELSE r[i - 1]
  <2>0. r \in Seq(S) /\ e \in S /\ to \in 1..(Len(r) + 1)
    BY <1>1, <1>2, <1>4
  <2>1. /\ InsertAt(r, to, e) \in Seq(S) /\ Len(InsertAt(r, to, e)) = Len(r) + 1
        /\ \A i \in 1..(Len(r) + 1) : InsertAt(r, to, e)[i] = IF i < to THEN r[i] ELSE IF i = to THEN e ELSE r[i - 1]
    BY ONLY <2>0, InsertAtIs
  <2> QED
    BY <1>4, <2>1
<1>6. ASSUME NEW i \in 1..n
      PROVE  InsertAt(r, to, e)[i] =
               IF i < to THEN IF i < from THEN s[i] ELSE s[i + 1]
               ELSE IF i = to THEN s[from]
               ELSE IF i - 1 < from THEN s[i - 1] ELSE s[i]
  <2>1. CASE i < to
    <3>1. i \in 1..(n - 1)
      BY <1>1, <1>2, <2>1
    <3> QED
      BY <1>1, <1>5, <2>1, <3>1
  <2>2. CASE i = to
    BY <1>2, <1>5, <2>2 DEF e
  <2>3. CASE i > to
    <3>1. i - 1 \in 1..(n - 1) /\ (i - 1) + 1 = i
      BY <1>1, <1>2, <2>3
    <3>2. r[i - 1] = IF i - 1 < from THEN s[i - 1] ELSE s[i]
      BY <1>1, <3>1
    <3> QED
      BY <1>2, <1>5, <2>3, <3>2
  <2> QED
    BY <1>1, <1>2, <2>1, <2>2, <2>3
<1> QED
  BY <1>3, <1>5, <1>6 DEF n

(* How many elements of an ascending sequence are at most r. *)
LEMMA PositionIs ==
  ASSUME NEW s \in Seq(Nat), Ascending(s), NEW r \in Nat, NEW k, k = Cardinality({i \in DOMAIN s : s[i] =< r})
  PROVE  /\ k \in 0..Len(s)
         /\ \A i \in 1..Len(s) : s[i] =< r <=> i =< k
<1> DEFINE N == Len(s)
           P == {i \in 1..N : s[i] =< r}
<1>1. N \in Nat /\ DOMAIN s = 1..N /\ \A i \in 1..N : s[i] \in Nat
  OBVIOUS
<1>2. \A i, j \in 1..N : i < j => s[i] < s[j]
  BY <1>1 DEF Ascending
<1>3. k = Cardinality(P)
  BY <1>1
<1>4. P \subseteq 1..N /\ P \subseteq Nat /\ IsFiniteSet(P)
  <2>1. IsFiniteSet(1..N)
    BY <1>1, FS_Interval
  <2>2. P \subseteq 1..N
    OBVIOUS
  <2> HIDE DEF P
  <2>3. IsFiniteSet(P)
    BY <2>1, <2>2, FS_Subset
  <2> QED
    BY <1>1, <2>2, <2>3
<1>5. CASE P = {}
  <2>1. k = 0
    BY <1>3, <1>5, FS_EmptySet
  <2>2. \A i \in 1..N : ~(s[i] =< r)
    BY <1>5
  <2> HIDE DEF N, P
  <2>3. k \in 0..N /\ \A i \in 1..N : ~(i =< k)
    <3>1. N \in Nat
      BY <1>1
    <3>2. 0 \in 0..N /\ \A i \in 1..N : ~(i =< 0)
      BY ONLY <3>1
    <3> QED
      BY ONLY <2>1, <3>2
  <2> QED
    BY <2>2, <2>3 DEF N
<1>6. CASE P # {}
  <2> DEFINE m == Max(P)
  <2>1. m \in P /\ \A x \in P : x =< m
    <3> HIDE DEF P
    <3> QED
      BY <1>4, <1>6, MaxOfFinite
  <2> HIDE DEF m
  <2>2. m \in 1..N /\ s[m] =< r
    BY <2>1
  <2>3. ASSUME NEW i \in 1..N PROVE s[i] =< r <=> i =< m
    <3>1. CASE i =< m
      <4>1. i = m \/ s[i] < s[m]
        BY <1>1, <1>2, <2>2, <3>1
      <4>2. s[i] \in Nat /\ s[m] \in Nat
        BY <1>1, <2>2
      <4> QED
        BY <2>2, <3>1, <4>1, <4>2
    <3>2. CASE ~(i =< m)
      BY <2>1, <3>2
    <3> QED
      BY <3>1, <3>2
  <2>4. P = 1..m
    BY <1>1, <2>2, <2>3
  <2>5. Cardinality(1..m) = m
    <3>1. m \in Nat /\ 1 \in Int /\ m \in Int
      BY <1>1, <2>2
    <3> QED
      BY <3>1, FS_Interval
  <2>6. k = m
    BY <1>3, <2>4, <2>5
  <2> HIDE DEF N, P
  <2>7. m \in 0..N
    <3>1. N \in Nat /\ m \in 1..N
      BY <1>1, <2>2
    <3> QED
      BY ONLY <3>1
  <2> QED
    BY <2>3, <2>6, <2>7 DEF N
<1> QED
  BY <1>5, <1>6

-----------------------------------------------------------------------------
(* The numbers a move gives *)

(* Moving an element keeps all elements, and the order of all others. *)
LEMMA MoveItemPermutes ==
  ASSUME NEW s \in Seq(Nat), Ascending(s), NEW from \in 1..Len(s), NEW to \in 1..Len(s),
         NEW r, r = MoveItem(s, from, to)
  PROVE  /\ r \in Seq(Nat) /\ Len(r) = Len(s) /\ r[to] = s[from]
         /\ Range(r) = Range(s)
         /\ \A i, j \in 1..Len(s) : r[i] = r[j] => i = j
         /\ \A i, j \in 1..Len(s) : i < j /\ i # to /\ j # to => r[i] < r[j]
<1> DEFINE N == Len(s)
           at(i) == IF i < to THEN IF i < from THEN i ELSE i + 1
                    ELSE IF i = to THEN from ELSE IF i - 1 < from THEN i - 1 ELSE i
           back(j) == IF j = from THEN to
                      ELSE IF j < from THEN IF j < to THEN j ELSE j + 1
                      ELSE IF j - 1 < to THEN j - 1 ELSE j
<1>1. N \in Nat /\ from \in 1..N /\ to \in 1..N
  OBVIOUS
<1>2. r \in Seq(Nat) /\ Len(r) = N
  BY MoveItemIs
<1>3. ASSUME NEW i \in 1..N PROVE r[i] = s[at(i)]
  <2>1. r[i] = IF i < to THEN IF i < from THEN s[i] ELSE s[i + 1]
               ELSE IF i = to THEN s[from]
               ELSE IF i - 1 < from THEN s[i - 1] ELSE s[i]
    BY MoveItemIs
  <2> QED
    BY <2>1
<1>4. \A i \in 1..N : at(i) \in 1..N /\ back(i) \in 1..N /\ at(back(i)) = i
  BY ONLY <1>1
<1>5. \A i, j \in 1..N : at(i) = at(j) => i = j
  BY ONLY <1>1
<1>6. \A i, j \in 1..N : i < j /\ i # to /\ j # to => at(i) < at(j)
  BY ONLY <1>1
<1>7. /\ \A i \in 1..N : s[i] \in Nat
      /\ \A i, j \in 1..N : i < j => s[i] < s[j]
      /\ DOMAIN s = 1..N
  BY DEF Ascending
<1>8. at(to) = from
  BY <1>1
<1> HIDE DEF N, at, back
<1>9. \A i, j \in 1..N : s[i] = s[j] => i = j
  <2> SUFFICES ASSUME NEW i \in 1..N, NEW j \in 1..N, s[i] = s[j] PROVE i = j
    OBVIOUS
  <2>1. i < j \/ j < i \/ i = j
    BY <1>1
  <2>2. s[i] \in Nat /\ s[j] \in Nat /\ (i < j => s[i] < s[j]) /\ (j < i => s[j] < s[i])
    BY <1>7
  <2> QED
    BY <2>1, <2>2
<1>10. Range(r) = Range(s)
  <2>1. DOMAIN r = 1..N
    BY <1>2
  <2>2. ASSUME NEW i \in 1..N PROVE r[i] \in Range(s)
    BY <1>3, <1>4, <1>7 DEF Range
  <2>3. ASSUME NEW i \in 1..N PROVE s[i] \in Range(r)
    <3>1. back(i) \in 1..N /\ r[back(i)] = s[i]
      BY <1>3, <1>4
    <3> QED
      BY <2>1, <3>1 DEF Range
  <2> QED
    BY <1>7, <2>1, <2>2, <2>3 DEF Range
<1>11. \A i, j \in 1..N : r[i] = r[j] => i = j
  <2> SUFFICES ASSUME NEW i \in 1..N, NEW j \in 1..N, r[i] = r[j] PROVE i = j
    OBVIOUS
  <2>1. at(i) \in 1..N /\ at(j) \in 1..N /\ s[at(i)] = s[at(j)]
    BY <1>3, <1>4
  <2>2. at(i) = at(j)
    BY <1>9, <2>1
  <2> QED
    BY <1>5, <2>2
<1>12. \A i, j \in 1..N : i < j /\ i # to /\ j # to => r[i] < r[j]
  BY <1>3, <1>4, <1>6, <1>7
<1>13. r[to] = s[from]
  BY <1>1, <1>3, <1>8
<1> QED
  BY <1>2, <1>10, <1>11, <1>12, <1>13 DEF N

(* The number found lies strictly between its neighbours. *)
LEMMA IdealNumberIs ==
  ASSUME NEW prev \in Nat, NEW next \in Nat, NEW ideal, ideal = IdealNumberBetween(prev, next), ideal # NoNumber
  PROVE  ideal \in Number /\ prev < ideal /\ (next # NoNumber => ideal < next)
<1>1. ideal \in Number
  BY IdealNumberType DEF Number
<1>2. CASE prev = NoNumber /\ next =< 1
  BY <1>2 DEF IdealNumberBetween, NoNumber
<1>3. CASE prev = NoNumber /\ next > 1
  <2>1. ideal = next \div 2
    BY <1>3 DEF IdealNumberBetween, NoNumber
  <2> QED
    BY <1>1, <1>3, <2>1 DEF Number, NoNumber
<1>4. CASE prev # NoNumber /\ next = NoNumber
  BY <1>1, <1>4 DEF IdealNumberBetween, NoNumber
<1>5. CASE prev # NoNumber /\ next # NoNumber
  <2>1. ideal = IF next - prev =< 1 THEN NoNumber ELSE prev + (next - prev) \div 2
    BY <1>5 DEF IdealNumberBetween
  <2>2. ~(next - prev =< 1) /\ ideal = prev + (next - prev) \div 2
    BY <2>1
  <2>3. ~(next - prev =< 1) => (next - prev) \div 2 \in Nat /\ 0 < (next - prev) \div 2 /\ (next - prev) \div 2 < next - prev
    OBVIOUS
  <2> QED
    BY <1>1, <2>2, <2>3
<1> QED
  BY <1>2, <1>3, <1>4, <1>5

LEMMA ShownIsNumbering == Shown = Numbering(Numbers(router))
  BY Zenon DEF Shown, Numbering, Numbers, Rank

LEMMA ShownAscends ==
  ASSUME IsRuleset(router)
  PROVE  Shown \in Seq(Number) /\ Shown \in Seq(Nat) /\ Ascending(Shown) /\ Range(Shown) = Numbers(router)
<1>1. Numbers(router) \subseteq Nat /\ IsFiniteSet(Numbers(router))
  BY NumbersAre
<1>2. Ascending(Shown)
  BY <1>1, NumberingIs, ShownIsNumbering
<1>3. Shown \in Seq(Number) /\ Range(Shown) = Numbers(router)
  BY ShownIs, Zenon DEF RuleNumbers, Numbers
<1>4. Shown \in Seq(Nat)
  <2>1. Number \subseteq Nat
    BY DEF Number
  <2> QED
    BY <1>3, <2>1, SeqMonotonic
<1> QED
  BY <1>2, <1>3, <1>4

(* Which rules of r get other numbers, and that the numbers then ascend. *)
Renumbers(r, new, moved, changes) ==
  /\ new \in Seq(Number) /\ Len(new) = Len(r) /\ Ascending(new)
  /\ moved \in SUBSET (1..Len(r))
  /\ \A i \in (1..Len(r)) \ moved : new[i] = r[i]
  /\ \A change : change \in changes <=> \E i \in moved : change = [old |-> r[i], new |-> new[i]]

(* The moved rule alone gets a number, between its new neighbours. *)
LEMMA OneIsRenumbered ==
  ASSUME NEW s \in Seq(Number), s \in Seq(Nat), Ascending(s), NEW from \in 1..Len(s), NEW to \in 1..Len(s),
         NEW r, r = MoveItem(s, from, to),
         NEW ideal, ideal = IdealNumberBetween(NumberAt(r, to - 1), NumberAt(r, to + 1)), ideal # NoNumber
  PROVE  \E new, moved : Renumbers(r, new, moved, {[old |-> r[to], new |-> ideal]})
<1> DEFINE N == Len(s)
           new == [i \in 1..N |-> IF i = to THEN ideal ELSE r[i]]
<1>1. N \in Nat /\ from \in 1..N /\ to \in 1..N
  OBVIOUS
<1>2. /\ Len(r) = N /\ \A i \in 1..N : r[i] \in Number
      /\ \A i, j \in 1..N : i < j /\ i # to /\ j # to => r[i] < r[j]
  <2>1. s \in Seq(Nat) /\ Ascending(s) /\ from \in 1..Len(s) /\ to \in 1..Len(s) /\ r = MoveItem(s, from, to)
    OBVIOUS
  <2>2. /\ r \in Seq(Nat) /\ Len(r) = Len(s) /\ r[to] = s[from]
        /\ Range(r) = Range(s)
        /\ \A i, j \in 1..Len(s) : r[i] = r[j] => i = j
        /\ \A i, j \in 1..Len(s) : i < j /\ i # to /\ j # to => r[i] < r[j]
    BY ONLY <2>1, MoveItemPermutes
  <2>3. r \in Seq(Number)
    BY MoveItemType
  <2>4. \A i \in 1..N : r[i] \in Number
    BY <2>2, <2>3
  <2> QED
    BY <2>2, <2>4
<1>3. DOMAIN r = 1..N
  <2>1. r \in Seq(Number)
    BY MoveItemType
  <2> QED
    BY <1>2, <2>1
<1> DEFINE prev == NumberAt(r, to - 1)
           next == NumberAt(r, to + 1)
<1>4. /\ prev = IF to - 1 \in 1..N THEN r[to - 1] ELSE NoNumber
      /\ next = IF to + 1 \in 1..N THEN r[to + 1] ELSE NoNumber
  BY <1>3 DEF NumberAt
<1>5. prev \in Nat /\ next \in Nat
  BY <1>2, <1>4 DEF Number, NoNumber
<1>6. ideal = IdealNumberBetween(prev, next)
  OBVIOUS
<1> HIDE DEF prev, next, N
<1>7. ideal \in Number /\ prev < ideal /\ (next # NoNumber => ideal < next)
  BY <1>5, <1>6, IdealNumberIs
<1>8. ASSUME NEW j \in 1..N, j < to PROVE r[j] < ideal
  <2>1. to - 1 \in 1..N /\ j =< to - 1 /\ to - 1 # to /\ j # to
    BY <1>1, <1>8
  <2>2. prev = r[to - 1]
    BY <1>4, <2>1
  <2>3. j = to - 1 \/ r[j] < r[to - 1]
    BY <1>2, <2>1
  <2>4. r[j] \in Nat /\ r[to - 1] \in Nat /\ ideal \in Nat
    BY <1>2, <1>7, <2>1 DEF Number
  <2> QED
    BY <1>7, <2>2, <2>3, <2>4
<1>9. ASSUME NEW j \in 1..N, to < j PROVE ideal < r[j]
  <2>1. to + 1 \in 1..N /\ to + 1 =< j /\ to + 1 # to /\ j # to
    BY <1>1, <1>9
  <2>2. next = r[to + 1] /\ next # NoNumber
    BY <1>2, <1>4, <2>1 DEF Number
  <2>3. j = to + 1 \/ r[to + 1] < r[j]
    BY <1>2, <2>1
  <2>4. r[j] \in Nat /\ r[to + 1] \in Nat /\ ideal \in Nat
    BY <1>2, <1>7, <2>1 DEF Number
  <2> QED
    BY <1>7, <2>2, <2>3, <2>4
<1>10. new \in [1..N -> Number] /\ new \in Seq(Number) /\ Len(new) = N /\ DOMAIN new = 1..N
  <2>1. new \in [1..N -> Number]
    BY <1>2, <1>7
  <2> QED
    BY <1>1, <2>1
<1>11. \A i \in 1..N : new[i] = IF i = to THEN ideal ELSE r[i]
  OBVIOUS
<1> HIDE DEF new
<1>12. Ascending(new)
  <2> SUFFICES ASSUME NEW i \in 1..N, NEW j \in 1..N, i < j PROVE new[i] < new[j]
    BY <1>10 DEF Ascending
  <2>1. CASE i = to
    BY <1>1, <1>9, <1>11, <2>1
  <2>2. CASE j = to
    BY <1>1, <1>8, <1>11, <2>2
  <2>3. CASE i # to /\ j # to
    BY <1>2, <1>11, <2>3
  <2> QED
    BY <2>1, <2>2, <2>3
<1>13. Renumbers(r, new, {to}, {[old |-> r[to], new |-> ideal]})
  <2>1. {to} \in SUBSET (1..N) /\ new[to] = ideal
    BY <1>1, <1>11
  <2>2. \A i \in (1..N) \ {to} : new[i] = r[i]
    BY <1>11
  <2>3. \A change : change \in {[old |-> r[to], new |-> ideal]} <=>
                      \E i \in {to} : change = [old |-> r[i], new |-> new[i]]
    BY <2>1
  <2> QED
    BY <1>2, <1>10, <1>12, <2>1, <2>2, <2>3 DEF Renumbers
<1> QED
  BY <1>13

LEMMA RenumberingIs ==
  ASSUME IsRuleset(router), NEW from \in DOMAIN Shown, NEW to \in DOMAIN Shown,
         NEW r, r = MoveItem(Shown, from, to)
  PROVE  \E new, moved : Renumbers(r, new, moved, Range(Renumbering(from, to)))
<1> DEFINE ideal == IdealNumberBetween(NumberAt(r, to - 1), NumberAt(r, to + 1))
           all == [i \in DOMAIN r |-> IF r[i] = 10 * i THEN <<>> ELSE <<[old |-> r[i], new |-> 10 * i]>>]
           N == Len(r)
<1>1. Shown \in Seq(Number) /\ Shown \in Seq(Nat) /\ Ascending(Shown) /\ DOMAIN Shown = 1..Len(Shown)
  BY ShownAscends
<1>2. r \in Seq(Number) /\ Len(r) = Len(Shown)
  BY <1>1, MoveItemType
<1>3. Renumbering(from, to) = IF ideal # NoNumber THEN <<[old |-> r[to], new |-> ideal]>> ELSE FlattenSeq(all)
  BY Zenon DEF Renumbering
<1>4. N \in Nat /\ DOMAIN r = 1..N /\ \A i \in 1..N : r[i] \in Number
  BY <1>2
<1>5. CASE ideal # NoNumber
  <2>1. \E new, moved : Renumbers(r, new, moved, {[old |-> r[to], new |-> ideal]})
    <3> DEFINE s == Shown
    <3>1. s \in Seq(Number) /\ s \in Seq(Nat) /\ Ascending(s) /\ from \in 1..Len(s) /\ to \in 1..Len(s) /\ r = MoveItem(s, from, to)
      BY <1>1
    <3>2. ideal = IdealNumberBetween(NumberAt(r, to - 1), NumberAt(r, to + 1))
      OBVIOUS
    <3> HIDE DEF s, ideal
    <3> QED
      BY <1>5, <3>1, <3>2, OneIsRenumbered
  <2> HIDE DEF ideal, all
  <2>2. Renumbering(from, to) = <<[old |-> r[to], new |-> ideal]>>
    BY <1>3, <1>5
  <2>3. Range(Renumbering(from, to)) = {[old |-> r[to], new |-> ideal]}
    BY <2>2 DEF Range
  <2> QED
    BY <2>1, <2>3
<1>6. CASE ~(ideal # NoNumber)
  <2> DEFINE new == [i \in 1..N |-> 10 * i]
             moved == {i \in 1..N : r[i] # 10 * i}
             pair(i) == [old |-> r[i], new |-> 10 * i]
             P == {pair(i) : i \in 1..N}
  <2>1. Renumbering(from, to) = FlattenSeq(all)
    <3> HIDE DEF ideal, all
    <3> QED
      BY <1>3, <1>6
  <2>2. all \in Seq(Seq(P)) /\ Len(all) = N
    <3>1. \A i \in 1..N : pair(i) \in P
      OBVIOUS
    <3>2. \A i \in 1..N : <<pair(i)>> \in Seq(P) /\ <<>> \in Seq(P)
      <4> HIDE DEF P, pair
      <4> QED
        BY <3>1
    <3>3. \A i \in 1..N : all[i] \in Seq(P)
      <4>1. \A i \in 1..N : all[i] = IF r[i] = 10 * i THEN <<>> ELSE <<pair(i)>>
        BY <1>4
      <4> HIDE DEF all, P, pair
      <4> QED
        BY <3>2, <4>1
    <3>4. all \in [1..N -> Seq(P)]
      <4>1. DOMAIN all = 1..N /\ all = [i \in 1..N |-> all[i]]
        BY <1>4
      <4> HIDE DEF all, P
      <4> QED
        BY <3>3, <4>1
    <3> HIDE DEF all, P
    <3> QED
      BY <1>4, <3>4
  <2>3. \A i \in 1..N : all[i] = IF r[i] = 10 * i THEN <<>> ELSE <<pair(i)>>
    BY <1>4
  <2>4. ASSUME NEW change PROVE change \in Range(FlattenSeq(all)) <=> \E i \in moved : change = pair(i)
    <3> HIDE DEF all, P, pair
    <3>1. change \in Range(FlattenSeq(all)) <=> \E i \in 1..N : change \in Range(all[i])
      BY <2>2, FlattenSeqIs
    <3>2. \A i \in 1..N : change \in Range(all[i]) <=> r[i] # 10 * i /\ change = pair(i)
      <4> SUFFICES ASSUME NEW i \in 1..N PROVE change \in Range(all[i]) <=> r[i] # 10 * i /\ change = pair(i)
        OBVIOUS
      <4>1. Range(<<>>) = {} /\ Range(<<pair(i)>>) = {pair(i)}
        BY DEF Range
      <4> QED
        BY <2>3, <4>1
    <3> QED
      BY <3>1, <3>2
  <2>5. new \in Seq(Number) /\ Len(new) = N /\ DOMAIN new = 1..N /\ Ascending(new)
    <3>1. \A i \in 1..N : 10 * i \in Number
      BY <1>4 DEF Number, NoNumber
    <3>2. new \in [1..N -> Number]
      BY <3>1
    <3>3. \A i, j \in 1..N : i < j => new[i] < new[j]
      BY <1>4
    <3>4. new \in Seq(Number) /\ Len(new) = N /\ DOMAIN new = 1..N
      BY <1>4, <3>2
    <3> QED
      BY <3>3, <3>4 DEF Ascending
  <2>6. \A i \in 1..N : new[i] = 10 * i /\ pair(i) = [old |-> r[i], new |-> new[i]]
    OBVIOUS
  <2>7. moved \in SUBSET (1..N) /\ \A i \in (1..N) \ moved : new[i] = r[i]
    BY <2>6
  <2>8. \A change : change \in Range(FlattenSeq(all)) <=> \E i \in moved : change = [old |-> r[i], new |-> new[i]]
    <3> HIDE DEF all, pair, new
    <3> QED
      BY <2>4, <2>6, <2>7
  <2> HIDE DEF all, new, moved
  <2>9. Renumbers(r, new, moved, Range(FlattenSeq(all)))
    BY <2>5, <2>7, <2>8 DEF Renumbers
  <2> QED
    BY <2>1, <2>9
<1> QED
  BY <1>5, <1>6

-----------------------------------------------------------------------------
(* The operations of a move, rule by rule *)

(* Every rule has a setting: VyOS refuses a rule without an action. *)
Filled(c) == \A n \in Numbers(c) : Content(c, n) # {}

Settings(c, n) == {x \in c : x.path[1] = n /\ IsLeafPath(x.path)}

LEMMA SettingIs ==
  ASSUME NEW c, IsRuleset(c), NEW n
  PROVE  /\ \A x \in Settings(c, n) : n \in Number /\ x = Node(<<n, x.path[2]>>, x.val) /\ Fits(x.path[2], x.val)
         /\ \A l, v : Node(<<n, l>>, v) \in Settings(c, n) <=> Node(<<n, l>>, v) \in c
<1>1. ASSUME NEW x \in Settings(c, n)
      PROVE  n \in Number /\ x = Node(<<n, x.path[2]>>, x.val) /\ Fits(x.path[2], x.val)
  <2>1. x \in c /\ x.path[1] = n /\ n \in Number /\ x.path = <<n, x.path[2]>>
    BY DEF Settings, IsLeafPath
  <2>2. CASE \E m \in Number : x = Node(<<m>>, NoValue)
    <3>1. PICK m \in Number : x = Node(<<m>>, NoValue)
      BY <2>2
    <3>2. x.path = <<m>>
      BY <3>1, NodeIs
    <3>3. <<m>> # <<n, x.path[2]>>
      BY LeafPaths
    <3> QED
      BY <2>1, <3>2, <3>3
  <2>3. CASE \E m \in Number : \E l, v : x = Node(<<m, l>>, v) /\ Fits(l, v)
    <3>1. PICK m, l, v : m \in Number /\ x = Node(<<m, l>>, v) /\ Fits(l, v)
      BY <2>3
    <3>2. x.path = <<m, l>> /\ x.val = v
      BY <3>1, NodeIs
    <3> QED
      BY <2>1, <3>1, <3>2
  <2> QED
    BY <2>1, <2>2, <2>3, RuleNodeIs
<1>2. ASSUME NEW l, NEW v, Node(<<n, l>>, v) \in c PROVE Node(<<n, l>>, v) \in Settings(c, n)
  <2> DEFINE x == Node(<<n, l>>, v)
  <2>1. x \in c /\ x.path = <<n, l>>
    BY <1>2, NodeIs
  <2> HIDE DEF x
  <2>2. x.path[1] = n /\ x.path[2] = l
    BY <2>1
  <2>3. x.path[1] \in Number
    BY <2>1 DEF IsRuleset, IsRuleNode, IsRulePath, IsLeafPath
  <2>4. x \in Settings(c, n)
    BY <2>1, <2>2, <2>3 DEF Settings, IsLeafPath
  <2> QED
    BY <2>4 DEF x
<1>3. Settings(c, n) \subseteq c
  BY DEF Settings
<1> QED
  BY <1>1, <1>2, <1>3

LEMMA LeavesAre ==
  ASSUME NEW c, IsRuleset(c), NEW n, Content(c, n) # {}, NEW p, p = <<n>>
  PROVE  LeavesBelow(c, p) = Settings(c, n)
<1>1. PICK l, v : Node(<<n, l>>, v) \in c
  <2>1. PICK s \in Content(c, n) : TRUE
    OBVIOUS
  <2>2. \A k, w : /\ \A t \in Content(c, n) : t = <<t[1], t[2]>>
                  /\ <<k, w>> \in Content(c, n) <=> Node(<<n, k>>, w) \in c
    BY ContentIs
  <2>3. <<s[1], s[2]>> \in Content(c, n)
    BY <2>2
  <2> QED
    BY <2>2, <2>3
<1>2. Below(c, p) = {x \in c : x.path[1] = n}
  BY BelowRule
<1>3. ASSUME NEW x \in LeavesBelow(c, p) PROVE x \in Settings(c, n)
  <2>1. x \in c /\ x.path[1] = n /\ \A m \in Below(c, x.path) : m.path = x.path
    BY <1>2, <1>3 DEF LeavesBelow
  <2>2. CASE \E m \in Number : x = Node(<<m>>, NoValue)
    <3>1. PICK m \in Number : x = Node(<<m>>, NoValue)
      BY <2>2
    <3>2. x.path = <<m>> /\ <<m>>[1] = m
      BY <3>1, NodeIs
    <3>3. x.path = p
      BY <2>1, <3>2
    <3> DEFINE y == Node(<<n, l>>, v)
    <3>4. y \in c /\ y.path = <<n, l>>
      BY <1>1, NodeIs
    <3> HIDE DEF y
    <3>5. y.path[1] = n
      BY <3>4
    <3>6. y.path = x.path
      BY <1>2, <2>1, <3>3, <3>4, <3>5
    <3>7. <<n>> # <<n, l>>
      BY LeafPaths
    <3> QED
      BY <3>3, <3>4, <3>6, <3>7
  <2>3. CASE \E m \in Number : \E k, w : x = Node(<<m, k>>, w) /\ Fits(k, w)
    <3>1. PICK m, k, w : m \in Number /\ x = Node(<<m, k>>, w)
      BY <2>3
    <3>2. x.path = <<m, k>>
      BY <3>1, NodeIs
    <3>3. x.path[1] = m /\ x.path[2] = k
      BY <3>2
    <3> QED
      BY <2>1, <3>1, <3>2, <3>3 DEF Settings, IsLeafPath
  <2> QED
    BY <2>1, <2>2, <2>3, RuleNodeIs
<1>4. ASSUME NEW x \in Settings(c, n) PROVE x \in LeavesBelow(c, p)
  <2>1. x \in c /\ x.path[1] = n /\ x.path = <<n, x.path[2]>>
    BY <1>4 DEF Settings, IsLeafPath
  <2>2. Below(c, x.path) = {y \in c : y.path = x.path}
    <3> DEFINE q == x.path
               k == x.path[2]
    <3>1. q = <<n, k>>
      BY <2>1
    <3> HIDE DEF q, k
    <3>2. Below(c, q) = {y \in c : y.path = q}
      BY <3>1, BelowLeaf
    <3> QED
      BY <3>2 DEF q
  <2> QED
    BY <1>2, <2>1, <2>2 DEF LeavesBelow
<1> QED
  BY <1>3, <1>4

(* The sets that give the settings of the rule old to the number new. *)
SettingSets(c, old, new) == {SetOp(<<new, x.path[2]>>, x.val) : x \in Settings(c, old)}

LEMMA SubtreeOfRule ==
  ASSUME NEW c, IsRuleset(c), NEW old, Content(c, old) # {}, NEW new \in Number
  PROVE  /\ SubtreeToSetOps(c, <<old>>, <<new>>) \in Seq(SettingSets(c, old, new))
         /\ Range(SubtreeToSetOps(c, <<old>>, <<new>>)) = SettingSets(c, old, new)
<1> DEFINE p == <<old>>
           q == <<new>>
           S == LeavesBelow(c, p)
           M == {Moved(p, q, x) : x \in S}
<1>1. S = Settings(c, old)
  BY LeavesAre
<1>2. IsFiniteSet(S)
  <2>1. S \subseteq c
    BY DEF LeavesBelow, Below
  <2> QED
    BY <2>1, FS_Subset DEF IsRuleset
<1>3. ASSUME NEW x \in Settings(c, old) PROVE Moved(p, q, x) = SetOp(<<new, x.path[2]>>, x.val)
  <2> DEFINE k == x.path[2]
  <2>1. x.path = <<old, k>>
    BY DEF Settings, IsLeafPath
  <2> HIDE DEF k
  <2>2. Len(<<old, k>>) = 2 /\ Len(p) = 1
    BY ShortPaths
  <2>3. <<new>> \o SubSeq(<<old, k>>, 1 + 1, 2) = <<new, k>>
    BY MovedPaths
  <2>4. Moved(p, q, x) = SetOp(<<new, k>>, x.val)
    BY <2>1, <2>2, <2>3 DEF Moved
  <2> QED
    BY <2>4 DEF k
<1>4. M = SettingSets(c, old, new)
  BY <1>1, <1>3 DEF SettingSets
<1>5. S = LeavesBelow(c, p) /\ M = {Moved(p, q, x) : x \in S}
  OBVIOUS
<1> HIDE DEF S, M, p, q
<1>6. SubtreeToSetOps(c, p, q) \in Seq(M) /\ Range(SubtreeToSetOps(c, p, q)) = M
  BY <1>2, <1>5, SubtreeToSetOpsIs
<1> QED
  BY <1>4, <1>6 DEF p, q

MoveDeletes(r, moved) == {DeleteNode(<<r[i]>>) : i \in moved}
MoveSets(c, r, new, moved) == UNION {SettingSets(c, r[i], new[i]) : i \in moved}

(* Deletes of the old numbers, then sets of the new ones. *)
DeletesThenSets(ops, D, S) ==
  \E d, s : ops = d \o s /\ d \in Seq(D) /\ Range(d) = D /\ s \in Seq(S) /\ Range(s) = S

LEMMA ReorderRuleOpsIs ==
  ASSUME IsRuleset(router), Filled(router), NEW from \in DOMAIN Shown, NEW to \in DOMAIN Shown,
         NEW r, r \in Seq(Numbers(router)),
         NEW new, NEW moved, Renumbers(r, new, moved, Range(Renumbering(from, to)))
  PROVE  DeletesThenSets(ReorderRuleOps(from, to), MoveDeletes(r, moved), MoveSets(router, r, new, moved))
<1> DEFINE changes == Renumbering(from, to)
           d == [i \in DOMAIN changes |-> DeleteNode(<<changes[i].old>>)]
           sets == [i \in DOMAIN changes |-> SubtreeToSetOps(router, <<changes[i].old>>, <<changes[i].new>>)]
           N == Len(changes)
           D == MoveDeletes(r, moved)
           S == MoveSets(router, r, new, moved)
<1>1. ReorderRuleOps(from, to) = d \o FlattenSeq(sets)
  BY Zenon DEF ReorderRuleOps
<1>2. changes \in Seq(Changes)
  BY RenumberingType
<1>3. \A change : change \in Range(changes) <=> \E i \in moved : change = [old |-> r[i], new |-> new[i]]
  BY DEF Renumbers
<1>4. \A i \in moved : r[i] \in Numbers(router) /\ new[i] \in Number /\ Content(router, r[i]) # {}
  <2>1. \A i \in moved : r[i] \in Numbers(router) /\ new[i] \in Number
    BY DEF Renumbers
  <2> QED
    BY <2>1 DEF Filled
<1> HIDE DEF changes
<1>5. N \in Nat /\ DOMAIN changes = 1..N
  BY <1>2
<1>6. /\ \A j \in 1..N : \E i \in moved : changes[j].old = r[i] /\ changes[j].new = new[i]
      /\ \A i \in moved : \E j \in 1..N : changes[j].old = r[i] /\ changes[j].new = new[i]
  <2>1. Range(changes) = {changes[j] : j \in 1..N}
    BY <1>5 DEF Range
  <2>2. ASSUME NEW j \in 1..N PROVE \E i \in moved : changes[j].old = r[i] /\ changes[j].new = new[i]
    <3>1. PICK i \in moved : changes[j] = [old |-> r[i], new |-> new[i]]
      BY <1>3, <2>1
    <3> QED
      BY <3>1
  <2>3. ASSUME NEW i \in moved PROVE \E j \in 1..N : changes[j].old = r[i] /\ changes[j].new = new[i]
    <3>1. [old |-> r[i], new |-> new[i]] \in Range(changes)
      BY <1>3
    <3>2. PICK j \in 1..N : changes[j] = [old |-> r[i], new |-> new[i]]
      BY <2>1, <3>1
    <3> QED
      BY <3>2
  <2> QED
    BY <2>2, <2>3
<1>7. d \in Seq(D) /\ Range(d) = D
  <2>1. DOMAIN d = 1..N /\ \A j \in 1..N : d[j] = DeleteNode(<<changes[j].old>>)
    BY <1>5
  <2>2. d = [j \in 1..N |-> d[j]]
    BY <1>5
  <2> HIDE DEF d
  <2>3. \A j \in 1..N : d[j] \in D
    BY <1>6, <2>1 DEF MoveDeletes
  <2>4. d \in Seq(D)
    <3> HIDE DEF D
    <3>1. d \in [1..N -> D]
      BY <2>2, <2>3
    <3> QED
      BY <1>5, <3>1
  <2>5. \A i \in moved : \E j \in 1..N : d[j] = DeleteNode(<<r[i]>>)
    <3> SUFFICES ASSUME NEW i \in moved PROVE \E j \in 1..N : d[j] = DeleteNode(<<r[i]>>)
      OBVIOUS
    <3>1. PICK j \in 1..N : changes[j].old = r[i]
      BY <1>6
    <3> QED
      BY <2>1, <3>1
  <2>6. Range(d) = {d[j] : j \in 1..N}
    BY <2>1 DEF Range
  <2> QED
    BY <2>3, <2>4, <2>5, <2>6 DEF MoveDeletes
<1>8. ASSUME NEW j \in 1..N
      PROVE  \E i \in moved : /\ changes[j].old = r[i] /\ changes[j].new = new[i]
                              /\ sets[j] \in Seq(SettingSets(router, r[i], new[i]))
                              /\ Range(sets[j]) = SettingSets(router, r[i], new[i])
  <2>1. PICK i \in moved : changes[j].old = r[i] /\ changes[j].new = new[i]
    BY <1>6
  <2>2. sets[j] = SubtreeToSetOps(router, <<r[i]>>, <<new[i]>>)
    BY <1>5, <2>1
  <2> HIDE DEF sets
  <2>3. /\ SubtreeToSetOps(router, <<r[i]>>, <<new[i]>>) \in Seq(SettingSets(router, r[i], new[i]))
        /\ Range(SubtreeToSetOps(router, <<r[i]>>, <<new[i]>>)) = SettingSets(router, r[i], new[i])
    <3> DEFINE old == r[i]
               n == new[i]
    <3>1. Content(router, old) # {} /\ n \in Number
      BY <1>4
    <3> HIDE DEF old, n
    <3>2. /\ SubtreeToSetOps(router, <<old>>, <<n>>) \in Seq(SettingSets(router, old, n))
          /\ Range(SubtreeToSetOps(router, <<old>>, <<n>>)) = SettingSets(router, old, n)
      BY <3>1, SubtreeOfRule
    <3> QED
      BY <3>2 DEF old, n
  <2> QED
    BY <2>1, <2>2, <2>3
<1>9. sets \in Seq(Seq(S)) /\ Len(sets) = N
  <2>1. ASSUME NEW j \in 1..N PROVE sets[j] \in Seq(S)
    <3>1. PICK i \in moved : sets[j] \in Seq(SettingSets(router, r[i], new[i]))
      BY <1>8
    <3>2. SettingSets(router, r[i], new[i]) \subseteq S
      BY DEF MoveSets
    <3> QED
      BY <3>1, <3>2, SeqMonotonic
  <2>2. sets = [j \in 1..N |-> sets[j]]
    BY <1>5
  <2> HIDE DEF sets, S
  <2>3. sets \in [1..N -> Seq(S)]
    BY <2>1, <2>2
  <2> QED
    BY <1>5, <2>3
<1> DEFINE flat == FlattenSeq(sets)
<1>10. flat \in Seq(S) /\ Range(flat) = S
  <2> HIDE DEF sets, S
  <2>1. flat \in Seq(S) /\ \A x : x \in Range(flat) <=> \E j \in 1..N : x \in Range(sets[j])
    BY <1>9, FlattenSeqIs
  <2>2. ASSUME NEW x, NEW j \in 1..N, x \in Range(sets[j]) PROVE x \in S
    <3>1. PICK i \in moved : Range(sets[j]) = SettingSets(router, r[i], new[i])
      BY <1>8
    <3> QED
      BY <2>2, <3>1 DEF S, MoveSets
  <2>3. ASSUME NEW x \in S PROVE \E j \in 1..N : x \in Range(sets[j])
    <3>1. PICK i \in moved : x \in SettingSets(router, r[i], new[i])
      BY <2>3 DEF S, MoveSets
    <3>2. PICK j \in 1..N : changes[j].old = r[i] /\ changes[j].new = new[i]
      BY <1>6
    <3>3. Range(sets[j]) = SettingSets(router, r[i], new[i])
      BY <1>8, <3>2
    <3> QED
      BY <3>1, <3>3
  <2> QED
    BY <2>1, <2>2, <2>3
<1>11. ReorderRuleOps(from, to) = d \o flat
  BY <1>1
<1> HIDE DEF d, flat
<1> QED
  BY <1>7, <1>10, <1>11 DEF DeletesThenSets

-----------------------------------------------------------------------------
(* What a queue of deletes and sets does *)

IsRuleDelete(op) == \E m \in Number : op = DeleteNode(<<m>>)
IsLeafSet(op) == \E m \in Number : \E k, w : op = SetOp(<<m, k>>, w) /\ Fits(k, w)

(* The first d operations delete rules, the others set settings. *)
InOrder(ops, n, d) ==
  /\ d \in 0..n
  /\ \A i \in 1..n : (i =< d => IsRuleDelete(ops[i])) /\ (i > d => IsLeafSet(ops[i]))

LEMMA DeletesAndSets ==
  ASSUME NEW op
  PROVE  /\ IsRuleDelete(op) => IsRuleOp(op) /\ op = DeleteNode(op.path) /\ Len(op.path) = 1
         /\ IsLeafSet(op) => IsRuleOp(op) /\ ~IsRuleDelete(op) /\ Len(op.path) = 2
<1>1. ASSUME IsRuleDelete(op) PROVE IsRuleOp(op) /\ op = DeleteNode(op.path) /\ Len(op.path) = 1
  <2>1. PICK m \in Number : op = DeleteNode(<<m>>)
    BY <1>1 DEF IsRuleDelete
  <2>2. op.path = <<m>>
    BY <2>1, OpPath
  <2>3. IsRulePath(<<m>>)
    BY DEF IsRulePath
  <2>4. Len(<<m>>) = 1
    BY RulePaths
  <2> QED
    BY <2>1, <2>2, <2>3, <2>4 DEF IsRuleOp
<1>2. ASSUME IsLeafSet(op) PROVE IsRuleOp(op) /\ ~IsRuleDelete(op) /\ Len(op.path) = 2
  <2>1. PICK m, k, w : m \in Number /\ op = SetOp(<<m, k>>, w) /\ Fits(k, w)
    BY <1>2 DEF IsLeafSet
  <2>2. op.path = <<m, k>> /\ op.val = w /\ op.op = "set"
    BY <2>1 DEF SetOp
  <2>3. IsLeafPath(<<m, k>>) /\ <<m, k>>[2] = k
    BY <2>1 DEF IsLeafPath
  <2>4. Len(<<m, k>>) = 2
    BY LeafPaths
  <2>5. ~IsRuleDelete(op)
    BY <2>2 DEF IsRuleDelete, DeleteNode, DeleteOp
  <2> QED
    BY <2>1, <2>2, <2>3, <2>4, <2>5 DEF IsRuleOp
<1> QED
  BY <1>1, <1>2

(* Adding a delete to deletes, or a set to anything, keeps the order. *)
LEMMA AddInOrder ==
  ASSUME NEW O, \A op \in O : IsRuleDelete(op) \/ IsLeafSet(op),
         NEW q \in Seq(O), NEW op \in O, NEW d, InOrder(q, Len(q), d),
         IsRuleDelete(op) => d = Len(q), NEW r, r = Add(q, op)
  PROVE  IF IsRuleDelete(op) THEN InOrder(r, Len(r), Len(r)) ELSE \E e : InOrder(r, Len(r), e)
<1> DEFINE n == Len(q)
<1>1. \A o \in O : IsRuleOp(o)
  BY DeletesAndSets
<1>2. PICK paths, vals : O \subseteq OpsAt(paths, vals)
  BY <1>1, RuleOpType
<1>3. q \in Seq(OpsAt(paths, vals)) /\ op \in OpsAt(paths, vals)
  BY <1>2, SeqMonotonic
<1> DEFINE cancels == op = SetNode(op.path) /\ \E k \in 1..n : q[k] = DeleteNode(op.path) /\ r = RemoveAt(q, k)
<1>4. (r = q /\ q # <<>> /\ q[n] = op) \/ r = Append(q, op) \/ cancels
  BY <1>3, AddIs
<1>5. ~cancels
  <2> SUFFICES ASSUME op = SetNode(op.path), NEW k \in 1..n, q[k] = DeleteNode(op.path) PROVE FALSE
    OBVIOUS
  <2> DEFINE f == q[k]
  <2>1. op.op = "set" /\ f.path = op.path /\ f.op = "delete" /\ f \in O
    BY DEF SetNode, SetOp, DeleteNode, DeleteOp
  <2> HIDE DEF f
  <2>2. ~IsRuleDelete(op) /\ ~IsLeafSet(f)
    BY <2>1 DEF IsRuleDelete, IsLeafSet, SetOp, DeleteNode, DeleteOp
  <2>3. Len(op.path) = 2 /\ Len(f.path) = 1
    BY <2>1, <2>2, DeletesAndSets
  <2>4. Len(f.path) = Len(op.path)
    BY <2>1, Zenon
  <2> QED
    BY ONLY <2>3, <2>4
<1>6. n \in Nat /\ d \in 0..n
  BY DEF InOrder
<1>7. ~IsRuleDelete(op) => IsLeafSet(op)
  OBVIOUS
<1>8. CASE r = q /\ q # <<>> /\ q[n] = op
  <2>1. IsRuleDelete(op) => InOrder(r, Len(r), Len(r))
    BY <1>6, <1>8
  <2>2. InOrder(r, Len(r), d)
    BY <1>8
  <2> QED
    BY <2>1, <2>2
<1>9. CASE r = Append(q, op)
  <2>1. Len(r) = n + 1 /\ r[n + 1] = op /\ \A i \in 1..n : r[i] = q[i]
    BY <1>9
  <2> HIDE DEF n
  <2>2. ASSUME IsRuleDelete(op) PROVE InOrder(r, n + 1, n + 1)
    <3>1. n + 1 \in 0..(n + 1) /\ d = n
      BY <1>6, <2>2 DEF n
    <3>2. ASSUME NEW i \in 1..(n + 1) PROVE IsRuleDelete(r[i]) /\ ~(i > n + 1)
      <4>1. i = n + 1 \/ (i \in 1..n /\ i =< d)
        BY <1>6, <3>1
      <4> QED
        BY <1>6, <2>1, <2>2, <4>1 DEF InOrder, n
    <3> QED
      BY <3>1, <3>2 DEF InOrder
  <2>3. ASSUME IsLeafSet(op) PROVE InOrder(r, n + 1, d)
    <3>1. d \in 0..(n + 1)
      BY <1>6
    <3>2. ASSUME NEW i \in 1..(n + 1) PROVE (i =< d => IsRuleDelete(r[i])) /\ (i > d => IsLeafSet(r[i]))
      <4>1. (i = n + 1 /\ i > d) \/ i \in 1..n
        BY <1>6
      <4> QED
        BY <1>6, <2>1, <2>3, <4>1 DEF InOrder, n
    <3> QED
      BY <3>1, <3>2 DEF InOrder
  <2> QED
    BY <1>7, <2>1, <2>2, <2>3
<1> QED
  BY <1>4, <1>5, <1>8, <1>9

(* Deletes and then sets are queued in that order. *)
LEMMA QueuedInOrder ==
  ASSUME NEW ops, NEW D, NEW S, DeletesThenSets(ops, D, S),
         \A op \in D : IsRuleDelete(op), \A op \in S : IsLeafSet(op),
         NEW q, q = AddAll(<<>>, ops)
  PROVE  /\ q \in Seq(D \cup S) /\ Range(q) = D \cup S
         /\ \E d : InOrder(q, Len(q), d)
<1> DEFINE O == D \cup S
<1>1. PICK a, b : ops = a \o b /\ a \in Seq(D) /\ Range(a) = D /\ b \in Seq(S) /\ Range(b) = S
  BY DEF DeletesThenSets
<1>2. a \in Seq(O) /\ b \in Seq(O)
  BY <1>1, SeqMonotonic
<1>3. /\ \A op \in O : IsRuleOp(op)
      /\ \A op \in O : op = SetNode(op.path) => DeleteNode(op.path) \notin O
      /\ \A op \in O : IsRuleDelete(op) \/ IsLeafSet(op)
  <2>1. \A op \in O : IsRuleDelete(op) \/ IsLeafSet(op)
    OBVIOUS
  <2>2. ASSUME NEW op \in O, op = SetNode(op.path), DeleteNode(op.path) \in O PROVE FALSE
    <3> DEFINE e == DeleteNode(op.path)
    <3>1. op.op = "set" /\ e.path = op.path /\ e.op = "delete"
      BY <2>2 DEF SetNode, SetOp, DeleteNode, DeleteOp
    <3>2. e \in O
      BY <2>2
    <3> HIDE DEF e
    <3>3. ~IsRuleDelete(op) /\ ~IsLeafSet(e)
      BY <3>1 DEF IsRuleDelete, IsLeafSet, SetOp, DeleteNode, DeleteOp
    <3>4. IsLeafSet(op) /\ IsRuleDelete(e)
      BY <2>1, <3>2, <3>3
    <3>5. Len(op.path) = 2 /\ Len(e.path) = 1
      BY <3>4, DeletesAndSets
    <3>6. Len(e.path) = Len(op.path)
      BY <3>1, Zenon
    <3> QED
      BY <3>5, <3>6
  <2>3. \A op \in O : IsRuleOp(op)
    BY <2>1, DeletesAndSets
  <2> HIDE DEF O
  <2> QED
    BY <2>1, <2>2, <2>3
<1> HIDE DEF O
<1>4. /\ ops \in Seq(O) /\ Range(ops) = Range(a) \cup Range(b) /\ Len(ops) = Len(a) + Len(b)
      /\ \A i \in 1..(Len(a) + Len(b)) : ops[i] = IF i =< Len(a) THEN a[i] ELSE b[i - Len(a)]
  BY <1>1, <1>2, ConcatRange, ConcatProperties
<1>5. Range(ops) = O
  BY <1>1, <1>4 DEF O
<1>6. <<>> \in Seq(O) /\ Range(<<>>) = {}
  BY DEF Range
<1>7. q \in Seq(O) /\ Range(q) = O
  <2>1. AddAll(<<>>, ops) \in Seq(O) /\ Range(AddAll(<<>>, ops)) = Range(<<>>) \cup Range(ops)
    <3> DEFINE e == <<>>
    <3>1. e \in Seq(O)
      BY <1>6
    <3> HIDE DEF e
    <3>2. AddAll(e, ops) \in Seq(O) /\ Range(AddAll(e, ops)) = Range(e) \cup Range(ops)
      BY <1>3, <1>4, <3>1, AddedAllRange
    <3> QED
      BY <3>2 DEF e
  <2> QED
    BY <1>5, <1>6, <2>1
<1> DEFINE n == Len(ops)
           k == Len(a)
           V == Seq(O)
<1>8. n \in Nat /\ k \in Nat /\ k =< n /\ DOMAIN ops = 1..n /\ \A i \in 1..n : ops[i] \in O
  BY <1>1, <1>4
<1>9. \A i \in 1..n : (i =< k => IsRuleDelete(ops[i])) /\ (i > k => IsLeafSet(ops[i]))
  <2> SUFFICES ASSUME NEW i \in 1..n PROVE (i =< k => IsRuleDelete(ops[i])) /\ (i > k => IsLeafSet(ops[i]))
    OBVIOUS
  <2>1. CASE i =< k
    <3>1. ops[i] = a[i] /\ i \in 1..Len(a)
      BY <1>4, <1>8, <2>1
    <3>2. a[i] \in D
      BY <1>1, <3>1
    <3> QED
      BY <2>1, <3>1, <3>2
  <2>2. CASE i > k
    <3>1. ops[i] = b[i - k] /\ i - k \in 1..Len(b)
      BY <1>1, <1>4, <1>8, <2>2
    <3>2. b[i - k] \in S
      BY <1>1, <3>1
    <3> QED
      BY <1>8, <2>2, <3>1, <3>2
  <2> QED
    BY <1>8, <2>1, <2>2
<1> HIDE DEF n, k, V
<1>10. PICK run \in [0..n -> V] : /\ run[0] = <<>>
                                  /\ \A i \in 1..n : run[i] = Add(run[i - 1], ops[i])
                                  /\ AddAll(<<>>, ops) = run[n]
  <2>1. <<>> \in V /\ \A r \in V, i \in 1..n : Add(r, ops[i]) \in V
    BY <1>3, <1>6, <1>8, AddedRange DEF V
  <2>2. AddAllRuns(V, <<>>, ops, n)
    BY <1>8, <2>1, AddAllRun
  <2> QED
    BY <2>2 DEF AddAllRuns
<1> DEFINE Ordered(r) == \E d : InOrder(r, Len(r), d)
           T == {i \in 0..n : IF i =< k THEN InOrder(run[i], Len(run[i]), Len(run[i])) ELSE Ordered(run[i])}
<1>11. 0 \in T
  <2>1. InOrder(<<>>, 0, 0) /\ Len(<<>>) = 0
    BY DEF InOrder
  <2> QED
    BY <1>8, <1>10, <2>1
<1>12. ASSUME NEW i \in 0..(n - 1), i \in T PROVE i + 1 \in T
  <2>1. i + 1 \in 1..n /\ i + 1 \in 0..n /\ (i + 1) - 1 = i /\ i \in 0..n
    BY <1>8
  <2> DEFINE r == run[i]
             op == ops[i + 1]
  <2>2. run[i + 1] = Add(r, op) /\ r \in Seq(O) /\ op \in O
    BY <1>8, <1>10, <2>1 DEF V
  <2>3. /\ i + 1 =< k => IsRuleDelete(op)
        /\ i + 1 > k => IsLeafSet(op)
    BY <1>9, <2>1
  <2>4. (i =< k => InOrder(r, Len(r), Len(r))) /\ (~(i =< k) => Ordered(r))
    BY <1>12
  <2> HIDE DEF r, op
  <2>5. IsLeafSet(op) => ~IsRuleDelete(op)
    BY DeletesAndSets, Zenon
  <2>6. CASE i + 1 =< k
    <3>1. i =< k /\ IsRuleDelete(op)
      BY <1>8, <2>3, <2>6
    <3>2. InOrder(Add(r, op), Len(Add(r, op)), Len(Add(r, op)))
      BY <1>3, <2>2, <2>4, <3>1, AddInOrder
    <3> QED
      BY <2>1, <2>2, <2>6, <3>2
  <2>7. CASE i + 1 > k
    <3>1. ~IsRuleDelete(op) /\ ~(i + 1 =< k)
      BY <1>8, <2>1, <2>3, <2>5, <2>7
    <3>2. PICK d : InOrder(r, Len(r), d)
      BY <2>4
    <3>3. \E e : InOrder(Add(r, op), Len(Add(r, op)), e)
      BY <1>3, <2>2, <3>1, <3>2, AddInOrder
    <3> QED
      BY <2>1, <2>2, <3>1, <3>3
  <2> QED
    BY <1>8, <2>1, <2>6, <2>7
<1>13. n \in T
  <2> HIDE DEF T
  <2>1. \A i \in 0..n : i \in T
    BY <1>8, <1>11, <1>12, Induction
  <2> QED
    BY <1>8, <2>1
<1>14. \E d : InOrder(q, Len(q), d)
  BY <1>10, <1>13
<1> QED
  BY <1>7, <1>14 DEF O

(* Every set of the setting sets it to w, where it is not there any more. *)
SetsFresh(c, ops, k, n, l, w) ==
  /\ \A i \in 1..k : ops[i].path = <<n, l>> => ops[i] = SetOp(<<n, l>>, w)
  /\ (\E i \in 1..k : ops[i].path = <<n, l>>) =>
       (\E i \in 1..k : ops[i] = DeleteNode(<<n>>)) \/ \A v : Node(<<n, l>>, v) \notin c

(* After deletes of rules and then sets of settings, a setting is the one  *)
(* that was set, or the one that was there in a rule that was not deleted. *)
LEMMA SettingInOrder ==
  ASSUME NEW c, IsRuleset(c), NEW ops, NEW k \in Nat, DOMAIN ops = 1..k, NEW d, InOrder(ops, k, d),
         NEW n, NEW l, NEW w, SetsFresh(c, ops, k, n, l, w), NEW u
  PROVE  Node(<<n, l>>, u) \in AfterOps(c, ops, {}) <=>
           IF \E i \in 1..k : ops[i].path = <<n, l>> THEN u = w
           ELSE Node(<<n, l>>, u) \in c /\ \A i \in 1..k : ops[i] # DeleteNode(<<n>>)
<1> DEFINE p == <<n, l>>
           x(v) == Node(p, v)
           gone == DeleteNode(<<n>>)
           isSet(j) == \E i \in 1..j : ops[i].path = p
           isGone(j) == \E i \in 1..j : ops[i] = gone
           Is(R, j) == \A v : x(v) \in R <=> IF isSet(j) THEN v = w ELSE x(v) \in c /\ ~isGone(j)
<1>0. /\ \A i \in 1..k : ops[i].path = p => ops[i] = SetOp(p, w)
      /\ isSet(k) => isGone(k) \/ \A v : x(v) \notin c
  BY DEF SetsFresh
<1>1. \A i \in 1..k : IsRuleOp(ops[i]) /\ (IsRuleDelete(ops[i]) \/ IsLeafSet(ops[i]))
  <2>1. d \in 0..k /\ \A i \in 1..k : IsRuleDelete(ops[i]) \/ IsLeafSet(ops[i])
    BY DEF InOrder
  <2> QED
    BY <2>1, DeletesAndSets
<1>2. PICK V : (\A e \in V : IsRuleset(e)) /\ AfterOpsRuns(V, c, ops, {}, k)
  BY <1>1, RulesetRun
<1>3. PICK run \in [0..k -> V] : /\ run[0] = c
                                 /\ \A i \in 1..k : run[i] = AfterOp(run[i - 1], ops[i], {})
                                 /\ AfterOps(c, ops, {}) = run[k]
  BY <1>2 DEF AfterOpsRuns
<1> DEFINE T == {j \in 0..k : Is(run[j], j)}
<1>4. 0 \in T
  BY <1>3
<1>5. ASSUME NEW j \in 0..(k - 1), j \in T PROVE j + 1 \in T
  <2> DEFINE R == run[j]
             op == ops[j + 1]
  <2>1. j + 1 \in 1..k /\ j + 1 \in 0..k /\ (j + 1) - 1 = j /\ j \in 0..k
    OBVIOUS
  <2>2. run[j + 1] = AfterOp(R, op, {}) /\ IsRuleset(R) /\ IsRuleOp(op)
    BY <1>1, <1>2, <1>3, <2>1
  <2>3. Is(R, j)
    BY <1>5
  <2>4. /\ isSet(j + 1) <=> isSet(j) \/ op.path = p
        /\ isGone(j + 1) <=> isGone(j) \/ op = gone
    <3>1. \A i : i \in 1..(j + 1) <=> i \in 1..j \/ i = j + 1
      BY <2>1
    <3> QED
      BY <3>1
  <2>5. ASSUME op.path # <<n>>, op.path # p PROVE Is(AfterOp(R, op, {}), j + 1)
    <3>1. op # gone
      <4>1. gone.path = <<n>>
        BY OpPath
      <4> QED
        BY <2>5, <4>1
    <3>2. ASSUME NEW v PROVE x(v) \in AfterOp(R, op, {}) <=> x(v) \in R
      <4> HIDE DEF R, op
      <4> QED
        BY <2>2, <2>5, OtherOp
    <3> HIDE DEF R, op, x, isSet, isGone
    <3> QED
      BY <2>3, <2>4, <2>5, <3>1, <3>2
  <2>6. CASE j + 1 =< d
    <3>1. IsRuleDelete(op) /\ \A i \in 1..(j + 1) : IsRuleDelete(ops[i])
      BY <2>1, <2>6 DEF InOrder
    <3>2. ~isSet(j + 1)
      <4> SUFFICES ASSUME NEW i \in 1..(j + 1), ops[i].path = p PROVE FALSE
        OBVIOUS
      <4>1. PICK m \in Number : ops[i] = DeleteNode(<<m>>)
        BY <3>1 DEF IsRuleDelete
      <4>2. ops[i].path = <<m>>
        BY <4>1, OpPath
      <4>3. <<m>> # <<n, l>>
        BY LeafPaths
      <4> QED
        BY <4>2, <4>3
    <3>3. PICK m \in Number : op = DeleteNode(<<m>>)
      BY <3>1 DEF IsRuleDelete
    <3>4. op.path = <<m>> /\ <<m>> # p
      BY <3>3, OpPath, LeafPaths
    <3>5. CASE m = n
      <4>1. op = gone
        BY <3>3, <3>5
      <4>2. ASSUME NEW v PROVE x(v) \notin AfterOp(R, gone, {})
        BY <2>2, NothingLeft
      <4> HIDE DEF R, op, x, isSet, isGone, gone
      <4>3. Is(AfterOp(R, op, {}), j + 1)
        BY <2>4, <3>2, <4>1, <4>2
      <4> QED
        BY <2>1, <2>2, <4>3
    <3>6. CASE m # n
      <4>1. op.path # <<n>>
        BY <3>4, <3>6
      <4>2. op.path # p
        BY <3>4
      <4> QED
        BY <2>1, <2>2, <2>5, <4>1, <4>2
    <3> QED
      BY <3>5, <3>6
  <2>7. CASE j + 1 > d
    <3>1. IsLeafSet(op)
      BY <2>1, <2>7 DEF InOrder
    <3>2. PICK m, a, b : m \in Number /\ op = SetOp(<<m, a>>, b) /\ Fits(a, b)
      BY <3>1 DEF IsLeafSet
    <3>3. op.path = <<m, a>> /\ <<m, a>> # <<n>>
      BY <3>2, OpPath, LeafPaths
    <3>4. CASE op.path # p
      BY <2>1, <2>2, <2>5, <3>3, <3>4
    <3>5. CASE op.path = p
      <4>1. op = SetOp(p, w)
        BY <1>0, <2>1, <3>5
      <4>2. \/ AfterOp(R, SetOp(p, w), {}) = Without(R, p) \cup {Node(p, w)}
            \/ AfterOp(R, SetOp(p, w), {}) = R /\ \E y \in R : y.path = p
        BY <2>2, LeafIsSet
      <4>3. CASE AfterOp(R, SetOp(p, w), {}) = Without(R, p) \cup {Node(p, w)}
        <5>1. \A v : x(v) \in Without(R, p) \cup {Node(p, w)} <=> v = w
          BY NodeIs DEF Without
        <5> HIDE DEF R, op, p, x, isSet, isGone
        <5>2. Is(AfterOp(R, op, {}), j + 1)
          BY <2>4, <3>5, <4>1, <4>3, <5>1
        <5> QED
          BY <2>1, <2>2, <5>2
      <4>4. CASE AfterOp(R, SetOp(p, w), {}) = R /\ \E y \in R : y.path = p
        <5>1. PICK y \in R : y.path = p
          BY <4>4
        <5>2. y = x(y.val)
          BY <2>2, <5>1 DEF IsRuleset, IsRuleNode
        <5>3. isSet(j)
          <6> SUFFICES ASSUME ~isSet(j) PROVE FALSE
            OBVIOUS
          <6>1. x(y.val) \in c /\ ~isGone(j)
            BY <2>3, <5>1, <5>2
          <6>2. \E i \in 1..k : ops[i] = gone
            BY <1>0, <2>1, <3>5, <6>1
          <6>3. PICK i \in 1..k : ops[i] = gone
            BY <6>2
          <6>4. ~(i =< j)
            BY <2>1, <6>1, <6>3
          <6>5. IsLeafSet(ops[i])
            BY <2>1, <2>7, <6>4 DEF InOrder
          <6>6. IsRuleDelete(ops[i])
            <7>1. ops[i].path = <<n>>
              BY <6>3, OpPath
            <7>2. Len(<<n>>) = 1
              BY RulePaths
            <7>3. ~IsLeafSet(ops[i])
              <8>1. Len(ops[i].path) = 1
                BY <7>1, <7>2
              <8>2. IsLeafSet(ops[i]) => Len(ops[i].path) = 2
                BY DeletesAndSets
              <8> QED
                BY ONLY <8>1, <8>2
            <7> QED
              BY <6>5, <7>3
          <6> QED
            BY <6>5, <6>6, DeletesAndSets
        <5> HIDE DEF R, op, p, x, isGone, isSet
        <5>4. Is(AfterOp(R, op, {}), j + 1)
          BY <2>3, <2>4, <4>1, <4>4, <5>3
        <5> QED
          BY <2>1, <2>2, <5>4
      <4> QED
        BY <4>2, <4>3, <4>4
    <3> QED
      BY <3>4, <3>5
  <2>8. j + 1 =< d \/ j + 1 > d
    <3>1. d \in Nat
      BY DEF InOrder
    <3> QED
      BY <2>1, <3>1
  <2> QED
    BY <2>6, <2>7, <2>8
<1>6. k \in T
  <2> HIDE DEF T
  <2>1. \A j \in 0..k : j \in T
    BY <1>4, <1>5, Induction
  <2> QED
    BY <2>1
<1>7. Is(run[k], k)
  BY <1>6
<1> QED
  BY <1>3, <1>7

(* Two rules with the same settings do the same. *)
LEMMA SameContent ==
  ASSUME NEW c, IsRuleset(c), NEW d, IsRuleset(d), NEW m, NEW n,
         \A l, v : Node(<<m, l>>, v) \in c <=> Node(<<n, l>>, v) \in d
  PROVE  Content(c, m) = Content(d, n)
<1>1. /\ \A s \in Content(c, m) : s = <<s[1], s[2]>>
      /\ \A s \in Content(d, n) : s = <<s[1], s[2]>>
  BY ContentIs
<1>2. \A l, v : <<l, v>> \in Content(c, m) <=> <<l, v>> \in Content(d, n)
  BY ContentIs
<1> QED
  BY <1>1, <1>2, SamePairs

LEMMA NoContent ==
  ASSUME NEW c, IsRuleset(c), NEW n
  PROVE  /\ (\A l, v : Node(<<n, l>>, v) \notin c) <=> Content(c, n) = {}
         /\ Content(c, n) # {} => n \in Numbers(c)
<1>1. \A l, v : /\ \A s \in Content(c, n) : s = <<s[1], s[2]>>
                /\ <<l, v>> \in Content(c, n) <=> Node(<<n, l>>, v) \in c
  BY ContentIs
<1>2. (\A l, v : Node(<<n, l>>, v) \notin c) <=> Content(c, n) = {}
  <2>1. ASSUME NEW s \in Content(c, n) PROVE Node(<<n, s[1]>>, s[2]) \in c
    <3>1. s = <<s[1], s[2]>>
      BY <1>1
    <3>2. <<s[1], s[2]>> \in Content(c, n)
      BY <3>1
    <3> QED
      BY <1>1, <3>2
  <2> QED
    BY <1>1, <2>1
<1>3. ASSUME NEW l, NEW v, Node(<<n, l>>, v) \in c PROVE n \in Numbers(c)
  <2> DEFINE x == Node(<<n, l>>, v)
  <2>1. x \in c /\ x.path = <<n, l>>
    BY <1>3, NodeIs
  <2> HIDE DEF x
  <2>2. x.path[1] = n
    BY <2>1
  <2> QED
    BY <2>1, <2>2 DEF Numbers
<1> QED
  BY <1>2, <1>3

(* After a move every rule does what it did, under its new number, and no  *)
(* rule has another number: neither lost, nor doubled, nor mixed.          *)
LEMMA MoveDoes ==
  ASSUME IsRuleset(router), Filled(router), NEW from \in DOMAIN Shown, NEW to \in DOMAIN Shown,
         NEW r, r = MoveItem(Shown, from, to),
         NEW new, NEW moved, Renumbers(r, new, moved, Range(Renumbering(from, to))),
         NEW q, q = AddAll(<<>>, ReorderRuleOps(from, to)),
         NEW c, c = AfterOps(router, q, {}), IsRuleset(c)
  PROVE  /\ \A i \in 1..Len(r) : Content(c, new[i]) = Content(router, r[i])
         /\ \A n : (\A i \in 1..Len(r) : new[i] # n) => Content(c, n) = {}
<1> DEFINE N == Len(r)
           D == MoveDeletes(r, moved)
           S == MoveSets(router, r, new, moved)
<1>1. Shown \in Seq(Number) /\ Shown \in Seq(Nat) /\ Ascending(Shown) /\ Range(Shown) = Numbers(router)
  BY ShownAscends
<1>2. /\ r \in Seq(Nat) /\ Range(r) = Numbers(router)
      /\ \A i, j \in 1..N : r[i] = r[j] => i = j
  <2> DEFINE s == Shown
  <2>1. s \in Seq(Nat) /\ Ascending(s) /\ from \in 1..Len(s) /\ to \in 1..Len(s) /\ r = MoveItem(s, from, to) /\ Range(s) = Numbers(router)
    BY <1>1
  <2> HIDE DEF s
  <2>2. r \in Seq(Nat) /\ Len(r) = Len(s) /\ Range(r) = Range(s) /\ \A i, j \in 1..Len(s) : r[i] = r[j] => i = j
    BY <2>1, MoveItemPermutes
  <2> QED
    BY <2>1, <2>2
<1>3. /\ N \in Nat /\ r \in Seq(Numbers(router)) /\ \A n : n \in Numbers(router) <=> \E i \in 1..N : r[i] = n
      /\ \A i \in 1..N : r[i] \in Number
  <2>1. r \in Seq(Range(r)) /\ \A n : n \in Range(r) <=> \E i \in 1..N : r[i] = n
    BY <1>2, RangeIs
  <2>2. Numbers(router) \subseteq Number
    BY NumbersAre
  <2> QED
    BY <1>2, <2>1, <2>2
<1>4. /\ moved \subseteq 1..N /\ \A i \in (1..N) \ moved : new[i] = r[i]
      /\ \A i, j \in 1..N : new[i] = new[j] => i = j
      /\ \A i \in 1..N : new[i] \in Number
  <2>1. /\ new \in Seq(Number) /\ Len(new) = N /\ Ascending(new)
        /\ moved \subseteq 1..N /\ \A i \in (1..N) \ moved : new[i] = r[i]
    BY DEF Renumbers
  <2>2. DOMAIN new = 1..N /\ \A i \in 1..N : new[i] \in Number /\ new[i] \in Nat
    BY <2>1 DEF Number
  <2>3. ASSUME NEW i \in 1..N, NEW j \in 1..N, new[i] = new[j] PROVE i = j
    <3>1. (i < j => new[i] < new[j]) /\ (j < i => new[j] < new[i])
      BY <2>1, <2>2 DEF Ascending
    <3>2. i < j \/ j < i \/ i = j
      BY <1>3
    <3> QED
      BY <2>2, <2>3, <3>1, <3>2
  <2> QED
    BY <2>1, <2>2, <2>3
<1>5. DeletesThenSets(ReorderRuleOps(from, to), D, S)
  BY <1>3, ReorderRuleOpsIs
<1>6. /\ \A op \in D : \E i \in moved : op = DeleteNode(<<r[i]>>)
      /\ \A i \in moved : DeleteNode(<<r[i]>>) \in D
  BY DEF MoveDeletes
<1>7. ASSUME NEW op \in S
      PROVE  \E i \in moved : \E l, w : /\ op = SetOp(<<new[i], l>>, w) /\ op.path = <<new[i], l>> /\ Fits(l, w)
                                        /\ Node(<<r[i], l>>, w) \in router
  <2>1. PICK i \in moved : op \in SettingSets(router, r[i], new[i])
    BY DEF MoveSets
  <2>2. PICK x \in Settings(router, r[i]) : op = SetOp(<<new[i], x.path[2]>>, x.val)
    BY <2>1 DEF SettingSets
  <2>3. x = Node(<<r[i], x.path[2]>>, x.val) /\ Fits(x.path[2], x.val) /\ x \in router
    <3> DEFINE m == r[i]
    <3>1. x \in Settings(router, m)
      BY <2>2
    <3> HIDE DEF m
    <3>2. x = Node(<<m, x.path[2]>>, x.val) /\ Fits(x.path[2], x.val) /\ x \in router
      BY <3>1, SettingIs DEF Settings
    <3> QED
      BY <3>2 DEF m
  <2>4. op.path = <<new[i], x.path[2]>>
    BY <2>2, OpPath
  <2> QED
    BY <2>2, <2>3, <2>4
<1>8. ASSUME NEW i \in moved, NEW l, NEW w, Node(<<r[i], l>>, w) \in router
      PROVE  SetOp(<<new[i], l>>, w) \in S
  <2> DEFINE x == Node(<<r[i], l>>, w)
  <2>1. x \in Settings(router, r[i])
    BY <1>8, SettingIs
  <2>2. x.path = <<r[i], l>> /\ x.val = w
    BY NodeIs
  <2> HIDE DEF x
  <2>3. x.path[2] = l
    BY <2>2
  <2>4. SetOp(<<new[i], l>>, w) = SetOp(<<new[i], x.path[2]>>, x.val)
    BY <2>2, <2>3
  <2>5. SetOp(<<new[i], l>>, w) \in SettingSets(router, r[i], new[i])
    BY <2>1, <2>4, Zenon DEF SettingSets
  <2> QED
    BY <2>5, Zenon DEF MoveSets, S
<1> HIDE DEF D, S
<1>9. /\ \A op \in D : IsRuleDelete(op)
      /\ \A op \in S : IsLeafSet(op)
  <2>1. ASSUME NEW op \in D PROVE IsRuleDelete(op)
    <3>1. PICK i \in moved : op = DeleteNode(<<r[i]>>)
      BY <1>6
    <3> QED
      BY <1>3, <1>4, <3>1 DEF IsRuleDelete
  <2>2. ASSUME NEW op \in S PROVE IsLeafSet(op)
    <3>1. PICK i, l, w : i \in moved /\ op = SetOp(<<new[i], l>>, w) /\ Fits(l, w)
      BY <1>7
    <3>2. new[i] \in Number
      BY <1>4, <3>1
    <3> QED
      BY <3>1, <3>2 DEF IsLeafSet
  <2> QED
    BY <2>1, <2>2
<1>10. q \in Seq(D \cup S) /\ Range(q) = D \cup S /\ \E d : InOrder(q, Len(q), d)
  BY <1>5, <1>9, QueuedInOrder
<1> DEFINE k == Len(q)
<1>11. PICK d : InOrder(q, k, d)
  BY <1>10
<1>12. k \in Nat /\ DOMAIN q = 1..k /\ \A op : op \in D \cup S <=> \E j \in 1..k : q[j] = op
  <2> DEFINE O == D \cup S
  <2>1. q \in Seq(O) /\ Range(q) = O
    BY <1>10
  <2> HIDE DEF O
  <2>2. k \in Nat /\ DOMAIN q = 1..k /\ \A op : op \in O <=> \E j \in 1..k : q[j] = op
    BY <2>1, RangeIs
  <2> QED
    BY <2>2 DEF O
<1> HIDE DEF N, k
<1>13. ASSUME NEW n PROVE (\E j \in 1..k : q[j] = DeleteNode(<<n>>)) <=> \E i \in moved : r[i] = n
  <2> DEFINE op == DeleteNode(<<n>>)
  <2>1. op.path = <<n>> /\ Len(<<n>>) = 1
    BY OpPath, RulePaths
  <2>2. op \notin S
    <3> SUFFICES ASSUME op \in S PROVE FALSE
      OBVIOUS
    <3>1. PICK i, l, w : i \in moved /\ op.path = <<new[i], l>>
      BY <1>7
    <3>2. <<n>> # <<new[i], l>>
      BY LeafPaths
    <3> QED
      BY <2>1, <3>1, <3>2
  <2>3. op \in D => \E i \in moved : r[i] = n
    <3> SUFFICES ASSUME op \in D PROVE \E i \in moved : r[i] = n
      OBVIOUS
    <3>1. PICK i \in moved : op = DeleteNode(<<r[i]>>)
      BY <1>6
    <3>2. op.path = <<r[i]>>
      BY <3>1, OpPath
    <3>3. <<n>> = <<r[i]>>
      BY <2>1, <3>2
    <3>4. n = r[i]
      BY <3>3
    <3> QED
      BY <3>4
  <2>4. ASSUME NEW i \in moved, r[i] = n PROVE op \in D
    BY <1>6, <2>4
  <2> HIDE DEF op
  <2>5. (\E j \in 1..k : q[j] = op) <=> op \in D
    BY <1>12, <2>2
  <2> QED
    BY <2>3, <2>4, <2>5 DEF op
<1>14. ASSUME NEW n, NEW l, NEW j \in 1..k, q[j].path = <<n, l>>
       PROVE  \E i \in moved : new[i] = n /\ \E w : q[j] = SetOp(<<n, l>>, w) /\ Node(<<r[i], l>>, w) \in router
  <2> DEFINE op == q[j]
  <2>1. op \in D \cup S /\ op.path = <<n, l>>
    BY <1>12, <1>14
  <2> HIDE DEF op
  <2>2. op \notin D
    <3> SUFFICES ASSUME op \in D PROVE FALSE
      OBVIOUS
    <3>1. PICK i \in moved : op = DeleteNode(<<r[i]>>)
      BY <1>6
    <3>2. op.path = <<r[i]>> /\ <<r[i]>> # <<n, l>>
      BY <3>1, OpPath, LeafPaths
    <3> QED
      BY <2>1, <3>2
  <2>3. op \in S
    BY <2>1, <2>2
  <2>4. PICK i, a, w : i \in moved /\ op = SetOp(<<new[i], a>>, w) /\ op.path = <<new[i], a>> /\ Node(<<r[i], a>>, w) \in router
    BY <1>7, <2>3
  <2>5. <<new[i], a>> = <<n, l>>
    BY <2>1, <2>4
  <2>6. new[i] = n /\ a = l
    BY <2>5
  <2>7. op = SetOp(<<n, l>>, w) /\ Node(<<r[i], l>>, w) \in router
    BY <2>4, <2>6
  <2> QED
    BY <2>4, <2>6, <2>7 DEF op
<1>15. \A m, l, v, w : Node(<<m, l>>, v) \in router /\ Node(<<m, l>>, w) \in router => v = w
  <2> SUFFICES ASSUME NEW m, NEW l, NEW v, NEW w, Node(<<m, l>>, v) \in router, Node(<<m, l>>, w) \in router PROVE v = w
    OBVIOUS
  <2>1. Node(<<m, l>>, v).path = Node(<<m, l>>, w).path
    BY NodeIs
  <2>2. Node(<<m, l>>, v) = Node(<<m, l>>, w)
    BY <2>1 DEF IsRuleset
  <2> QED
    BY <2>2, NodeIs
<1>16. \A n, l, v : Node(<<n, l>>, v) \in router => n \in Numbers(router)
  BY NoContent
(* A number that is a new one, or none, is that of a deleted rule if any. *)
<1>17. ASSUME NEW n, n \in Numbers(router), \A i \in (1..N) \ moved : new[i] # n
       PROVE  \E j \in 1..k : q[j] = DeleteNode(<<n>>)
  <2>1. PICK i \in 1..N : r[i] = n
    BY <1>3, <1>17 DEF N
  <2>2. i \in moved
    BY <1>4, <1>17, <2>1 DEF N
  <2> QED
    BY <1>13, <2>1, <2>2
<1>18. ASSUME NEW n, NEW l, NEW w, SetsFresh(router, q, k, n, l, w), NEW v
       PROVE  Node(<<n, l>>, v) \in c <=>
                IF \E j \in 1..k : q[j].path = <<n, l>> THEN v = w
                ELSE Node(<<n, l>>, v) \in router /\ \A j \in 1..k : q[j] # DeleteNode(<<n>>)
  <2>1. DOMAIN q = 1..k /\ k \in Nat
    BY <1>12
  <2>2. Node(<<n, l>>, v) \in AfterOps(router, q, {}) <=>
          IF \E j \in 1..k : q[j].path = <<n, l>> THEN v = w
          ELSE Node(<<n, l>>, v) \in router /\ \A j \in 1..k : q[j] # DeleteNode(<<n>>)
    <3> DEFINE R == router
    <3>1. IsRuleset(R) /\ InOrder(q, k, d) /\ SetsFresh(R, q, k, n, l, w)
      BY <1>11, <1>18
    <3> HIDE DEF R
    <3>2. Node(<<n, l>>, v) \in AfterOps(R, q, {}) <=>
            IF \E j \in 1..k : q[j].path = <<n, l>> THEN v = w
            ELSE Node(<<n, l>>, v) \in R /\ \A j \in 1..k : q[j] # DeleteNode(<<n>>)
      BY ONLY <2>1, <3>1, SettingInOrder
    <3> QED
      BY <3>2 DEF R
  <2> QED
    BY <2>2
<1>19. ASSUME NEW n, \A i \in moved : new[i] # n, NEW l, NEW v
       PROVE  Node(<<n, l>>, v) \in c <=> Node(<<n, l>>, v) \in router /\ \A j \in 1..k : q[j] # DeleteNode(<<n>>)
  <2>1. \A j \in 1..k : q[j].path # <<n, l>>
    BY <1>14, <1>19
  <2>2. SetsFresh(router, q, k, n, l, v)
    BY <2>1 DEF SetsFresh
  <2> QED
    BY <1>18, <2>1, <2>2
<1>20. ASSUME NEW i \in moved PROVE Content(c, new[i]) = Content(router, r[i])
  <2> DEFINE n == new[i]
  <2>1. \A m \in moved : new[m] = n => m = i
    BY <1>4 DEF N
  <2>2. \A m \in (1..N) \ moved : new[m] # n
    BY <1>4 DEF N
  <2> HIDE DEF n
  <2>3. ASSUME NEW l, NEW v PROVE Node(<<n, l>>, v) \in c <=> Node(<<r[i], l>>, v) \in router
    <3> DEFINE w == CHOOSE w : Node(<<r[i], l>>, w) \in router
    <3>1. \A a : Node(<<r[i], l>>, a) \in router => Node(<<r[i], l>>, w) \in router /\ a = w
      BY <1>15
    <3> HIDE DEF w
    <3>2. ASSUME NEW j \in 1..k, q[j].path = <<n, l>>
          PROVE  q[j] = SetOp(<<n, l>>, w) /\ Node(<<r[i], l>>, w) \in router
      <4>1. PICK m, a : m \in moved /\ new[m] = n /\ q[j] = SetOp(<<n, l>>, a) /\ Node(<<r[m], l>>, a) \in router
        BY <1>14, <3>2
      <4>2. m = i
        BY <2>1, <4>1
      <4>3. Node(<<r[i], l>>, a) \in router
        BY <4>1, <4>2
      <4> QED
        BY <3>1, <4>1, <4>3
    <3>3. (\E j \in 1..k : q[j] = DeleteNode(<<n>>)) \/ \A a : Node(<<n, l>>, a) \notin router
      BY <1>16, <1>17, <2>2
    <3>4. Node(<<n, l>>, v) \in c <=>
            IF \E j \in 1..k : q[j].path = <<n, l>> THEN v = w
            ELSE Node(<<n, l>>, v) \in router /\ \A j \in 1..k : q[j] # DeleteNode(<<n>>)
      <4>1. SetsFresh(router, q, k, n, l, w)
        BY <3>2, <3>3 DEF SetsFresh
      <4> QED
        BY <1>18, <4>1
    <3>5. Node(<<r[i], l>>, v) \in router => \E j \in 1..k : q[j].path = <<n, l>>
      <4> SUFFICES ASSUME Node(<<r[i], l>>, v) \in router PROVE \E j \in 1..k : q[j].path = <<n, l>>
        OBVIOUS
      <4>1. SetOp(<<n, l>>, v) \in S
        BY <1>8 DEF n
      <4>2. PICK j \in 1..k : q[j] = SetOp(<<n, l>>, v)
        BY <1>12, <4>1
      <4> QED
        BY <4>2, OpPath
    <3>6. CASE \E j \in 1..k : q[j].path = <<n, l>>
      BY <3>1, <3>2, <3>4, <3>6
    <3>7. CASE ~\E j \in 1..k : q[j].path = <<n, l>>
      BY <3>3, <3>4, <3>5, <3>7
    <3> QED
      BY <3>6, <3>7
  <2> QED
    BY <2>3, SameContent DEF n
<1>21. ASSUME NEW i \in (1..N) \ moved PROVE Content(c, new[i]) = Content(router, r[i])
  <2> DEFINE n == new[i]
  <2>1. n = r[i] /\ \A m \in moved : new[m] # n /\ r[m] # n
    <3>1. n = r[i] /\ \A m \in moved : m \in 1..N /\ m # i
      BY <1>4 DEF N
    <3> QED
      BY <1>2, <1>4, <3>1 DEF N
  <2> HIDE DEF n
  <2>2. \A j \in 1..k : q[j] # DeleteNode(<<n>>)
    BY <1>13, <2>1
  <2>3. \A l, v : Node(<<n, l>>, v) \in c <=> Node(<<n, l>>, v) \in router
    BY <1>19, <2>1, <2>2
  <2>4. Content(c, n) = Content(router, n)
    BY <2>3, SameContent
  <2> QED
    BY <2>1, <2>4 DEF n
<1>22. ASSUME NEW n, \A i \in 1..N : new[i] # n PROVE Content(c, n) = {}
  <2>1. ASSUME NEW l, NEW v PROVE Node(<<n, l>>, v) \notin c
    <3>1. Node(<<n, l>>, v) \in c <=> Node(<<n, l>>, v) \in router /\ \A j \in 1..k : q[j] # DeleteNode(<<n>>)
      <4>1. \A i \in moved : new[i] # n
        BY <1>4, <1>22 DEF N
      <4> QED
        BY <1>19, <4>1
    <3> QED
      BY <1>16, <1>17, <1>22, <3>1
  <2> QED
    BY <2>1, NoContent
<1> QED
  BY <1>20, <1>21, <1>22 DEF N

-----------------------------------------------------------------------------
(* What VyOS evaluates *)

Sequence(c) == [i \in DOMAIN Numbering(Numbers(c)) |-> Content(c, Numbering(Numbers(c))[i])]

LEMMA EvaluatedIs == Evaluated = Sequence(router)
  BY Zenon DEF Evaluated, Shown, Sequence, Numbering, Numbers, Rank

LEMMA EvaluatedNext == Evaluated' = Sequence(router')
  BY Zenon DEF Evaluated, Shown, Sequence, Numbering, Numbers, Rank

(* s are the numbers of the ruleset c in their order, e what its rules do. *)
InOrderOf(c, s, e) ==
  /\ s \in Seq(Nat) /\ Ascending(s)
  /\ \A n : n \in Range(s) <=> Content(c, n) # {}
  /\ e = [i \in 1..Len(s) |-> Content(c, s[i])]

LEMMA SequenceIs ==
  ASSUME NEW c, IsRuleset(c), Filled(c), NEW s, NEW e, InOrderOf(c, s, e)
  PROVE  Sequence(c) = e
<1>1. Range(s) = Numbers(c)
  BY NoContent DEF Filled, InOrderOf
<1>2. Numbering(Numbers(c)) = s
  BY <1>1, NumberingIsUnique DEF InOrderOf
<1>3. DOMAIN s = 1..Len(s)
  BY DEF InOrderOf
<1> QED
  BY <1>2, <1>3 DEF Sequence, InOrderOf

LEMMA ShownInOrder ==
  ASSUME IsRuleset(router), Filled(router)
  PROVE  InOrderOf(router, Shown, Evaluated)
<1>1. Shown \in Seq(Nat) /\ Ascending(Shown) /\ Range(Shown) = Numbers(router)
  BY ShownAscends
<1>2. \A n : n \in Range(Shown) <=> Content(router, n) # {}
  BY <1>1, NoContent DEF Filled
<1>3. DOMAIN Shown = 1..Len(Shown)
  BY <1>1
<1>4. Evaluated = [i \in 1..Len(Shown) |-> Content(router, Shown[i])]
  BY <1>3 DEF Evaluated
<1> QED
  BY <1>1, <1>2, <1>4 DEF InOrderOf

(* The elements of sequences in order. *)
Elements(c, s, e, N) ==
  /\ N \in Nat /\ s \in Seq(Nat) /\ DOMAIN s = 1..N /\ \A i \in 1..N : s[i] \in Nat
  /\ \A i, j \in 1..N : i < j => s[i] < s[j]
  /\ e \in Seq(Range(e)) /\ Len(e) = N /\ \A i \in 1..N : e[i] = Content(c, s[i]) /\ e[i] \in Range(e)
  /\ \A n : Content(c, n) # {} <=> \E i \in 1..N : s[i] = n

LEMMA OrderedElements ==
  ASSUME NEW c, NEW s, NEW e, InOrderOf(c, s, e)
  PROVE  Elements(c, s, e, Len(s))
<1> DEFINE N == Len(s)
<1>1. s \in Seq(Nat) /\ N \in Nat /\ DOMAIN s = 1..N /\ \A i \in 1..N : s[i] \in Nat
  BY DEF InOrderOf
<1>2. \A i, j \in 1..N : i < j => s[i] < s[j]
  BY <1>1 DEF InOrderOf, Ascending
<1>3. e = [i \in 1..N |-> Content(c, s[i])]
  BY DEF InOrderOf
<1>4. DOMAIN e = 1..N /\ \A i \in 1..N : e[i] = Content(c, s[i]) /\ e[i] \in Range(e)
  BY <1>3 DEF Range
<1>5. e \in Seq(Range(e)) /\ Len(e) = N
  <2>1. e \in [1..N -> Range(e)]
    BY <1>3, <1>4
  <2> QED
    BY <1>1, <2>1
<1>6. \A n : Content(c, n) # {} <=> \E i \in 1..N : s[i] = n
  <2>1. Range(s) = {s[i] : i \in 1..N}
    BY <1>1 DEF Range
  <2> QED
    BY <2>1 DEF InOrderOf
<1> QED
  BY <1>1, <1>2, <1>4, <1>5, <1>6 DEF Elements

(* A sequence of numbers and one of contents that fit a ruleset. *)
LEMMA FitsRuleset ==
  ASSUME NEW c, NEW N \in Nat, NEW s \in Seq(Nat), Len(s) = N, NEW S, NEW e \in Seq(S), Len(e) = N,
         \A i, j \in 1..N : i < j => s[i] < s[j],
         \A i \in 1..N : e[i] = Content(c, s[i]),
         \A n : Content(c, n) # {} <=> \E i \in 1..N : s[i] = n
  PROVE  InOrderOf(c, s, e)
<1>1. DOMAIN s = 1..N /\ DOMAIN e = 1..N /\ e = [i \in 1..N |-> e[i]]
  OBVIOUS
<1>2. Ascending(s)
  BY <1>1 DEF Ascending
<1>3. e = [i \in 1..N |-> Content(c, s[i])]
  BY <1>1
<1>4. Range(s) = {s[i] : i \in 1..N}
  BY <1>1 DEF Range
<1> QED
  BY <1>2, <1>3, <1>4 DEF InOrderOf

(* From c to d only what rule m does changes: it becomes K. *)
OnlyChanges(c, d, m, K) == \A n : Content(d, n) = IF n = m THEN K ELSE Content(c, n)

(* Who takes one rule out of a ruleset takes it out of the sequence. *)
LEMMA WithoutRule ==
  ASSUME NEW c, NEW s, NEW e, InOrderOf(c, s, e), NEW p \in 1..Len(s), NEW m, m = s[p],
         NEW d, OnlyChanges(c, d, m, {})
  PROVE  \E t : InOrderOf(d, t, RemoveAt(e, p))
<1>0. \A n : Content(d, n) = IF n = m THEN {} ELSE Content(c, n)
  BY DEF OnlyChanges
<1> DEFINE N == Len(s)
<1>1. /\ N \in Nat /\ s \in Seq(Nat) /\ \A i \in 1..N : s[i] \in Nat
      /\ \A i, j \in 1..N : i < j => s[i] < s[j]
      /\ e \in Seq(Range(e)) /\ Len(e) = N /\ \A i \in 1..N : e[i] = Content(c, s[i]) /\ e[i] \in Range(e)
      /\ \A n : Content(c, n) # {} <=> \E i \in 1..N : s[i] = n
  <2>1. Elements(c, s, e, N)
    BY OrderedElements
  <2> HIDE DEF N
  <2> QED
    BY <2>1 DEF Elements
<1>2. p \in 1..N /\ p \in 1..Len(e)
  BY <1>1
<1> DEFINE t == RemoveAt(s, p)
           f == RemoveAt(e, p)
           S == Range(e)
<1>3. t \in Seq(Nat) /\ Len(t) = N - 1 /\ \A i \in 1..(N - 1) : t[i] = IF i < p THEN s[i] ELSE s[i + 1]
  <2>1. s \in Seq(Nat) /\ p \in 1..Len(s) /\ t = RemoveAt(s, p)
    BY <1>1
  <2> HIDE DEF t
  <2>2. t \in Seq(Nat) /\ Len(t) = Len(s) - 1 /\ \A i \in 1..(Len(s) - 1) : t[i] = IF i < p THEN s[i] ELSE s[i + 1]
    BY ONLY <2>1, RemoveAtIs
  <2> QED
    BY <2>2
<1>4. f \in Seq(S) /\ Len(f) = N - 1 /\ \A i \in 1..(N - 1) : f[i] = IF i < p THEN e[i] ELSE e[i + 1]
  <2>1. e \in Seq(S) /\ p \in 1..Len(e) /\ f = RemoveAt(e, p)
    BY <1>1, <1>2
  <2> HIDE DEF S, N, f
  <2>2. f \in Seq(S) /\ Len(f) = Len(e) - 1 /\ \A i \in 1..(Len(e) - 1) : f[i] = IF i < p THEN e[i] ELSE e[i + 1]
    BY ONLY <2>1, RemoveAtIs
  <2> QED
    BY <1>1, <2>2
<1> HIDE DEF N, t, f, S
<1>5. N - 1 \in Nat
  BY <1>1, <1>2
<1>6. \A i, j \in 1..N : s[i] = s[j] => i = j
  <2> SUFFICES ASSUME NEW i \in 1..N, NEW j \in 1..N, s[i] = s[j] PROVE i = j
    OBVIOUS
  <2>1. i < j \/ j < i \/ i = j
    BY <1>1
  <2>2. s[i] \in Nat /\ s[j] \in Nat /\ (i < j => s[i] < s[j]) /\ (j < i => s[j] < s[i])
    BY <1>1
  <2> QED
    BY <2>1, <2>2
<1>7. \A i, j \in 1..(N - 1) : i < j => t[i] < t[j]
  <2> SUFFICES ASSUME NEW i \in 1..(N - 1), NEW j \in 1..(N - 1), i < j PROVE t[i] < t[j]
    OBVIOUS
  <2>1. i \in 1..N /\ j \in 1..N /\ i + 1 \in 1..N /\ j + 1 \in 1..N /\ i + 1 < j + 1 /\ i < j + 1
    BY <1>1
  <2>2. ~(j < p) \/ i < p
    BY <1>1, <1>2
  <2> QED
    BY <1>1, <1>3, <2>1, <2>2
<1>8. ASSUME NEW i \in 1..(N - 1) PROVE f[i] = Content(d, t[i]) /\ t[i] # m
  <2>1. i \in 1..N /\ i + 1 \in 1..N /\ (i < p => i # p) /\ (~(i < p) => i + 1 # p)
    BY <1>1, <1>2
  <2>2. t[i] # m
    BY <1>2, <1>3, <1>6, <2>1
  <2>3. f[i] = Content(c, t[i])
    BY <1>1, <1>3, <1>4, <2>1
  <2> QED
    BY <1>0, <2>2, <2>3
<1>9. ASSUME NEW n PROVE Content(d, n) # {} <=> \E i \in 1..(N - 1) : t[i] = n
  <2>1. ASSUME NEW i \in 1..(N - 1) PROVE Content(d, t[i]) # {}
    <3>1. t[i] # m /\ \E j \in 1..N : s[j] = t[i]
      <4>1. i \in 1..N /\ i + 1 \in 1..N
        BY <1>1
      <4> QED
        BY <1>3, <1>8, <4>1
    <3> QED
      BY <1>0, <1>1, <3>1
  <2>2. ASSUME Content(d, n) # {} PROVE \E i \in 1..(N - 1) : t[i] = n
    <3>1. n # m /\ Content(c, n) # {}
      BY <1>0, <2>2
    <3>2. PICK j \in 1..N : s[j] = n
      BY <1>1, <3>1
    <3>3. j # p
      BY <3>1, <3>2
    <3>4. CASE j < p
      <4>1. j \in 1..(N - 1)
        BY <1>1, <1>2, <3>4
      <4> QED
        BY <1>3, <3>2, <3>4, <4>1
    <3>5. CASE ~(j < p)
      <4> DEFINE i == j - 1
      <4>1. i \in 1..(N - 1) /\ ~(i < p) /\ i + 1 = j
        BY <1>1, <1>2, <3>3, <3>5
      <4> HIDE DEF i
      <4>2. t[i] = n
        BY <1>3, <3>2, <4>1
      <4> QED
        BY <4>1, <4>2
    <3> QED
      BY <3>4, <3>5
  <2> QED
    BY <2>1, <2>2
<1>10. InOrderOf(d, t, f)
  BY <1>3, <1>4, <1>5, <1>7, <1>8, <1>9, FitsRuleset
<1> QED
  BY <1>10 DEF f

(* Who changes what one rule does changes it in the sequence. *)
LEMMA ChangedRule ==
  ASSUME NEW c, NEW s, NEW e, InOrderOf(c, s, e), NEW p \in 1..Len(s), NEW m, m = s[p], NEW K, K # {},
         NEW d, OnlyChanges(c, d, m, K)
  PROVE  InOrderOf(d, s, ReplaceAt(e, p, K))
<1> DEFINE N == Len(s)
<1>1. /\ N \in Nat /\ s \in Seq(Nat) /\ \A i \in 1..N : s[i] \in Nat
      /\ \A i, j \in 1..N : i < j => s[i] < s[j]
      /\ e \in Seq(Range(e)) /\ Len(e) = N /\ \A i \in 1..N : e[i] = Content(c, s[i]) /\ e[i] \in Range(e)
      /\ \A n : Content(c, n) # {} <=> \E i \in 1..N : s[i] = n
  <2>1. Elements(c, s, e, N)
    BY OrderedElements
  <2> HIDE DEF N
  <2> QED
    BY <2>1 DEF Elements
<1> DEFINE f == ReplaceAt(e, p, K)
           S == Range(e) \cup {K}
<1>0. \A n : Content(d, n) = IF n = m THEN K ELSE Content(c, n)
  BY DEF OnlyChanges
<1>2. DOMAIN e = 1..N
  BY <1>1
<1>3. DOMAIN f = 1..N /\ f = [i \in 1..N |-> f[i]] /\ \A i \in 1..N : f[i] = IF i = p THEN K ELSE e[i]
  BY <1>2 DEF ReplaceAt
<1> HIDE DEF f, N
<1>4. \A i \in 1..N : f[i] \in S
  BY <1>1, <1>3
<1> HIDE DEF S
<1>5. f \in Seq(S) /\ Len(f) = N
  <2>1. f \in [1..N -> S]
    BY <1>3, <1>4
  <2> QED
    BY <1>1, <1>3, <2>1
<1>6. \A i \in 1..N : s[i] = m => i = p
  <2> SUFFICES ASSUME NEW i \in 1..N, s[i] = m PROVE i = p
    OBVIOUS
  <2>1. p \in 1..N
    BY DEF N
  <2>2. i < p \/ p < i \/ i = p
    BY <1>1, <2>1
  <2>3. s[i] \in Nat /\ s[p] \in Nat /\ (i < p => s[i] < s[p]) /\ (p < i => s[p] < s[i])
    BY <1>1, <2>1
  <2> QED
    BY <2>2, <2>3
<1>7. \A i \in 1..N : f[i] = Content(d, s[i])
  BY <1>0, <1>1, <1>3, <1>6
<1>8. \A n : Content(d, n) # {} <=> \E i \in 1..N : s[i] = n
  <2>1. p \in 1..N
    BY DEF N
  <2> QED
    BY <1>0, <1>1, <2>1
<1>9. s \in Seq(Nat) /\ Len(s) = N
  BY <1>1 DEF N
<1>10. InOrderOf(d, s, f)
  BY <1>1, <1>5, <1>7, <1>8, <1>9, FitsRuleset
<1> QED
  BY <1>10 DEF f

(* Who adds a rule adds it to the sequence where its number puts it. *)
LEMMA AddedRule ==
  ASSUME NEW c, NEW s, NEW e, InOrderOf(c, s, e), NEW m \in Nat, Content(c, m) = {}, NEW K, K # {},
         NEW k, k = Cardinality({i \in DOMAIN s : s[i] =< m}),
         NEW d, OnlyChanges(c, d, m, K)
  PROVE  \E t : InOrderOf(d, t, InsertAt(e, k + 1, K))
<1> DEFINE N == Len(s)
<1>1. /\ N \in Nat /\ s \in Seq(Nat) /\ \A i \in 1..N : s[i] \in Nat
      /\ \A i, j \in 1..N : i < j => s[i] < s[j]
      /\ e \in Seq(Range(e)) /\ Len(e) = N /\ \A i \in 1..N : e[i] = Content(c, s[i]) /\ e[i] \in Range(e)
      /\ \A n : Content(c, n) # {} <=> \E i \in 1..N : s[i] = n
  <2>1. Elements(c, s, e, N)
    BY OrderedElements
  <2> HIDE DEF N
  <2> QED
    BY <2>1 DEF Elements
<1>0. \A n : Content(d, n) = IF n = m THEN K ELSE Content(c, n)
  BY DEF OnlyChanges
<1>2. k \in 0..N /\ \A i \in 1..N : s[i] =< m <=> i =< k
  BY <1>1, PositionIs DEF InOrderOf
<1>3. k + 1 \in 1..(N + 1) /\ k + 1 \in 1..(Len(e) + 1)
  BY <1>1, <1>2
<1> DEFINE t == InsertAt(s, k + 1, m)
           f == InsertAt(e, k + 1, K)
           S == Range(e) \cup {K}
           q == k + 1
<1>4. t \in Seq(Nat) /\ Len(t) = N + 1 /\ \A i \in 1..(N + 1) : t[i] = IF i < q THEN s[i] ELSE IF i = q THEN m ELSE s[i - 1]
  <2> DEFINE A == Nat
  <2>1. q \in 1..(Len(s) + 1) /\ t = InsertAt(s, q, m) /\ s \in Seq(A) /\ m \in A
    BY <1>1, <1>3
  <2> HIDE DEF q, t, A
  <2>2. t \in Seq(A) /\ Len(t) = Len(s) + 1 /\ \A i \in 1..(Len(s) + 1) : t[i] = IF i < q THEN s[i] ELSE IF i = q THEN m ELSE s[i - 1]
    BY ONLY <2>1, InsertAtIs
  <2> QED
    BY <2>2 DEF A
<1>5. f \in Seq(S) /\ Len(f) = N + 1 /\ \A i \in 1..(N + 1) : f[i] = IF i < q THEN e[i] ELSE IF i = q THEN K ELSE e[i - 1]
  <2>1. q \in 1..(Len(e) + 1) /\ f = InsertAt(e, q, K) /\ K \in S /\ Range(e) \subseteq S
    BY <1>3
  <2> HIDE DEF q, f, S, N
  <2>2. e \in Seq(S)
    BY <1>1, <2>1, SeqMonotonic
  <2>3. f \in Seq(S) /\ Len(f) = Len(e) + 1 /\ \A i \in 1..(Len(e) + 1) : f[i] = IF i < q THEN e[i] ELSE IF i = q THEN K ELSE e[i - 1]
    BY <2>1, <2>2, InsertAtIs
  <2> QED
    BY <1>1, <2>3
<1>6. q \in 1..(N + 1) /\ k = q - 1
  BY <1>2, <1>3
<1> HIDE DEF N, t, f, S, q
<1>7. \A i \in 1..N : s[i] # m /\ (i < q => s[i] < m) /\ (~(i < q) => m < s[i])
  <2> SUFFICES ASSUME NEW i \in 1..N PROVE s[i] # m /\ (i < q => s[i] < m) /\ (~(i < q) => m < s[i])
    OBVIOUS
  <2>1. s[i] # m
    BY <1>1
  <2>2. s[i] =< m <=> i < q
    BY <1>1, <1>2, <1>6
  <2>3. s[i] \in Nat
    BY <1>1
  <2> QED
    BY <2>1, <2>2, <2>3
<1>8. \A i, j \in 1..(N + 1) : i < j => t[i] < t[j]
  <2> SUFFICES ASSUME NEW i \in 1..(N + 1), NEW j \in 1..(N + 1), i < j PROVE t[i] < t[j]
    OBVIOUS
  <2>1. /\ j < q => i < q /\ i \in 1..N /\ j \in 1..N
        /\ i < q => i \in 1..N
        /\ i = q => ~(j < q) /\ j # q
        /\ ~(i < q) /\ i # q => ~(j < q) /\ j # q /\ i - 1 \in 1..N /\ i - 1 < j - 1
        /\ ~(j < q) /\ j # q => j - 1 \in 1..N /\ ~(j - 1 < q)
        /\ i < q /\ ~(j < q) /\ j # q => i < j - 1
    BY <1>1, <1>6
  <2>2. CASE j < q
    BY <1>1, <1>4, <2>1, <2>2
  <2>3. CASE j = q
    <3>1. i < q
      BY <2>3
    <3>2. t[j] = m
      BY <1>4, <1>6, <2>3
    <3> QED
      BY <1>4, <1>7, <2>1, <3>1, <3>2
  <2>4. CASE ~(j < q) /\ j # q
    <3>1. t[j] = s[j - 1]
      BY <1>4, <2>4
    <3>2. CASE i < q
      BY <1>1, <1>4, <2>1, <2>4, <3>1, <3>2
    <3>3. CASE i = q
      BY <1>4, <1>7, <2>1, <2>4, <3>1, <3>3
    <3>4. CASE ~(i < q) /\ i # q
      BY <1>1, <1>4, <2>1, <2>4, <3>1, <3>4
    <3> QED
      BY <3>2, <3>3, <3>4
  <2> QED
    BY <2>2, <2>3, <2>4
<1>9. ASSUME NEW i \in 1..(N + 1) PROVE f[i] = Content(d, t[i]) /\ Content(d, t[i]) # {}
  <2>1. CASE i = q
    BY <1>0, <1>4, <1>5, <2>1
  <2>2. CASE i < q
    <3>1. i \in 1..N
      BY <1>1, <1>6, <2>2
    <3>2. t[i] = s[i] /\ f[i] = e[i]
      BY <1>4, <1>5, <2>2
    <3> QED
      BY <1>0, <1>1, <1>7, <3>1, <3>2
  <2>3. CASE ~(i < q) /\ i # q
    <3>1. i - 1 \in 1..N
      BY <1>1, <1>6, <2>3
    <3>2. t[i] = s[i - 1] /\ f[i] = e[i - 1]
      BY <1>4, <1>5, <2>3
    <3> QED
      BY <1>0, <1>1, <1>7, <3>1, <3>2
  <2> QED
    BY <2>1, <2>2, <2>3
<1>10. ASSUME NEW n, Content(d, n) # {} PROVE \E i \in 1..(N + 1) : t[i] = n
  <2>1. CASE n = m
    BY <1>4, <1>6, <2>1
  <2>2. CASE n # m
    <3>1. PICK j \in 1..N : s[j] = n
      BY <1>0, <1>1, <1>10, <2>2
    <3>2. CASE j < q
      <4>1. j \in 1..(N + 1)
        BY <1>1
      <4> QED
        BY <1>4, <3>1, <3>2, <4>1
    <3>3. CASE ~(j < q)
      <4> DEFINE i == j + 1
      <4>1. i \in 1..(N + 1) /\ ~(i < q) /\ i # q /\ i - 1 = j
        BY <1>1, <1>6, <3>3
      <4> HIDE DEF i
      <4> QED
        BY <1>4, <3>1, <4>1
    <3> QED
      BY <3>2, <3>3
  <2> QED
    BY <2>1, <2>2
<1>11. InOrderOf(d, t, f)
  <2>1. \A n : Content(d, n) # {} <=> \E i \in 1..(N + 1) : t[i] = n
    BY <1>9, <1>10
  <2>2. N + 1 \in Nat
    BY <1>1
  <2> DEFINE M == N + 1
  <2>3. /\ M \in Nat /\ t \in Seq(Nat) /\ Len(t) = M /\ f \in Seq(S) /\ Len(f) = M
        /\ \A i, j \in 1..M : i < j => t[i] < t[j]
        /\ \A i \in 1..M : f[i] = Content(d, t[i])
        /\ \A n : Content(d, n) # {} <=> \E i \in 1..M : t[i] = n
    BY <1>4, <1>5, <1>8, <1>9, <2>1, <2>2
  <2> HIDE DEF M
  <2> QED
    BY <2>3, FitsRuleset
<1> QED
  BY <1>11 DEF f

-----------------------------------------------------------------------------
(* What one gesture does to what VyOS evaluates *)

LEMMA MoveIsAsked ==
  ASSUME IsRuleset(router), Filled(router), NEW from \in DOMAIN Shown, NEW to \in DOMAIN Shown,
         NEW q, q = AddAll(<<>>, ReorderRuleOps(from, to)),
         NEW c, c = AfterOps(router, q, {}), IsRuleset(c)
  PROVE  \E t : InOrderOf(c, t, MoveItem(Evaluated, from, to))
<1> DEFINE s == Shown
           N == Len(s)
           r == MoveItem(s, from, to)
           e == Evaluated
           f == MoveItem(e, from, to)
           S == Range(e)
<1>1. /\ N \in Nat /\ s \in Seq(Nat) /\ DOMAIN s = 1..N
      /\ e \in Seq(S) /\ Len(e) = N /\ \A i \in 1..N : e[i] = Content(router, s[i])
      /\ \A n : Content(router, n) # {} <=> \E i \in 1..N : s[i] = n
  <2>1. Elements(router, s, e, N)
    BY ShownInOrder, OrderedElements
  <2> HIDE DEF s, e, N
  <2> QED
    BY <2>1 DEF Elements
<1>2. PICK new, moved : Renumbers(r, new, moved, Range(Renumbering(from, to)))
  BY RenumberingIs
<1>3. /\ \A i \in 1..Len(r) : Content(c, new[i]) = Content(router, r[i])
      /\ \A n : (\A i \in 1..Len(r) : new[i] # n) => Content(c, n) = {}
  BY <1>2, MoveDoes
<1>4. from \in 1..N /\ to \in 1..N
  BY <1>1
<1> HIDE DEF s
<1>5. /\ r \in Seq(Nat) /\ Len(r) = N
      /\ \A i \in 1..N : r[i] = IF i < to THEN IF i < from THEN s[i] ELSE s[i + 1]
                                ELSE IF i = to THEN s[from]
                                ELSE IF i - 1 < from THEN s[i - 1] ELSE s[i]
  <2> DEFINE A == Nat
  <2>1. s \in Seq(A) /\ from \in 1..Len(s) /\ to \in 1..Len(s)
    BY <1>1, <1>4
  <2> HIDE DEF A
  <2>2. /\ MoveItem(s, from, to) \in Seq(A) /\ Len(MoveItem(s, from, to)) = Len(s)
        /\ \A i \in 1..Len(s) : MoveItem(s, from, to)[i] =
             IF i < to THEN IF i < from THEN s[i] ELSE s[i + 1]
             ELSE IF i = to THEN s[from]
             ELSE IF i - 1 < from THEN s[i - 1] ELSE s[i]
    BY ONLY <2>1, MoveItemIs
  <2> QED
    BY <2>2 DEF A
<1> HIDE DEF e, S
<1>6. /\ f \in Seq(S) /\ Len(f) = N
      /\ \A i \in 1..N : f[i] = IF i < to THEN IF i < from THEN e[i] ELSE e[i + 1]
                                ELSE IF i = to THEN e[from]
                                ELSE IF i - 1 < from THEN e[i - 1] ELSE e[i]
  <2>1. e \in Seq(S) /\ from \in 1..Len(e) /\ to \in 1..Len(e)
    BY <1>1, <1>4
  <2> HIDE DEF N
  <2>2. /\ MoveItem(e, from, to) \in Seq(S) /\ Len(MoveItem(e, from, to)) = Len(e)
        /\ \A i \in 1..Len(e) : MoveItem(e, from, to)[i] =
             IF i < to THEN IF i < from THEN e[i] ELSE e[i + 1]
             ELSE IF i = to THEN e[from]
             ELSE IF i - 1 < from THEN e[i - 1] ELSE e[i]
    BY ONLY <2>1, MoveItemIs
  <2> QED
    BY <1>1, <2>2
<1> HIDE DEF N, r, f
<1>7. ASSUME NEW i \in 1..N PROVE f[i] = Content(router, r[i]) /\ Content(router, r[i]) # {}
  <2>1. /\ i < to /\ ~(i < from) => i + 1 \in 1..N
        /\ ~(i < to) /\ i # to /\ i - 1 < from => i - 1 \in 1..N
    BY <1>1, <1>4
  <2>2. \E j \in 1..N : r[i] = s[j] /\ f[i] = e[j]
    BY <1>4, <1>5, <1>6, <2>1
  <2> QED
    BY <1>1, <2>2
<1>8. new \in Seq(Nat) /\ Len(new) = N /\ \A i, j \in 1..N : i < j => new[i] < new[j]
  <2>1. new \in Seq(Number) /\ Len(new) = N /\ Ascending(new)
    BY <1>2, <1>5 DEF Renumbers
  <2>2. Number \subseteq Nat
    BY DEF Number
  <2>3. new \in Seq(Nat)
    BY <2>1, <2>2, SeqMonotonic
  <2>4. DOMAIN new = 1..N
    BY <2>1
  <2> QED
    BY <2>1, <2>3, <2>4 DEF Ascending
<1>9. \A i \in 1..N : f[i] = Content(c, new[i])
  BY <1>3, <1>5, <1>7
<1>10. \A n : Content(c, n) # {} <=> \E i \in 1..N : new[i] = n
  BY <1>3, <1>5, <1>7
<1>11. InOrderOf(c, new, f)
  BY <1>1, <1>6, <1>8, <1>9, <1>10, FitsRuleset
<1> QED
  BY <1>11 DEF f, e

(* The position of the rule with a number. *)
LEMMA PositionOf ==
  ASSUME NEW s \in Seq(Nat), Ascending(s), NEW p \in DOMAIN s,
         NEW k, k = Cardinality({i \in DOMAIN s : s[i] =< s[p]})
  PROVE  k = p
<1> DEFINE N == Len(s)
<1>1. N \in Nat /\ DOMAIN s = 1..N /\ \A i \in 1..N : s[i] \in Nat
  OBVIOUS
<1> DEFINE r == s[p]
<1>2. r \in Nat /\ p \in 1..N
  BY <1>1
<1> HIDE DEF r
<1>3. k = Cardinality({i \in DOMAIN s : s[i] =< r})
  BY DEF r
<1>4. k \in 0..N /\ \A i \in 1..N : s[i] =< r <=> i =< k
  BY <1>2, <1>3, PositionIs
<1>5. p =< k
  BY <1>1, <1>2, <1>4 DEF r
<1>6. k \in 1..N /\ s[k] =< s[p]
  BY <1>1, <1>2, <1>4, <1>5 DEF r
<1>7. p < k => s[p] < s[k]
  BY <1>1, <1>2, <1>6 DEF Ascending
<1>8. s[p] \in Nat /\ s[k] \in Nat
  BY <1>1, <1>2, <1>6
<1> QED
  BY <1>2, <1>5, <1>6, <1>7, <1>8

-----------------------------------------------------------------------------
(* What is asked fits the ruleset, and a queue with one move holds the     *)
(* operations of that move.                                                *)

Fitting(c, g) ==
  \/ g.kind = "move" /\ {g.from, g.to} \subseteq DOMAIN Numbering(Numbers(c))
  \/ g.kind = "delete" /\ g.number \in Numbers(c)
  \/ g.kind = "save" /\ g.values["action"] # Absent /\ (g.rule # NoNumber => g.number = g.rule /\ g.rule \in Numbers(c))

OneMove(q, a) == Len(a) = 1 /\ a[1].kind = "move" => q = AddAll(<<>>, ReorderRuleOps(a[1].from, a[1].to))

AskedInv ==
  /\ form.rule # NoNumber => form.rule \in Numbers(router)
  /\ \A i \in DOMAIN asked : Fitting(router, asked[i])
  /\ asked = <<>> => queue = <<>>
  /\ OneMove(queue, asked)

LEMMA SameMoves ==
  ASSUME router' = router, NEW from, NEW to
  PROVE  ReorderRuleOps(from, to)' = ReorderRuleOps(from, to)
<1> DEFINE renumbering(s) ==
             LET reordered == MoveItem(s, from, to)
                 ideal == IdealNumberBetween(NumberAt(reordered, to - 1), NumberAt(reordered, to + 1))
                 kept(i) == reordered[i] = 10 * i
             IN IF ideal # NoNumber
                THEN <<[old |-> reordered[to], new |-> ideal]>>
                ELSE FlattenSeq([i \in DOMAIN reordered |->
                                   IF kept(i) THEN <<>> ELSE <<[old |-> reordered[i], new |-> 10 * i]>>])
           ops(c, changes) ==
             [i \in DOMAIN changes |-> DeleteNode(<<changes[i].old>>)]
             \o FlattenSeq([i \in DOMAIN changes |-> SubtreeToSetOps(c, <<changes[i].old>>, <<changes[i].new>>)])
<1>1. Shown = Numbering(Numbers(router)) /\ Shown' = Numbering(Numbers(router'))
  BY Zenon DEF Shown, Numbering, Numbers, Rank
<1>2. Renumbering(from, to) = renumbering(Shown) /\ Renumbering(from, to)' = renumbering(Shown')
  BY Zenon DEF Renumbering
<1>3. ReorderRuleOps(from, to) = ops(router, Renumbering(from, to)) /\ ReorderRuleOps(from, to)' = ops(router', Renumbering(from, to)')
  BY Zenon DEF ReorderRuleOps
<1> HIDE DEF renumbering, ops
<1>4. Shown' = Shown
  BY <1>1
<1>5. Renumbering(from, to)' = Renumbering(from, to)
  BY <1>2, <1>4
<1> QED
  BY <1>3, <1>5

LEMMA QueueAsks ==
  ASSUME TypeOK, AskedInv, NEW ops, NEW g, Queue(ops, g), Fitting(router, g),
         g.kind = "move" => ops = ReorderRuleOps(g.from, g.to),
         form'.rule # NoNumber => form'.rule \in Numbers(router)
  PROVE  AskedInv'
<1> DEFINE a == asked
           b == Append(a, g)
           n == Len(a)
<1>1. a \in Seq(Range(a)) /\ n \in Nat /\ DOMAIN a = 1..n
  BY DEF TypeOK
<1>2. DOMAIN b = 1..(n + 1) /\ (\A i \in 1..n : b[i] = a[i]) /\ b[n + 1] = g /\ Len(b) = n + 1
  <2>1. a \in Seq(Range(a) \cup {g}) /\ g \in Range(a) \cup {g}
    BY <1>1, SeqMonotonic
  <2> HIDE DEF a
  <2> QED
    BY <2>1
<1>3. asked' = b /\ router' = router /\ queue' = AddAll(queue, ops)
  BY DEF Queue
<1>4. /\ \A i \in DOMAIN a : Fitting(router, a[i])
      /\ n = 0 => queue = <<>>
  BY DEF AskedInv, TypeOK
<1>10. Len(b) = 1 => n = 0 /\ b[1] = g
  BY <1>1, <1>2
<1> HIDE DEF a, b, n
<1>5. \A i \in DOMAIN b : Fitting(router, b[i])
  <2>1. \A i \in DOMAIN b : i \in DOMAIN a \/ i = n + 1
    BY <1>1, <1>2
  <2> QED
    BY <1>1, <1>2, <1>4, <2>1
<1>6. b # <<>>
  BY <1>1, <1>2
<1>7. ASSUME n = 0, g.kind = "move" PROVE queue' = AddAll(<<>>, ReorderRuleOps(g.from, g.to)')
  <2>1. ReorderRuleOps(g.from, g.to)' = ReorderRuleOps(g.from, g.to)
    BY <1>3, SameMoves
  <2>2. ops = ReorderRuleOps(g.from, g.to) /\ queue = <<>>
    BY <1>4, <1>7
  <2>3. queue' = AddAll(<<>>, ReorderRuleOps(g.from, g.to))
    BY <1>3, <2>2
  <2> QED
    BY <2>1, <2>3
<1>8. OneMove(queue, asked)'
  <2> SUFFICES ASSUME Len(asked') = 1, asked'[1].kind = "move"
               PROVE  queue' = AddAll(<<>>, ReorderRuleOps(asked[1].from, asked[1].to)')
    BY DEF OneMove
  <2>1. n = 0 /\ asked'[1] = g
    BY <1>3, <1>10
  <2>2. queue' = AddAll(<<>>, ReorderRuleOps(g.from, g.to)')
    BY <1>7, <2>1
  <2> QED
    BY <2>1, <2>2, Zenon
<1>9. \A i \in DOMAIN asked' : Fitting(router', asked'[i])
  BY <1>3, <1>5
<1> QED
  BY <1>3, <1>6, <1>8, <1>9 DEF AskedInv

LEMMA InitAskedInv ==
  ASSUME Init
  PROVE  AskedInv
<1>1. queue = <<>> /\ asked = <<>> /\ form.rule = NoNumber
  BY DEF Init, NoForm
<1>2. DOMAIN asked = {} /\ Len(asked) # 1
  BY <1>1
<1> QED
  BY <1>1, <1>2 DEF AskedInv, OneMove

LEMMA SubmitAsks ==
  ASSUME TypeOK, AskedInv, NEW values, NEW number, Submit(values, number)
  PROVE  AskedInv'
<1> DEFINE before == IF form.rule = NoNumber THEN BlankRuleFormValues ELSE RuleToFormValues(router, number)
           ops == RuleFormToOps(number, before, values)
           g == [kind |-> "save", rule |-> form.rule, number |-> number, opened |-> form.values, values |-> values, ops |-> ops]
<1>1. Queue(ops, g) /\ form' = NoForm /\ values["action"] # Absent /\ (form.rule # NoNumber => number = form.rule)
  BY DEF Submit
<1>2. g.kind = "save" /\ g.rule = form.rule /\ g.number = number /\ g.values = values
  OBVIOUS
<1>3. form'.rule = NoNumber
  BY <1>1 DEF NoForm
<1> HIDE DEF g, ops
<1>4. Fitting(router, g)
  BY <1>1, <1>2 DEF Fitting, AskedInv
<1> QED
  BY <1>1, <1>2, <1>3, <1>4, QueueAsks

LEMMA DeleteAsks ==
  ASSUME TypeOK, AskedInv, NEW n \in Numbers(router), QueueDeleteRule(n)
  PROVE  AskedInv'
<1> DEFINE ops == <<DeleteNode(<<n>>)>>
           g == [kind |-> "delete", number |-> n]
<1>1. Queue(ops, g) /\ form' \in {form, NoForm}
  BY DEF QueueDeleteRule
<1>2. g.kind = "delete" /\ g.number = n
  OBVIOUS
<1> HIDE DEF g, ops
<1>3. form'.rule # NoNumber => form'.rule \in Numbers(router)
  BY <1>1 DEF NoForm, AskedInv
<1>4. Fitting(router, g)
  BY <1>2 DEF Fitting
<1> QED
  BY <1>1, <1>2, <1>3, <1>4, QueueAsks

LEMMA MoveAsks ==
  ASSUME TypeOK, AskedInv, NEW from \in DOMAIN Shown, NEW to \in DOMAIN Shown, ReorderRule(from, to)
  PROVE  AskedInv'
<1> DEFINE ops == ReorderRuleOps(from, to)
           g == [kind |-> "move", from |-> from, to |-> to]
<1>1. Queue(ops, g) /\ form' = form
  BY DEF ReorderRule
<1>2. g.kind = "move" /\ g.from = from /\ g.to = to
  OBVIOUS
<1> HIDE DEF g
<1>3. form'.rule # NoNumber => form'.rule \in Numbers(router)
  BY <1>1 DEF AskedInv
<1>4. Fitting(router, g)
  BY <1>2, ShownIsNumbering DEF Fitting
<1>5. ops = ReorderRuleOps(g.from, g.to)
  BY <1>2
<1> HIDE DEF ops
<1> QED
  BY <1>1, <1>3, <1>4, <1>5, QueueAsks

LEMMA NextAskedInv ==
  ASSUME TypeInv, AskedInv, [Next]_vars
  PROVE  AskedInv'
<1>1. TypeOK /\ IsRuleset(router) /\ TypeOK'
  BY NextType DEF TypeInv, TypeOK
<1>2. ASSUME UNCHANGED <<router, queue, asked>>, form'.rule # NoNumber => form'.rule \in Numbers(router) PROVE AskedInv'
  <2>1. \A from, to : ReorderRuleOps(from, to)' = ReorderRuleOps(from, to)
    BY <1>2, SameMoves
  <2>2. OneMove(queue, asked)'
    <3> SUFFICES ASSUME Len(asked') = 1, asked'[1].kind = "move"
                 PROVE  queue' = AddAll(<<>>, ReorderRuleOps(asked[1].from, asked[1].to)')
      BY DEF OneMove
    <3>1. asked' = asked /\ queue' = AddAll(<<>>, ReorderRuleOps(asked[1].from, asked[1].to))
      BY <1>2 DEF AskedInv, OneMove
    <3> QED
      BY <2>1, <3>1, Zenon
  <2> QED
    BY <1>2, <2>2 DEF AskedInv
<1>3. /\ \A i \in DOMAIN Shown : Shown[i] \in Numbers(router)
      /\ NoForm.rule = NoNumber
  <2>1. Shown \in Seq(Number) /\ Range(Shown) = Numbers(router)
    BY <1>1, ShownAscends
  <2> QED
    BY <2>1 DEF Range, NoForm
<1>4. CASE OpenAdd \/ Cancel
  <2> DEFINE f == [NoForm EXCEPT !.open = TRUE, !.number = SuggestNextNumber]
  <2>1. f.rule = NoNumber
    BY DEF NoForm
  <2> HIDE DEF f
  <2>2. UNCHANGED <<router, queue, asked>> /\ form' \in {f, NoForm}
    BY <1>4 DEF OpenAdd, Cancel, Show, f
  <2> QED
    BY <1>2, <1>3, <2>1, <2>2
<1>5. CASE \E i \in DOMAIN Shown : OpenEdit(Shown[i])
  <2>1. PICK i \in DOMAIN Shown : OpenEdit(Shown[i])
    BY <1>5
  <2>2. UNCHANGED <<router, queue, asked>> /\ form'.rule = Shown[i]
    BY <2>1 DEF OpenEdit, Show
  <2> QED
    BY <1>2, <1>3, <2>2
<1>6. CASE \E i \in DOMAIN Shown : QueueDeleteRule(Shown[i])
  BY <1>1, <1>3, <1>6, DeleteAsks
<1>7. CASE \E from, to \in DOMAIN Shown : ReorderRule(from, to)
  BY <1>1, <1>7, MoveAsks
<1>8. CASE \E values \in TypedValues, n \in Typed \cup {form.number} : Submit(values, n)
  BY <1>1, <1>8, SubmitAsks, Zenon
<1>9. CASE Commit
  <2>1. /\ queue' = <<>> /\ asked' = <<>>
        /\ form' = IF form.rule = NoNumber \/ Exists(router', <<form.rule>>) THEN form ELSE NoForm
    BY <1>9 DEF Commit
  <2>2. DOMAIN asked' = {} /\ Len(asked') # 1
    BY <2>1
  <2>3. form'.rule # NoNumber => form'.rule \in Numbers(router')
    <3>1. CASE form.rule # NoNumber /\ Exists(router', <<form.rule>>)
      <4>1. IsRuleset(router')
        BY <1>1 DEF TypeOK
      <4>2. Below(router', <<form.rule>>) = {x \in router' : x.path[1] = form.rule}
        BY <4>1, BelowRule
      <4> QED
        BY <2>1, <3>1, <4>2 DEF Exists, Numbers
    <3>2. CASE ~(form.rule # NoNumber /\ Exists(router', <<form.rule>>))
      BY <1>3, <2>1, <3>2
    <3> QED
      BY <3>1, <3>2
  <2>4. OneMove(queue, asked)'
    BY <2>2 DEF OneMove
  <2> QED
    BY <2>1, <2>2, <2>3, <2>4 DEF AskedInv
<1>10. CASE UNCHANGED vars
  BY <1>2, <1>10 DEF vars, AskedInv
<1> QED
  BY <1>4, <1>5, <1>6, <1>7, <1>8, <1>9, <1>10, Zenon DEF Next

-----------------------------------------------------------------------------
(* The commit of one gesture *)

LEMMA KnownIsSomething ==
  ASSUME NEW values, values["action"] # Absent
  PROVE  Known(values) # {}
<1>1. "action" \in {m \in FormLeaves : values[m] # Absent}
  BY DEF FormLeaves
<1> QED
  BY <1>1 DEF Known

(* What a commit of one gesture that is not a move does to every rule. *)
LEMMA OneGestureAdds ==
  ASSUME TypeOK, QueueInv, Len(asked) = 1, NEW g, g = asked[1], g.kind # "move", NEW c, c = AfterOps(router, queue, {})
  PROVE  /\ IsGesture(router, g)
         /\ \A n : Content(c, n) =
              IF n = g.number THEN IF g.kind = "delete" THEN {} ELSE Known(g.values) \cup Unknown(n)
              ELSE Content(router, n)
<1>1. DOMAIN asked = {1} /\ Range(asked) = {g}
  BY DEF TypeOK, Range
<1>2. Separate(asked)
  BY <1>1 DEF Separate
<1>3. IsGesture(router, g)
  BY <1>1 DEF QueueInv
<1>4. ASSUME NEW n
      PROVE  Content(c, n) = IF n = g.number THEN IF g.kind = "delete" THEN {} ELSE Known(g.values) \cup Unknown(n)
                             ELSE Content(router, n)
  <2> DEFINE h == CHOOSE f \in Range(asked) : f.number = n
  <2>1. Content(c, n) = IF \E i \in DOMAIN asked : asked[i].number = n
                        THEN IF h.kind = "delete" THEN {} ELSE Known(h.values) \cup Unknown(n)
                        ELSE Content(router, n)
    BY <1>2, CommitAdds
  <2>2. (\E i \in DOMAIN asked : asked[i].number = n) <=> n = g.number
    BY <1>1
  <2>3. n = g.number => h = g
    BY <1>1
  <2> HIDE DEF h
  <2> QED
    BY <2>1, <2>2, <2>3
<1> QED
  BY <1>3, <1>4

LEMMA OneGestureDoes ==
  ASSUME TypeOK, QueueInv, AskedInv, Filled(router), Len(asked) = 1, NEW c, c = AfterOps(router, queue, {})
  PROVE  \E t : InOrderOf(c, t, Intended(asked[1]))
<1> DEFINE g == asked[1]
           s == Shown
           e == Evaluated
           position(m) == Cardinality({i \in DOMAIN s : s[i] =< m})
<1>1. Fitting(router, g) /\ OneMove(queue, asked)
  <2>1. 1 \in DOMAIN asked
    BY DEF TypeOK
  <2> QED
    BY <2>1 DEF AskedInv
<1>2. IsRuleset(router) /\ IsRuleset(c)
  BY AfterQueue DEF TypeOK
<1>3. InOrderOf(router, s, e) /\ s \in Seq(Nat) /\ Ascending(s) /\ Range(s) = Numbers(router) /\ DOMAIN s = 1..Len(s)
  BY <1>2, ShownAscends, ShownInOrder
<1>4. CASE g.kind = "move"
  <2>1. g.from \in DOMAIN Shown /\ g.to \in DOMAIN Shown
    BY <1>1, <1>4, ShownIsNumbering DEF Fitting
  <2>2. queue = AddAll(<<>>, ReorderRuleOps(g.from, g.to))
    BY <1>1, <1>4 DEF OneMove
  <2>3. \E t : InOrderOf(c, t, MoveItem(Evaluated, g.from, g.to))
    BY <1>2, <2>1, <2>2, MoveIsAsked
  <2>4. Intended(g) = MoveItem(Evaluated, g.from, g.to)
    BY <1>4 DEF Intended
  <2> QED
    BY <2>3, <2>4
<1>5. CASE g.kind # "move"
  <2> DEFINE n == g.number
             K == Known(g.values) \cup Unknown(n)
  <2>1. /\ IsGesture(router, g)
        /\ \A m : Content(c, m) = IF m = n THEN IF g.kind = "delete" THEN {} ELSE Known(g.values) \cup Unknown(m)
                                  ELSE Content(router, m)
    BY <1>5, OneGestureAdds
  <2>2. n \in Number /\ n \in Nat
    BY <2>1 DEF IsGesture, Number
  <2>3. \A m : g.kind # "delete" => Content(c, m) = IF m = n THEN K ELSE Content(router, m)
    BY <2>1
  <2>4. g.kind # "delete" => g.kind = "save" /\ K # {}
    BY <1>1, <1>5, KnownIsSomething DEF Fitting
  <2>5. ASSUME n \in Numbers(router) PROVE \E p \in 1..Len(s) : n = s[p] /\ position(n) = p
    <3>1. PICK p \in DOMAIN s : s[p] = n
      BY <1>3, <2>5 DEF Range
    <3> HIDE DEF s, n
    <3>2. position(s[p]) = p
      BY <1>3, PositionOf
    <3> QED
      BY <1>3, <3>1, <3>2
  <2>6. CASE g.kind = "delete"
    <3>1. n \in Numbers(router)
      BY <1>1, <2>6 DEF Fitting
    <3>2. PICK p \in 1..Len(s) : n = s[p] /\ position(n) = p
      BY <2>5, <3>1
    <3>3. \A m : Content(c, m) = IF m = n THEN {} ELSE Content(router, m)
      BY <2>1, <2>6
    <3>4. Intended(g) = RemoveAt(e, p)
      BY <2>6, <3>2 DEF Intended
    <3> DEFINE R == router
    <3>5. /\ InOrderOf(R, s, e) /\ p \in 1..Len(s) /\ n = s[p]
          /\ OnlyChanges(R, c, n, {})
      BY <1>3, <3>2, <3>3 DEF OnlyChanges
    <3> HIDE DEF s, e, n, R
    <3>6. \E t : InOrderOf(c, t, RemoveAt(e, p))
      BY ONLY <3>5, WithoutRule
    <3> QED
      BY <3>4, <3>6
  <2>7. CASE g.kind # "delete" /\ g.rule # NoNumber
    <3>1. n \in Numbers(router) /\ n = g.rule
      BY <1>1, <1>5, <2>7 DEF Fitting
    <3>2. PICK p \in 1..Len(s) : n = s[p] /\ position(n) = p
      BY <2>5, <3>1
    <3>3. Intended(g) = ReplaceAt(e, p, K)
      BY <2>4, <2>7, <3>1, <3>2 DEF Intended
    <3> DEFINE R == router
    <3>4. /\ InOrderOf(R, s, e) /\ p \in 1..Len(s) /\ n = s[p] /\ K # {}
          /\ OnlyChanges(R, c, n, K)
      BY <1>3, <2>3, <2>4, <2>7, <3>2 DEF OnlyChanges
    <3> HIDE DEF s, e, n, K, R
    <3>5. InOrderOf(c, s, ReplaceAt(e, p, K))
      BY ONLY <3>4, ChangedRule
    <3> QED
      BY <3>3, <3>5
  <2>8. CASE g.kind # "delete" /\ g.rule = NoNumber
    <3>1. n \notin Numbers(router)
      BY <2>1, <2>4, <2>8 DEF IsGesture, Numbers
    <3>2. Content(router, n) = {}
      BY <1>2, <3>1, NoContent
    <3>3. K = Known(g.values)
      BY <3>2 DEF Unknown
    <3>4. Intended(g) = InsertAt(e, position(n) + 1, K)
      BY <2>4, <2>8, <3>3 DEF Intended
    <3> DEFINE R == router
               A == Nat
               k == position(n)
    <3>5. /\ InOrderOf(R, s, e) /\ n \in A /\ Content(R, n) = {} /\ K # {}
          /\ k = Cardinality({i \in DOMAIN s : s[i] =< n})
          /\ OnlyChanges(R, c, n, K)
      BY <1>3, <2>2, <2>3, <2>4, <2>8, <3>2 DEF OnlyChanges
    <3>6. Intended(g) = InsertAt(e, k + 1, K)
      BY <3>4
    <3>7. n \in Nat
      BY <2>2
    <3> HIDE DEF s, e, n, K, R, A, k
    <3>8. \E t : InOrderOf(c, t, InsertAt(e, k + 1, K))
      BY ONLY <3>5, <3>7, AddedRule
    <3> QED
      BY <3>6, <3>8
  <2> QED
    BY <2>6, <2>7, <2>8
<1> QED
  BY <1>4, <1>5

(***************************************************************************)
(* What one gesture asks for is what its commit does, wherever it is made: *)
(* a move, with one rule renumbered or all of them, puts the rule at its   *)
(* new place and loses, doubles and mixes none; a delete takes out one     *)
(* rule; a save changes or adds one.                                       *)
(*                                                                         *)
(* The hypothesis is the router's: VyOS refuses a rule without an action.  *)
(* Without it the property is false: of a rule that has no leaf, a move    *)
(* queues nothing but "set <<new number>>", and where another rule has     *)
(* that number the queue takes it for the withdrawal of the delete that is *)
(* already there.                                                          *)
(***************************************************************************)
THEOREM OneGestureIsWhatWasAsked == Spec /\ []Filled(router) => CommitDoesWhatWasAsked
<1> DEFINE Does == Commit /\ Len(asked) = 1 => Evaluated' = Intended(asked[1])
<1>1. ASSUME TypeInv, TypeInv', QueueInv, AskedInv, Filled(router), Filled(router)', Commit, Len(asked) = 1
      PROVE  Evaluated' = Intended(asked[1])
  <2> DEFINE e == Intended(asked[1])
  <2>1. TypeOK /\ TypeOK' /\ router' = AfterOps(router, queue, {})
    BY <1>1 DEF TypeInv, Commit
  <2>2. PICK t : InOrderOf(router', t, e)
    BY <1>1, <2>1, OneGestureDoes
  <2>3. IsRuleset(router') /\ Filled(router')
    BY <1>1, <2>1 DEF TypeOK
  <2> HIDE DEF e
  <2>4. Sequence(router') = e
    BY <2>2, <2>3, SequenceIs
  <2> QED
    BY <2>4, EvaluatedNext DEF e
<1>2. TypeInv /\ TypeInv' /\ QueueInv /\ AskedInv /\ Filled(router) /\ Filled(router)' => [Does]_vars
  BY <1>1
<1>3. Init => AskedInv
  BY InitAskedInv
<1>4. TypeInv /\ AskedInv /\ [Next]_vars => AskedInv'
  BY NextAskedInv
<1>5. Spec => []TypeInv /\ []QueueInv
  BY RulesetInvariant, QueueInvariant
<1> QED
  BY <1>2, <1>3, <1>4, <1>5, PTL DEF Spec, CommitDoesWhatWasAsked
=============================================================================
