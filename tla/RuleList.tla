-------------------------------- MODULE RuleList --------------------------------
(***************************************************************************)
(* The page of one firewall ruleset (RulesetDetailPage, RuleForm and       *)
(* lib/firewallRuleForm.ts): rules are created, edited, deleted and moved, *)
(* and every gesture becomes operations on rule numbers in the queue.      *)
(*                                                                         *)
(* VyOS evaluates rules by ascending number and has no "move": a move is a *)
(* delete and a re-creation under another number.  The page computes both  *)
(* from the rules it last fetched, not from what is already queued.        *)
(*                                                                         *)
(* The path of a rule is <<number>>, that of a setting <<number, leaf>>.   *)
(***************************************************************************)
EXTENDS ConfigTree

CONSTANTS
  Start,          \* the sequences of rules the ruleset may begin with
  Actions,        \* values of the leaf "action", which every rule has
  Names,          \* values of the leaf "description": they tell rules apart
  Typed,          \* bound: numbers the user may type instead of the suggested one
  MaxGestures,    \* bound: gestures before the first commit, one less before each that follows
  MaxCommits,     \* bound: commits
  Habits          \* what else the user does: subset of AllHabits

AllHabits == {"leaves_form_open", "queues_more"}

ASSUME RuleListAssumption ==
  /\ Habits \subseteq AllHabits
  /\ MaxGestures \in Nat \ {0}
  /\ MaxCommits \in Nat \ {0}
  /\ Typed \subseteq Nat \ {0}

VARIABLES
  router,     \* the nodes of the ruleset on the router
  queue,      \* the pending changes
  form,       \* the open RuleForm, or NoForm
  commits,    \* commits so far
  asked       \* history: the gestures since the last commit

vars == <<router, queue, form, commits, asked>>

NoNumber == 0

(* The fields RuleForm knows: the description, the action, a flag.  The    *)
(* leaf "state" stands for all settings that only the config tree shows.   *)
FormLeaves == {"action", "description", "log"}
Absent == NoValue
Present == "present"
ASSUME PresentAssumption == Present # Absent

-----------------------------------------------------------------------------
(* Reading the ruleset.                                                    *)

(* The rules in the order of their numbers, as parsed for the page.        *)
Shown ==
  LET numbers == {n.path[1] : n \in router}
  IN [i \in 1..Cardinality(numbers) |-> CHOOSE n \in numbers : Cardinality({m \in numbers : m < n}) = i - 1]

(* A leaf of a rule as the form shows it.                                  *)
Field(config, number, leaf) ==
  LET nodes == {n \in config : n.path = <<number, leaf>>}
  IN CASE nodes = {} -> Absent
       [] nodes # {} /\ leaf = "log" -> Present
       [] OTHER -> (CHOOSE n \in nodes : TRUE).val

RuleToFormValues(config, number) == [leaf \in FormLeaves |-> Field(config, number, leaf)]
BlankRuleFormValues == [leaf \in FormLeaves |-> Absent]

(* What one rule does: all its leaves, the unknown ones included.          *)
Content(config, number) == {<<n.path[2], n.val>> : n \in {m \in config : m.path[1] = number /\ Len(m.path) = 2}}

-----------------------------------------------------------------------------
(* The operations behind the gestures.                                     *)

(* A mistake one could make in FieldOp, for a mutant.                      *)
FieldOpClearsRule(number, leaf, value) ==
  CASE value = Absent -> DeleteNode(<<number>>)
    [] value # Absent /\ leaf = "log" -> SetNode(<<number, leaf>>)
    [] OTHER -> SetOp(<<number, leaf>>, value)

(* One operation per field that differs from the rule as last fetched.     *)
FieldOp(number, leaf, value) ==
  LET path == <<number, leaf>> IN
  CASE value = Absent -> DeleteNode(path)
    [] value # Absent /\ leaf = "log" -> SetNode(path)
    [] OTHER -> SetOp(path, value)

ChangedField(number, leaf, before, values) ==
  IF before[leaf] = values[leaf] THEN <<>> ELSE <<FieldOp(number, leaf, values[leaf])>>

RuleFormToOps(number, before, values) ==
  ChangedField(number, "action", before, values)
  \o ChangedField(number, "description", before, values)
  \o ChangedField(number, "log", before, values)

(* A free number between two neighbours; NoNumber where there is none.     *)
IdealNumberBetween(prev, next) ==
  CASE prev = NoNumber /\ next =< 1 -> NoNumber
    [] prev = NoNumber /\ next > 1 -> next \div 2
    [] prev # NoNumber /\ next = NoNumber -> prev + 10
    [] OTHER -> IF next - prev =< 1 THEN NoNumber ELSE prev + (next - prev) \div 2

MoveItem(seq, from, to) == InsertAt(RemoveAt(seq, from), to, seq[from])

NumberAt(seq, i) == IF i \in DOMAIN seq THEN seq[i] ELSE NoNumber

(* Which rules get which new number when the rule at `from` moves to `to`: *)
(* the moved one alone, or all of them when there is no free number.       *)
Renumbering(from, to) ==
  LET reordered == MoveItem(Shown, from, to)
      ideal == IdealNumberBetween(NumberAt(reordered, to - 1), NumberAt(reordered, to + 1))
      kept(i) == reordered[i] = 10 * i
  IN IF ideal # NoNumber
     THEN <<[old |-> reordered[to], new |-> ideal]>>
     ELSE FlattenSeq([i \in DOMAIN reordered |->
                        IF kept(i) THEN <<>> ELSE <<[old |-> reordered[i], new |-> 10 * i]>>])

ReorderRuleOpsOneByOne(from, to) ==
  FlattenSeq([i \in DOMAIN Renumbering(from, to) |->
                LET change == Renumbering(from, to)[i]
                IN <<DeleteNode(<<change.old>>)>> \o SubtreeToSetOps(router, <<change.old>>, <<change.new>>)])

(* Every delete comes before any set.                                      *)
ReorderRuleOps(from, to) ==
  LET changes == Renumbering(from, to)
  IN [i \in DOMAIN changes |-> DeleteNode(<<changes[i].old>>)]
     \o FlattenSeq([i \in DOMAIN changes |-> SubtreeToSetOps(router, <<changes[i].old>>, <<changes[i].new>>)])

(* The next multiple of ten above all numbers of the ruleset.              *)
SuggestNextNumber == IF Shown = <<>> THEN 10 ELSE 10 * (Last(Shown) \div 10 + 1)

-----------------------------------------------------------------------------
NoForm == [rule |-> NoNumber, open |-> FALSE, values |-> BlankRuleFormValues, number |-> NoNumber]

RulesOf(rules) ==
  UNION {{Node(<<rules[i].number, leaf>>, rules[i].leaves[leaf]) : leaf \in DOMAIN rules[i].leaves} : i \in DOMAIN rules}

Init ==
  /\ \E rules \in Start : router = RulesOf(rules)
  /\ queue = <<>>
  /\ form = NoForm
  /\ commits = 0
  /\ asked = <<>>

(* Bounds; where nobody queues a second gesture, the first is committed.   *)
MayQueue ==
  /\ Len(asked) < (IF "queues_more" \in Habits THEN MaxGestures - commits ELSE 1)
  /\ commits < MaxCommits

Queue(ops, gesture) ==
  /\ MayQueue
  /\ queue' = AddAll(queue, ops)
  /\ asked' = Append(asked, gesture)
  /\ UNCHANGED <<router, commits>>

Show(f) ==
  /\ form' = f
  /\ UNCHANGED <<router, queue, commits, asked>>

(* "+ Add rule" shows an empty form with a suggested number and closes the *)
(* form of another rule.  The number is computed once, when it opens.      *)
OpenAdd == MayQueue /\ Show([NoForm EXCEPT !.open = TRUE, !.number = SuggestNextNumber])

(* "Edit" opens the form of one rule with its values of that moment.       *)
OpenEdit(number) ==
  /\ MayQueue
  /\ Show([rule |-> number, open |-> TRUE, values |-> RuleToFormValues(router, number), number |-> number])

Cancel == form.open /\ Show(NoForm)

(* submit() of the open form, the user having typed `values` (and, for a   *)
(* new rule, perhaps another number) into the values it opened with.       *)
Submit(values, number) ==
  /\ form.open
  /\ values["action"] # Absent
  /\ IF form.rule = NoNumber
     THEN number \in Typed \cup {form.number} /\ number \notin Range(Shown)
     ELSE number = form.rule
  /\ LET before == IF form.rule = NoNumber THEN BlankRuleFormValues ELSE RuleToFormValues(router, number)
         ops == RuleFormToOps(number, before, values)
     IN Queue(ops, [kind |-> "save", rule |-> form.rule, number |-> number, opened |-> form.values, values |-> values, ops |-> ops])
  /\ form' = NoForm

(* Deleting a rule also closes its form.                                   *)
QueueDeleteRule(number) ==
  /\ Queue(<<DeleteNode(<<number>>)>>, [kind |-> "delete", number |-> number])
  /\ form' = IF form.rule = number THEN NoForm ELSE form

(* Drag and drop, or one of the buttons "Move up" and "Move down".         *)
ReorderRule(from, to) ==
  /\ from # to
  /\ Queue(ReorderRuleOps(from, to), [kind |-> "move", from |-> from, to |-> to])
  /\ UNCHANGED form

(* The bar commits the queue and the page fetches the rules again.  A form *)
(* stays open as long as a rule with its number exists.                    *)
Commit ==
  /\ queue # <<>>
  /\ form.open => "leaves_form_open" \in Habits
  /\ router' = AfterOps(router, queue, {})
  /\ queue' = <<>>
  /\ asked' = <<>>
  /\ commits' = commits + 1
  /\ form' = IF form.rule = NoNumber \/ Exists(router', <<form.rule>>) THEN form ELSE NoForm

(* Bound: the user changes at most two fields of a form.                   *)
TypedValues ==
  {values \in [action : Actions, description : Names \cup {Absent, form.values["description"]}, log : {Present, Absent}] :
     Cardinality({l \in FormLeaves : values[l] # form.values[l]}) =< 2}

Next ==
  \/ OpenAdd
  \/ \E i \in DOMAIN Shown : OpenEdit(Shown[i]) \/ QueueDeleteRule(Shown[i])
  \/ \E from, to \in DOMAIN Shown : ReorderRule(from, to)
  \/ \E values \in TypedValues, n \in Typed \cup {form.number} : Submit(values, n)
  \/ Cancel
  \/ Commit

Spec == Init /\ [][Next]_vars

-----------------------------------------------------------------------------
(* Types *)

Number == Nat \ {NoNumber}

(* A flag has no value, the other fields of the form have one.             *)
Fits(leaf, val) ==
  /\ leaf = "log" => val = NoValue
  /\ leaf \in {"action", "description"} => val # NoValue

IsRulePath(path) == path[1] \in Number /\ path = <<path[1]>>
IsLeafPath(path) == path[1] \in Number /\ path = <<path[1], path[2]>>

IsRuleNode(n) ==
  /\ n = Node(n.path, n.val)
  /\ \/ IsRulePath(n.path) /\ n.val = NoValue
     \/ IsLeafPath(n.path) /\ Fits(n.path[2], n.val)

IsRuleOp(op) ==
  \/ IsRulePath(op.path) /\ op \in {SetNode(op.path), DeleteNode(op.path)}
  \/ IsLeafPath(op.path) /\ op = DeleteNode(op.path)
  \/ IsLeafPath(op.path) /\ op = SetOp(op.path, op.val) /\ Fits(op.path[2], op.val)

(* What a ruleset may look like: rules with numbers, every setting once.   *)
IsRuleset(config) ==
  /\ IsFiniteSet(config)
  /\ \A n \in config : IsRuleNode(n)
  /\ \A m, n \in config : m.path = n.path => m = n

ASSUME StartAssumption == \A rules \in Start : IsRuleset(RulesOf(rules))

(* Numbers stay numbers and settings single, also when rules are moved on  *)
(* top of each other; a form that is open has a number.                    *)
TypeOK ==
  /\ IsRuleset(router)
  /\ queue \in Seq(Range(queue))
  /\ \A op \in Range(queue) : IsRuleOp(op)
  /\ asked \in Seq(Range(asked))
  /\ commits \in 0..MaxCommits
  /\ form.open => form.number \in Number /\ form.rule \in {NoNumber, form.number}

-----------------------------------------------------------------------------
(* What VyOS evaluates: the contents of the rules in the order of their    *)
(* numbers.                                                                *)
Evaluated == [i \in DOMAIN Shown |-> Content(router, Shown[i])]

(* What a form shows, and the settings it does not know.                   *)
Known(values) == {<<l, IF l = "log" THEN NoValue ELSE values[l]>> : l \in {m \in FormLeaves : values[m] # Absent}}
Unknown(number) == {s \in Content(router, number) : s[1] \notin FormLeaves}

(* The ruleset the user has in mind when exactly this gesture is           *)
(* committed: the moved rule at its new place, the edited rule with the    *)
(* changed fields and everything else as it was, the new rule where its    *)
(* number puts it.                                                         *)
Intended(gesture) ==
  LET position(number) == Cardinality({i \in DOMAIN Shown : Shown[i] =< number})
  IN CASE gesture.kind = "move" -> MoveItem(Evaluated, gesture.from, gesture.to)
       [] gesture.kind = "delete" -> RemoveAt(Evaluated, position(gesture.number))
       [] gesture.kind = "save" /\ gesture.rule = NoNumber -> InsertAt(Evaluated, position(gesture.number) + 1, Known(gesture.values))
       [] gesture.kind = "save" /\ gesture.rule # NoNumber ->
            ReplaceAt(Evaluated, position(gesture.rule), Known(gesture.values) \cup Unknown(gesture.rule))

(* A commit of one gesture changes the evaluated ruleset exactly as the    *)
(* gesture says: no rule is lost, doubled or swapped, no setting that the  *)
(* form does not know is dropped by a move, and no number collides.        *)
CommitDoesWhatWasAsked == [][Commit /\ Len(asked) = 1 => Evaluated' = Intended(asked[1])]_vars

(* Gestures on different rules do not disturb each other: after the commit *)
(* every rule that was saved has the fields its form showed and keeps the  *)
(* settings the form does not know, every deleted rule is gone, and every  *)
(* other rule is as it was, although the operations were computed one by   *)
(* one against the same fetched rules.                                     *)
SeparateGesturesAdd ==
  [][/\ Commit
     /\ \A i \in DOMAIN asked : asked[i].kind # "move"
     /\ \A i, j \in DOMAIN asked : asked[i].number = asked[j].number => i = j
     => \A n \in Range(Shown) \cup {asked[i].number : i \in DOMAIN asked} : Content(router', n) =
          IF \E i \in DOMAIN asked : asked[i].number = n
          THEN LET gesture == CHOOSE g \in Range(asked) : g.number = n
               IN IF gesture.kind = "delete" THEN {} ELSE Known(gesture.values) \cup Unknown(n)
          ELSE Content(router, n)]_vars

(* Moves only change the order: as long as nothing but moves was queued,   *)
(* the rules after the commit are those before it.                         *)
MovesKeepRules ==
  [][Commit /\ (\A i \in DOMAIN asked : asked[i].kind = "move") => Range(Evaluated') = Range(Evaluated)]_vars
=============================================================================
