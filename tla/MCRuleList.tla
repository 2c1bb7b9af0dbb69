------------------------------- MODULE MCRuleList -------------------------------
(* Small instances of RuleList: rulesets of three rules with gaps between  *)
(* their numbers, without, and with the first number taken.                *)
EXTENDS RuleList

MCRule(n, name, more) == [number |-> n, leaves |-> more @@ [action |-> "accept", description |-> name]]
Logged == [log |-> NoValue]
Stateful == [state |-> "established"]
MCStart ==
  {<<MCRule(10, "a", Logged), MCRule(11, "b", Stateful), MCRule(20, "c", <<>>)>>,
   <<MCRule(1, "a", Stateful), MCRule(20, "b", Logged)>>,
   <<>>}
MCGaps == {<<MCRule(10, "a", <<>>), MCRule(20, "b", <<>>), MCRule(30, "c", <<>>), MCRule(40, "d", <<>>)>>}
=============================================================================
