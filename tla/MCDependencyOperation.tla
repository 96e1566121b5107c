------------------------ MODULE MCDependencyOperation ------------------------
(* Rules over one and two relays that are created and deleted by operations  *)
(* which overtake each other, and the plans over some rules of three agents. *)
EXTENDS DependencyOperation, DependencyEvaluation

MCOrder == <<"a", "b", "c">>

Direct == [owner |-> "a", layers |-> <<{"b"}>>, egress |-> FALSE]
Through == [owner |-> "a", layers |-> <<{"b"}, {"c"}>>, egress |-> TRUE]

\* With these a plan has two relays behind each other, two in one layer, an
\* egress profile, or a cycle.
MCRules ==
  {Through, [owner |-> "a", layers |-> <<{"b", "c"}>>, egress |-> FALSE],
   [owner |-> "c", layers |-> <<{"b"}, {}, {"c"}>>, egress |-> FALSE],
   [owner |-> "c", layers |-> <<{"c"}, {"a"}>>, egress |-> FALSE],
   [owner |-> "b", layers |-> <<{"c"}>>, egress |-> TRUE]}

Op(targets, action, rules) ==
  [targets |-> targets, action |-> action, rules |-> rules]

\* A rule through two relays is created.
Chain ==
  [operations |-> <<Op({"a", "b", "c"}, "apply", {Through})>>,
   fails |-> 1, calls |-> {"retry"}]

\* A rule over one relay is created and deleted.
Twice ==
  [operations |-> <<Op({"a", "b"}, "apply", {Direct}),
                    Op({"a", "b"}, "delete", {})>>,
   fails |-> 1, calls |-> {"retry"}]

\* The relay is used, changed by another operation, and not used any more.
Overtaken ==
  <<Op({"a", "b"}, "apply", {Direct}), Op({"b"}, "none", {Direct}),
    Op({"a", "b"}, "delete", {})>>

Pruned == [operations |-> Overtaken, fails |-> 0, calls |-> {"prune"}]
Retired == [operations |-> Overtaken, fails |-> 0,
            calls |-> {"retire", "dismiss"}]

\* A plugin's operation overtakes the one that creates the rule at its owner, or
\* the one that deletes it at its relay.
Carried ==
  [operations |-> <<Op({"a", "b"}, "apply", {Direct}), Op({"a"}, "none", {Direct}),
                    Op({"a", "b"}, "delete", {}), Op({"b"}, "none", {})>>,
   fails |-> 0, calls |-> {}]

MCSettings == {Chain, Twice, Pruned, Retired, Carried}

\* Plan.Evaluate and findCycle compute what they are for, over every plan that
\* can be built from the rules: the plans refused are the cyclic ones, a node is
\* blocked exactly if a path of waiting nodes leads to a failed or superseded
\* one, and an open operation has work that can be done.  (This depends on no
\* variable and is looked at once, at the start.)
EvaluationIsExact == issued = 0 => FindsCycles /\ BlocksReachable /\ ShowsWork
=============================================================================
