--------------------------- MODULE DependencyPlan ---------------------------
(***************************************************************************)
(* The dependency plan of an operation that gives revisions to several     *)
(* agents (controlplane/dependency): which agents wait for which others.   *)
(*                                                                         *)
(* A rule of an agent sends its traffic through layers of relays, agents   *)
(* with a listener, and leaves through an egress profile of the last       *)
(* layer.  A listener stands for the agent that owns it.                   *)
(***************************************************************************)
EXTENDS Naturals, Sequences, FiniteSets, SequencesExt

CONSTANT Order    \* the agents in the order of their identities

Agents == ToSet(Order)

Actions == {"apply", "delete"}

\* One layer of addRuleEdges: every agent before it needs every agent of it.
LayerEdges(acc, layer) ==
  IF layer = {} THEN acc
  ELSE [previous |-> layer,
        edges |-> acc.edges \union {e \in acc.previous \X layer : e[1] # e[2]}]

\* addRuleEdges.
RuleEdges(rule) ==
  LET through == FoldLeft(LayerEdges,
                          [previous |-> {rule.owner}, edges |-> {}],
                          rule.layers)
  IN  through.edges \union
      (IF rule.egress
         THEN {e \in {rule.owner} \X through.previous : e[1] # e[2]}
         ELSE {})

\* BuildPlan: the edges of the rules of some agents.
PlanEdges(rules) == UNION {RuleEdges(rule) : rule \in rules}

\* Evaluate: a new rule needs its relays, a relay outlives the rules removed.
Prerequisites(action, edges, a) ==
  IF action = "delete"
    THEN {e[1] : e \in {d \in edges : d[2] = a}}
    ELSE {e[2] : e \in {d \in edges : d[1] = a}}

\* The frontier of an evaluation.  (A node with a blocked prerequisite is never
\* in it, because that prerequisite has not succeeded.)
Frontier(action, edges, nodes, states) ==
  {a \in nodes : /\ states[a] = "waiting"
                 /\ \A p \in Prerequisites(action, edges, a) :
                      states[p] = "succeeded"}
=============================================================================
