------------------------ MODULE DependencyEvaluation ------------------------
(***************************************************************************)
(* The algorithms on a dependency plan that are written as loops: the      *)
(* search for a cycle (findCycle) and the propagation of failures through  *)
(* the plan (Plan.Evaluate), with what they must compute, for every plan   *)
(* over some rules and every state of its nodes.  An evaluation is a       *)
(* record of the edges and the action of the plan and of the states.       *)
(***************************************************************************)
EXTENDS DependencyPlan

CONSTANT Rules    \* the rules a plan may be built from

NodeStates == {"waiting", "running", "succeeded", "failed", "superseded"}

----------------------------------------------------------------------------
(* findCycle *)

\* The agents that a has an edge to, in order.
Adjacent(E, a) == SelectSeq(Order, LAMBDA d : <<a, d>> \in E)

\* An edge to a node that is on the stack closes a cycle.
Closes(color) == color = 1

RECURSIVE Visit(_, _, _)

\* visit: the nodes get color 1 while they are on the stack and 2 after.
Visit(E, search, a) ==
  LET step(s, d) == IF s.cyclic THEN s
                    ELSE IF Closes(s.color[d]) THEN [s EXCEPT !.cyclic = TRUE]
                    ELSE IF s.color[d] = 0 THEN Visit(E, s, d) ELSE s
      left == FoldLeft(step, [search EXCEPT !.color[a] = 1], Adjacent(E, a))
  IN  IF left.cyclic THEN left ELSE [left EXCEPT !.color[a] = 2]

HasCycle(E) ==
  LET step(s, a) == IF s.cyclic \/ s.color[a] # 0 THEN s ELSE Visit(E, s, a)
  IN  FoldLeft(step, [color |-> [a \in Agents |-> 0], cyclic |-> FALSE],
               Order).cyclic

----------------------------------------------------------------------------
(* Plan.Evaluate *)

Needs(e, a) == Prerequisites(e.action, e.edges, a)

\* Mutant of Blocks: only a prerequisite that ended itself blocks.
BlocksEnded(e, blocked, end, p) == e.states[p] = end

\* A prerequisite blocks by its own end or because it is blocked itself.
Blocks(e, blocked, end, p) == e.states[p] = end \/ p \in blocked

\* One turn of the loop for node a, for failures or for supersessions.
Blocked(e, blocked, end, a) ==
  IF e.states[a] = "waiting" /\ \E p \in Needs(e, a) : Blocks(e, blocked, end, p)
    THEN blocked \union {a}
    ELSE blocked \ {a}

RECURSIVE Settle(_, _, _)

\* The loop: passes over the nodes in order until nothing changes.
Settle(e, blocked, end) ==
  LET turn(b, a) == Blocked(e, b, end, a)
      next == FoldLeft(turn, blocked, Order)
  IN  IF next = blocked THEN blocked ELSE Settle(e, next, end)

BlockedBy(e, end) == Settle(e, {}, end)

In(e, s) == {a \in Agents : e.states[a] = s}

ReadyNodes(e) == Frontier(e.action, e.edges, Agents, e.states)
                  \ (BlockedBy(e, "failed") \union BlockedBy(e, "superseded"))

\* Evaluation.Status.
Status(e) ==
  IF In(e, "succeeded") = Agents THEN "applied"
  ELSE IF In(e, "running") \union ReadyNodes(e) # {}
    THEN IF In(e, "waiting") = Agents THEN "pending" ELSE "applying"
  ELSE IF In(e, "failed") # {}
    THEN IF In(e, "succeeded") # {} THEN "degraded" ELSE "failed"
  ELSE IF In(e, "superseded") # {} THEN "superseded"
  ELSE "pending"

----------------------------------------------------------------------------
(* What the loops must compute *)

\* Non-empty paths of the relation R, by its transitive closure.
RECURSIVE Closure(_)
Closure(R) ==
  LET more == R \union {<<p[1], q[2]>> : <<p, q>> \in
                          {pq \in R \X R : pq[1][2] = pq[2][1]}}
  IN  IF more = R THEN R ELSE Closure(more)

Cyclic(E) == \E a \in Agents : <<a, a>> \in Closure(E)

\* findCycle refuses exactly the plans in which an agent waits for itself,
\* through any number of others.
FindsCycles ==
  \A rules \in SUBSET Rules :
    HasCycle(PlanEdges(rules)) = Cyclic(PlanEdges(rules))

\* The evaluations of the plans that NewPlan accepts.
Evaluations ==
  [edges : {E \in {PlanEdges(rules) : rules \in SUBSET Rules} : ~Cyclic(E)},
   action : Actions, states : [Agents -> NodeStates]]

\* A waiting node is blocked by a failure exactly if a path of waiting nodes
\* leads to a failed one, in whatever order the loop meets them (the same for a
\* supersession).
BlocksReachable ==
  \A e \in Evaluations, end \in {"failed", "superseded"} :
    LET waits == {d \in In(e, "waiting") \X Agents : d[2] \in Needs(e, d[1])}
    IN  BlockedBy(e, end) =
          {a \in In(e, "waiting") : \E b \in In(e, end) :
                                      <<a, b>> \in Closure(waits)}

\* An operation shown as pending or applying has work that can be done, and one
\* with another status has none left: nobody waits for an operation that waits
\* for everybody.
ShowsWork ==
  \A e \in Evaluations :
    (Status(e) \in {"pending", "applying"})
      = (In(e, "running") \union ReadyNodes(e) # {})
=============================================================================
