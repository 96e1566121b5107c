------------------------ MODULE DependencyOperation ------------------------
(***************************************************************************)
(* An operation on several agents and the order its dependency plan gives  *)
(* to their revisions (controlplane/coordinator/dependency.go, the         *)
(* expected revision of ClaimLatestAgentRevision, RevisionAPI.Pull and the *)
(* operation rows).                                                        *)
(*                                                                         *)
(* A pull reads the plan and then, node by node, a revision row and a      *)
(* pointer row, each in a query of its own; only the claim at its end is a *)
(* transaction.  Revisions change, and new operations are published, while *)
(* it reads.                                                               *)
(*                                                                         *)
(* The revision of operation n has number n on every agent it targets.     *)
(* RevisionCoordinator has the attempts, leases and generations in detail; *)
(* here a lease is the number of the revision it is for, and whether an    *)
(* attempt that fails is the last one is left open.                        *)
(***************************************************************************)
EXTENDS DependencyPlan

\* The settings of the runs: the operations (targets, action, and the rules
\* after it), a bound on the attempts that fail, and the optional calls made, of
\* "retry", "retire", "prune" and "dismiss".
CONSTANT Settings

VARIABLES
  issued,        \* the number of operations published
  pointer,       \* per agent: its AgentRevisionPointerRow
  revision,      \* per operation and agent: the state of the revision row
  lease,         \* per agent: the revision of its unstarted lease
  pull,          \* per agent: the pull it is served
  operation,     \* per operation: its OperationRow
  fails,
  setting        \* chosen at the start

ledger == <<pointer, revision, lease, operation>>
vars == <<issued, ledger, pull, fails, setting>>

Operations == setting.operations
MaxFails == setting.fails
Calls == setting.calls

Ops == 1..Len(Operations)
Targets(n) == Operations[n].targets
Action(n) == Operations[n].action
Planned(n) == Action(n) \in Actions

\* The rules of agent a after the first n operations; before the first there
\* are none.
RulesAfter(operations, n, a) ==
  IF n = 0 THEN {} ELSE {rule \in operations[n].rules : rule.owner = a}

\* The rules of agent a in the snapshot of revision n.
Snapshot(n, a) == RulesAfter(Operations, n, a)

\* An operation that changes the rules of an agent targets it.
ASSUME OperationsAssumption ==
  \A s \in Settings : \A n \in 1..Len(s.operations) :
    \A a \in Agents \ s.operations[n].targets :
      RulesAfter(s.operations, n, a) = RulesAfter(s.operations, n - 1, a)

Idle == [at |-> "idle"]

Init ==
  /\ setting \in Settings
  /\ issued = 0
  /\ pointer = [a \in Agents |-> [found |-> TRUE, desired |-> 0, applied |-> 0]]
  /\ revision = [n \in Ops |-> [a \in Agents |-> "none"]]
  /\ lease = [a \in Agents |-> 0]
  /\ pull = [a \in Agents |-> Idle]
  /\ operation = [n \in Ops |-> [status |-> "none", completed |-> FALSE]]
  /\ fails = 0

----------------------------------------------------------------------------
(* Operation rows *)

Open(s) == s \in {"pending", "applying"}

\* The first of these states that a revision of the operation is in.
StatusOf(states) ==
  IF "failed" \in states THEN "failed"
  ELSE IF "applying" \in states THEN "applying"
  ELSE IF "pending" \in states THEN "pending"
  ELSE IF "superseded" \in states THEN "superseded" ELSE "applied"

\* refreshCoordinatorOperationTx: a dismissed operation keeps its status.
Refreshed(row, states) ==
  IF states = {} \/ (row.completed /\ Open(row.status)) THEN row
  ELSE [status |-> StatusOf(states), completed |-> \A s \in states : ~Open(s)]

StatesIn(revs, n) == {revs[n][a] : a \in Targets(n)} \ {"none"}

\* The transactions that change a revision of a refresh its operation.
Rewrites(a, revs) ==
  /\ revision' = revs
  /\ operation' = [n \in Ops |->
       IF revs[n] # revision[n] THEN Refreshed(operation[n], StatesIn(revs, n))
       ELSE operation[n]]

\* supersedeOlderCoordinatorRevisionsTx.
Fenced(a) ==
  [n \in Ops |-> IF n < pointer[a].desired /\ Open(revision[n][a])
                   THEN [revision[n] EXCEPT ![a] = "superseded"]
                   ELSE revision[n]]

----------------------------------------------------------------------------
(* Publishing *)

\* Executor.Execute.
Publish ==
  /\ issued < Len(Operations)
  /\ \A a \in Targets(issued + 1) : pointer[a].found
  /\ issued' = issued + 1
  /\ revision' = [revision EXCEPT ![issued + 1] =
                    [a \in Agents |-> IF a \in Targets(issued + 1)
                                        THEN "pending" ELSE "none"]]
  /\ pointer' = [a \in Agents |-> IF a \in Targets(issued + 1)
                                    THEN [pointer[a] EXCEPT !.desired = issued + 1]
                                    ELSE pointer[a]]
  /\ operation' = [operation EXCEPT ![issued + 1].status = "pending"]
  /\ UNCHANGED <<lease, pull, fails, setting>>

\* appendDependencyPlan: a deletion is ordered by the rules before it.
PublishedEdges(n) ==
  PlanEdges(UNION {Snapshot(IF Action(n) = "delete" THEN n - 1 ELSE n, a) :
                     a \in Targets(n)})

\* previousDependencyRevision, 0 if there is none.
Previous(n, a) ==
  LET rows == {0} \union {m \in 1..(n - 1) : revision[m][a] # "none"}
  IN  CHOOSE m \in rows : \A q \in rows : q <= m

\* LoadDependencyPlan accepts the stored plan: all its nodes have their revision
\* and, for a deletion, one before it.
PlanLoads(n) ==
  \A a \in Targets(n) :
    /\ revision[n][a] # "none"
    /\ Action(n) = "delete" => Previous(n, a) > 0

\* rebuildDependencyPlan, unless the stored plan has no edge.
LoadedEdges(n) ==
  IF PublishedEdges(n) = {} THEN {}
  ELSE PlanEdges(UNION {Snapshot(IF Action(n) = "delete" THEN Previous(n, a)
                                 ELSE n, a) : a \in Targets(n)})

----------------------------------------------------------------------------
(* A pull: RevisionAPI.Pull and ClaimDependencyAgent *)

\* The desired revision of a is not applied and not leased.
BeginPull(a) ==
  /\ pull[a] = Idle
  /\ pointer[a].found
  /\ pointer[a].desired > pointer[a].applied
  /\ LET n == pointer[a].desired
     IN  /\ lease[a] # n
         /\ revision[n][a] # "applying"
         /\ IF Planned(n)
              THEN /\ PlanLoads(n)
                   /\ pull' = [pull EXCEPT ![a] =
                        [at |-> "row", op |-> n, edges |-> LoadedEdges(n),
                         rest |-> SelectSeq(Order, LAMBDA b : b \in Targets(n)),
                         seen |-> [b \in Agents |-> "waiting"], row |-> "none"]]
              ELSE pull' = [pull EXCEPT ![a] = [at |-> "plain"]]
  /\ UNCHANGED <<issued, ledger, fails, setting>>

Seen(a, s) ==
  [pull[a] EXCEPT !.at = "row", !.rest = Tail(@), !.seen[Head(pull[a].rest)] = s]

\* Mutant of ReadPointer: the desired revision itself counts as superseded.
ReadPointerAtOnce(a) ==
  /\ pull[a].at = "pointer"
  /\ LET p == pointer[Head(pull[a].rest)]
     IN  pull' = [pull EXCEPT ![a] =
           IF ~p.found THEN Idle
           ELSE IF p.desired >= pull[a].op THEN Seen(a, "superseded")
           ELSE IF p.applied >= pull[a].op THEN Seen(a, "succeeded")
           ELSE IF pull[a].row = "pending" THEN Seen(a, "waiting")
           ELSE Seen(a, "running")]
  /\ UNCHANGED <<issued, ledger, fails, setting>>

\* EvaluateDependencyPlan: the revision row of the next node ...
ReadRow(a) ==
  /\ pull[a].at = "row"
  /\ pull[a].rest # <<>>
  /\ LET s == revision[pull[a].op][Head(pull[a].rest)]
     IN  pull' = [pull EXCEPT ![a] =
           CASE s = "none"    -> Idle
             [] s = "applied" -> Seen(a, "succeeded")
             [] s \in {"failed", "superseded"} -> Seen(a, s)
             [] Open(s)       -> [@ EXCEPT !.at = "pointer", !.row = s]]
  /\ UNCHANGED <<issued, ledger, fails, setting>>

\* ... and, when it is open, the pointer of the agent.
ReadPointer(a) ==
  /\ pull[a].at = "pointer"
  /\ LET p == pointer[Head(pull[a].rest)]
     IN  pull' = [pull EXCEPT ![a] =
           IF ~p.found THEN Idle
           ELSE IF p.desired > pull[a].op THEN Seen(a, "superseded")
           ELSE IF p.applied >= pull[a].op THEN Seen(a, "succeeded")
           ELSE IF pull[a].row = "pending" THEN Seen(a, "waiting")
           ELSE Seen(a, "running")]
  /\ UNCHANGED <<issued, ledger, fails, setting>>

\* Mutant of ClaimsExpected: the revision may have changed since it was read.
ClaimsAnything(a, n) == pointer[a].found

\* ClaimLatestAgentRevision with ExpectedRevision.
ClaimsExpected(a, n) == pointer[a].found /\ pointer[a].desired = n

\* ClaimLatestAgentRevision without it: ErrCoordinatorDependencyClaimRequired.
ClaimsUnplanned(a) == pointer[a].found /\ ~Planned(pointer[a].desired)

\* The rest of the claim: older revisions are superseded, a pending one leased.
Leases(a) ==
  /\ Rewrites(a, Fenced(a))
  /\ lease' = [lease EXCEPT ![a] =
                 IF revision[pointer[a].desired][a] = "pending"
                   THEN pointer[a].desired
                 ELSE IF @ < pointer[a].desired THEN 0 ELSE @]

Claims(a) ==
  \/ /\ pull[a].at = "plain"
     /\ ClaimsUnplanned(a)
  \/ /\ pull[a].at = "row"
     /\ pull[a].rest = <<>>
     /\ a \in Frontier(Action(pull[a].op), pull[a].edges, Targets(pull[a].op),
                       pull[a].seen)
     /\ ClaimsExpected(a, pull[a].op)

\* The end of the pull.
Claim(a) ==
  /\ pull[a].at = "plain" \/ (pull[a].at = "row" /\ pull[a].rest = <<>>)
  /\ IF Claims(a) THEN Leases(a) ELSE UNCHANGED <<revision, lease, operation>>
  /\ pull' = [pull EXCEPT ![a] = Idle]
  /\ UNCHANGED <<issued, pointer, fails, setting>>

----------------------------------------------------------------------------
(* The agent's reports and the reconciler *)

Desires(a, s) ==
  LET n == pointer[a].desired
  IN  pointer[a].found /\ n > 0 /\ revision[n][a] = s

Becomes(a, s) == [revision EXCEPT ![pointer[a].desired][a] = s]

\* StartAgentRevisionAttempt, of the desired or an overtaken revision.
Start(a) ==
  /\ lease[a] > 0
  /\ pointer[a].found
  /\ lease' = [lease EXCEPT ![a] = 0]
  /\ IF lease[a] = pointer[a].desired
       THEN Desires(a, "pending") /\ Rewrites(a, Becomes(a, "applying"))
       ELSE Rewrites(a, [revision EXCEPT ![lease[a]][a] =
                           IF Open(@) THEN "superseded" ELSE @])
  /\ UNCHANGED <<issued, pointer, pull, fails, setting>>

\* The lease runs out before it is started.
Expire(a) ==
  /\ lease[a] > 0
  /\ lease' = [lease EXCEPT ![a] = 0]
  /\ UNCHANGED <<issued, pointer, revision, operation, pull, fails, setting>>

\* ApplyAgentRevisionAttempt.
Apply(a) ==
  /\ Desires(a, "applying")
  /\ Rewrites(a, Becomes(a, "applied"))
  /\ pointer' = [pointer EXCEPT ![a].applied = pointer[a].desired]
  /\ UNCHANGED <<issued, lease, pull, fails, setting>>

\* FailAgentRevisionAttempt, or a reconciliation after the deadline.
Fail(a) ==
  /\ fails < MaxFails
  /\ fails' = fails + 1
  /\ Desires(a, "applying")
  /\ \E s \in {"pending", "failed"} : Rewrites(a, Becomes(a, s))
  /\ UNCHANGED <<issued, pointer, lease, pull, setting>>

\* RetryCoordinatorRevisionIdempotent.
Retry(a) ==
  /\ "retry" \in Calls
  /\ Desires(a, "failed")
  /\ Rewrites(a, Becomes(a, "pending"))
  /\ UNCHANGED <<issued, pointer, lease, pull, fails, setting>>

\* ReconcileCoordinatorAgent supersedes what a newer revision overtook.
Reconcile(a) ==
  /\ pointer[a].found
  /\ Fenced(a) # revision
  /\ Rewrites(a, Fenced(a))
  /\ lease' = [lease EXCEPT ![a] = IF @ < pointer[a].desired THEN 0 ELSE @]
  /\ UNCHANGED <<issued, pointer, pull, fails, setting>>

\* retireCoordinatorAgentTx.
Retire(a) ==
  /\ "retire" \in Calls
  /\ pointer[a].found
  /\ pointer' = [pointer EXCEPT ![a] = [found |-> FALSE, desired |-> 0, applied |-> 0]]
  /\ Rewrites(a, [n \in Ops |-> IF Open(revision[n][a])
                                  THEN [revision[n] EXCEPT ![a] = "superseded"]
                                  ELSE revision[n]])
  /\ lease' = [lease EXCEPT ![a] = 0]
  /\ UNCHANGED <<issued, pull, fails, setting>>

\* PruneRevisionHistory, of revisions that are old enough and whose generation
\* has drained.
Prune(a, n) ==
  /\ "prune" \in Calls
  /\ revision[n][a] # "none"
  /\ n \notin {pointer[a].desired, pointer[a].applied}
  /\ revision' = [revision EXCEPT ![n][a] = "none"]
  /\ UNCHANGED <<issued, pointer, lease, operation, pull, fails, setting>>

\* DismissOperation.
Dismiss(n) ==
  /\ "dismiss" \in Calls
  /\ n <= issued
  /\ ~operation[n].completed
  /\ operation' = [operation EXCEPT ![n].completed = TRUE]
  /\ UNCHANGED <<issued, pointer, revision, lease, pull, fails, setting>>

----------------------------------------------------------------------------
(* Specification *)

PullStep(a) == BeginPull(a) \/ ReadRow(a) \/ ReadPointer(a) \/ Claim(a)

Next ==
  \/ Publish
  \/ \E n \in Ops : Dismiss(n)
  \/ \E a \in Agents :
       \/ PullStep(a) \/ Start(a) \/ Expire(a) \/ Apply(a) \/ Fail(a) \/ Retry(a)
       \/ Reconcile(a) \/ Retire(a)
       \/ \E n \in Ops : Prune(a, n)

Spec == Init /\ [][Next]_vars

\* Agents pull again and again, start what they lease before it expires at
\* least now and then, and report what they started.
FairSpec ==
  /\ Spec
  /\ \A a \in Agents : /\ WF_vars(PullStep(a))
                       /\ SF_vars(Start(a))
                       /\ WF_vars(Apply(a))

----------------------------------------------------------------------------
(* Properties *)

\* The last operation with a plan up to the revision a runs was applied by a
\* itself.  The revision of an operation without a plan, a plugin's, carries the
\* rules of the operations before it, and overtakes one that is not applied yet.
AppliedPlan(a) ==
  LET planned == {n \in 1..pointer[a].applied : Planned(n) /\ a \in Targets(n)}
  IN  \A m \in planned :
        (\A n \in planned : n <= m) => revision[m][a] = "applied"

\* No agent is given a revision of a plan before the revisions it depends on are
\* applied, whatever happens between the reads of a pull and its claim (the row
\* of a revision that was applied may be pruned afterwards), and so an agent runs
\* a rule only while every registered relay on its way runs a revision that has
\* the rule too, as long as both got there by the plans: "The dependency graph
\* orders HTTP/L4 rule changes against Relay and Egress resources"
\* (pluginLifecycleDependencyAction), but an operation without a plan that
\* overtakes one gives its agent the rules of both at once, and orders nothing.
OrderIsKept ==
  /\ \A n \in Ops, a \in Agents :
       (Planned(n) /\ (lease[a] = n \/ revision[n][a] \in {"applying", "applied"}))
         => \A p \in Prerequisites(Action(n), PublishedEdges(n), a) :
              \/ revision[n][p] = "applied"
              \/ revision[n][p] = "none" /\ pointer[p].applied >= n
  /\ \A a \in {b \in Agents : AppliedPlan(b)} :
       \A rule \in Snapshot(pointer[a].applied, a) : \A e \in RuleEdges(rule) :
         LET n == pointer[e[2]].applied
         IN  pointer[e[2]].found /\ AppliedPlan(e[2])
               => n > 0 /\ rule \in Operations[n].rules

\* A revision is applied in the end, unless it or one it waits for failed or was
\* superseded, through any number of agents: no agent waits for nothing, as long
\* as no agent is removed and no history pruned.
NodesEnd ==
  []<>(Calls \subseteq {"retry"} =>
         \A n \in Ops, a \in Agents :
           \/ revision[n][a] # "pending"
           \/ pointer[a].desired # n
           \/ \E b \in Targets(n) :
                \/ revision[n][b] \in {"failed", "superseded"}
                \/ pointer[b].desired # n)
=============================================================================
