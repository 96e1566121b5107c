-------------------------- MODULE PluginLifecycle --------------------------
(***************************************************************************)
(* The lifecycle of one installed plugin on the control plane: the user's  *)
(* mutations (PluginService), the immutable revisions they publish for the *)
(* agents (the revision executor), the runtime status rows that fence the  *)
(* agents' reports (plugin_generation.go), the completion of an operation  *)
(* by the reports of its agents (PluginLifecycleReconciler) or by the      *)
(* recovery pass of the revision reconciler.                               *)
(*                                                                         *)
(*  - A user mutation is one transaction under the locks of the revision   *)
(*    pointers.  A completion is not: it reads the status rows, then the   *)
(*    revisions, then the plugin, and commits under the state version and  *)
(*    the pending operation it has read.  Those reads are steps of the     *)
(*    handler of a report and of the recovery pass, which run side by      *)
(*    side.                                                                *)
(*  - Unrelated(a) is every other mutation, and every heartbeat, that      *)
(*    publishes a revision for agent a: the revision carries the plugin's  *)
(*    generations as they are, and moves the pending rows to itself.       *)
(*  - A configuration is named by the operation that staged it, 0 is none. *)
(*    The contents of packages and configurations, targetless instances,   *)
(*    the reports' sequence numbers and manual retries are left out.       *)
(***************************************************************************)
EXTENDS Naturals, Sequences, FiniteSets, FiniteSetsExt

CONSTANTS
  Agents,      \* the agents a plugin instance may be placed on
  Default,     \* the agent a mutation of a plugin without instances addresses
  Instances,   \* the identities of instances
  Packages,    \* the packages of the plugin, numbered from 1
  MaxOps,      \* the most operations of a setting
  MaxRevs,     \* bound on the revisions of an agent
  Settings     \* what the runs range over, see Setting

\* A setting: the agents, instances and packages that take part; whether the
\* plugin runs as an RPC service on the agents, and whether its cleanup policy
\* retains instances; the mutations of the users; the faults ("fail": a revision
\* fails; "crash": a runtime fails; "refuse": the package check or the control
\* plane's runtime refuses what the agents have applied); the revisions each agent
\* has applied before; and bounds on the operations and on the revisions.
Setting ==
  [agents : SUBSET Agents, instances : SUBSET Instances, packages : SUBSET Packages,
   rpc : BOOLEAN, retains : BOOLEAN,
   kinds : SUBSET {"install", "configure", "publish", "enable", "disable", "upgrade",
                   "rollback", "delete", "uninstall", "unrelated"},
   faults : SUBSET {"fail", "crash", "refuse"},
   first : [Agents -> 0 .. MaxRevs], ops : 1 .. MaxOps, revs : 1 .. MaxRevs]

ASSUME BoundsAssumption ==
  /\ Default \in Agents
  /\ 1 \in Packages /\ 0 \notin Packages
  /\ MaxOps \in Nat /\ MaxRevs \in Nat
  /\ Settings \subseteq Setting

VARIABLES
  installed,   \* installed_plugins
  instance,    \* plugin_instances
  ops,         \* plugin_operations
  rows,        \* plugin_agent_runtime_statuses
  revs,        \* agent_revisions, with the generations of their snapshots
  run,         \* the revision each agent runs
  up,          \* what each agent would report of its instances' runtimes
  tick,        \* the recovery pass
  report,      \* the handler of an agent's report
  setting      \* chosen at the start

db == <<installed, instance, ops, rows, revs>>
agents == <<run, up>>
vars == <<installed, instance, ops, rows, revs, run, up, tick, report, setting>>

Rpc == setting.rpc
Retains == setting.retains
Kinds == setting.kinds
Faults == setting.faults
First == setting.first

OpIds == 1 .. MaxOps
Places == Agents \X Instances

NoPlugin == [found |-> FALSE]
NoInstance == [found |-> FALSE]
NoOp == [kind |-> "none", status |-> "none", rev |-> 0]
NoRow == [slot |-> "none", state |-> "none", rev |-> 0, cfg |-> 0, pkg |-> 0]
Idle == [pc |-> "idle"]

\* A freshly installed plugin
Fresh(o) ==
  [found |-> TRUE, v |-> 1, active |-> 1, staged |-> 0, rollback |-> 0,
   desired |-> "disabled", current |-> "disabled", pend |-> 0, pendRev |-> 0, last |-> o]

Open(o) == ops[o].status \in {"applying", "staged"}
Unused == {o \in OpIds : o <= setting.ops /\ ops[o] = NoOp}
Present(insts) == {i \in Instances : insts[i].found}
Desired(a) == Len(revs[a])

Init ==
  /\ setting \in Settings
  /\ installed = Fresh(1)
  /\ instance = [i \in Instances |-> NoInstance]
  /\ ops = [o \in OpIds |-> IF o = 1 THEN [kind |-> "install", status |-> "succeeded", rev |-> 0]
                                     ELSE NoOp]
  /\ rows = [o \in OpIds |-> [p \in Places |-> NoRow]]
  /\ revs = [a \in Agents |->
               [r \in 1 .. First[a] |->
                  [op |-> 0, state |-> "applied", drain |-> "drained", gens |-> {}]]]
  /\ run = First
  /\ up = [p \in Places |-> "active"]
  /\ tick = Idle
  /\ report = Idle

(***************************************************************************)
(* The generations of the plugin an agent's snapshot carries.              *)
(***************************************************************************)
\* Whether the instance's staged configuration is the plugin's pending one
Staged(plugin, x) == x.pOp /= 0 /\ x.pOp = plugin.pend

\* loadAgentPluginGenerations
Runs(plugin, x, a) ==
  /\ x.found /\ x.enabled
  /\ x.cfg /= 0 \/ Staged(plugin, x)
  /\ a \in IF Staged(plugin, x) /\ x.pTargets /= {} THEN x.pTargets ELSE x.targets

\* BuildPluginGeneration
Generation(plugin, x, i) ==
  [inst |-> i,
   op |-> IF plugin.pend /= 0 THEN plugin.pend ELSE plugin.last,
   cfg |-> IF Staged(plugin, x) THEN x.pCfg ELSE x.cfg,
   pkg |-> IF plugin.pend /= 0 /\ plugin.staged /= 0 THEN plugin.staged ELSE plugin.active]

Built(plugin, insts, a) ==
  IF Rpc /\ plugin.found /\ plugin.desired = "enabled"
    THEN {Generation(plugin, insts[i], i) : i \in {j \in Instances : Runs(plugin, insts[j], a)}}
    ELSE {}

(***************************************************************************)
(* The publication of a revision.                                          *)
(***************************************************************************)
NewRevision(o, gens) == [op |-> o, state |-> "pending", drain |-> "none", gens |-> gens]

\* pluginRuntimeStatusRowsForMutation, StagePluginAgentRuntimeStatuses:
\* the rows of operation o on the agents T, which go from the generations
\* `before` to the generations `after`
StagedRow(o, r, before, after) ==
  [p \in Places |->
     LET now  == {g \in after[p[1]] : g.inst = p[2]}
         was  == {g \in before[p[1]] : g.inst = p[2]}
         row(g, s) == [slot |-> "pending", state |-> s, rev |-> r[p[1]],
                       cfg |-> g.cfg, pkg |-> g.pkg]
     IN  CASE now /= {} -> row(CHOOSE g \in now : TRUE, "applying")
           [] now = {} /\ was /= {} -> row(CHOOSE g \in was : TRUE, "draining")
           [] OTHER -> NoRow]

Retire(row) == [row EXCEPT !.slot = "retired"]

WithStaged(table, o, T, staged) ==
  [q \in OpIds |-> [p \in Places |->
     CASE p[1] \in T /\ staged[p] /= NoRow /\ q = o -> staged[p]
       [] p[1] \in T /\ staged[p] /= NoRow /\ q /= o /\ table[q][p].slot = "pending" ->
            Retire(table[q][p])
       [] OTHER -> table[q][p]]]

\* supersedePluginOperationTx
WithoutPending(table, o) ==
  [table EXCEPT ![o] = [p \in Places |-> IF @[p].slot = "pending" THEN Retire(@[p]) ELSE @[p]]]

\* executeRevisionLifecycleMutation: operation o leaves the plugin and its
\* instances as given, supersedes operation `over` (0: none) and publishes a
\* revision for every agent of T
Mutate(o, T, kind, status, over, plugin, insts) ==
  LET r      == [a \in Agents |-> Desired(a) + 1]
      before == [a \in Agents |-> IF a \in T THEN Built(installed, instance, a) ELSE {}]
      target == Max({r[a] : a \in T})
      row    == [plugin EXCEPT !.v = @ + 1, !.last = o,
                               !.pendRev = IF plugin.pend = o THEN target ELSE 0]
      after  == [a \in Agents |-> IF a \in T THEN Built(row, insts, a) ELSE {}]
  IN  /\ \A a \in T : Desired(a) < setting.revs
      /\ installed' = row
      /\ instance' = insts
      /\ ops' = [q \in OpIds |->
                   CASE q = o -> [kind |-> kind, status |-> status, rev |-> target]
                     [] q = over /\ q /= o /\ Open(q) -> [ops[q] EXCEPT !.status = "failed"]
                     [] OTHER -> ops[q]]
      /\ rows' = WithStaged(IF over = 0 THEN rows ELSE WithoutPending(rows, over), o, T,
                            StagedRow(o, r, before, after))
      /\ revs' = [a \in Agents |->
                    IF a \in T THEN Append(revs[a], NewRevision(o, after[a])) ELSE revs[a]]
      /\ UNCHANGED <<run, up, tick, report, setting>>

\* pluginLifecycleTargetIDs
TargetsOf(insts) == UNION {insts[i].targets \union insts[i].pTargets : i \in Present(insts)}
Addressed(T) == IF T = {} THEN {Default} ELSE T

NextOp == Min(Unused)

\* ensureNoPendingOperation
NothingPending == installed.pend = 0 /\ installed.staged = 0

\* clearPendingInstance
Cleared(x) == IF x.found THEN [x EXCEPT !.pOp = 0, !.pCfg = 0, !.pTargets = {}] ELSE x

\* supersedePendingPlugin
WithoutPlan(plugin) == [plugin EXCEPT !.pend = 0, !.pendRev = 0, !.staged = 0]

\* What every mutation needs: the plugin, and room for one more operation
May(kind) == kind \in Kinds /\ Unused /= {} /\ installed.found

(***************************************************************************)
(* The mutations of the users.                                             *)
(***************************************************************************)
\* InstallPlugin
Install ==
  /\ "install" \in Kinds /\ Unused /= {}
  /\ ~installed.found
  /\ installed' = Fresh(NextOp)
  /\ ops' = [ops EXCEPT ![NextOp] = [kind |-> "install", status |-> "succeeded", rev |-> 0]]
  /\ UNCHANGED <<instance, rows, revs, run, up, tick, report, setting>>

\* ensurePublishedInstance: an instance is published on one agent.  One that
\* is ready there is not configured again, and one that is published on
\* another agent is not moved
Publishable(x, T) ==
  /\ Cardinality(T) = 1
  /\ x.found =>
       /\ ~(installed.desired = "enabled" /\ x.enabled /\ x.targets = T)
       /\ x.published => x.targets = T

\* configureWithProspectiveDetail; `publish` is PublishDesiredEnabled
Configure(i, T, publish) ==
  /\ May(IF publish THEN "publish" ELSE "configure")
  /\ publish => Publishable(instance[i], T)
  /\ NothingPending
  /\ LET o      == NextOp
         old    == IF instance[i].found THEN instance[i]
                     ELSE [found |-> TRUE, cfg |-> 0, targets |-> T, pOp |-> 0, pCfg |-> 0,
                           pTargets |-> {}, rbCfg |-> 0, enabled |-> FALSE, published |-> FALSE]
         plugin == [installed EXCEPT !.pend = o,
                      !.desired = IF publish THEN "enabled" ELSE @,
                      !.current = IF publish /\ @ = "disabled" THEN "active" ELSE @]
         new    == [old EXCEPT !.pOp = o, !.pCfg = o, !.pTargets = T,
                               !.enabled = plugin.desired = "enabled",
                               !.published = @ \/ publish]
     IN  Mutate(o, Addressed(IF publish THEN T ELSE TargetsOf(instance) \union T),
                "configure", "applying", 0, plugin, [instance EXCEPT ![i] = new])

\* setLifecycle of a plugin without instances
SwitchUndeployed(kind, desired, current) ==
  /\ Present(instance) = {}
  /\ Mutate(NextOp, Addressed({}), kind, "succeeded", installed.pend,
            [WithoutPlan(installed) EXCEPT !.desired = desired, !.current = current], instance)

\* setLifecycle of a plugin with instances; over is the operation superseded
SwitchDeployed(kind, desired, over, plugin, insts) ==
  LET o == NextOp
  IN  Mutate(o, Addressed(TargetsOf(instance)), kind, "applying", over,
             [plugin EXCEPT !.desired = desired, !.current = "applying", !.pend = o],
             [i \in Instances |-> IF insts[i].found
                                    THEN [insts[i] EXCEPT !.enabled = desired = "enabled"]
                                    ELSE insts[i]])

\* Enable
Enable ==
  /\ May("enable")
  /\ ~(installed.desired = "enabled" /\ installed.current = "active")
  /\ \/ SwitchUndeployed("enable", "enabled", "active")
     \/ /\ Present(instance) /= {}
        /\ ~(installed.desired = "enabled" /\ installed.current = "applying")
        /\ NothingPending
        /\ SwitchDeployed("enable", "enabled", 0, installed, instance)

\* Disable: a pending operation is superseded
Disable ==
  /\ May("disable")
  /\ ~(installed.desired = "disabled" /\ installed.current = "disabled")
  /\ \/ SwitchUndeployed("disable", "disabled", "disabled")
     \/ /\ Present(instance) /= {}
        /\ ~(installed.desired = "disabled" /\ installed.current = "applying")
        /\ SwitchDeployed("disable", "disabled", installed.pend, WithoutPlan(installed),
             IF NothingPending THEN instance ELSE [i \in Instances |-> Cleared(instance[i])])

\* lifecycleCurrentState
Settled(desired) == IF desired = "enabled" THEN "active" ELSE "disabled"

\* Upgrade: a pending operation is superseded; finishUndeployedUpgrade
Upgrade(p) ==
  /\ May("upgrade")
  /\ p /= installed.active
  /\ ~(installed.staged = p /\ installed.pend /= 0 /\ ops[installed.pend].kind = "upgrade")
  /\ LET o     == NextOp
         T     == Addressed(TargetsOf(instance))
         plugin == IF NothingPending THEN installed ELSE WithoutPlan(installed)
     IN  IF Present(instance) = {}
           THEN Mutate(o, T, "upgrade", "succeeded", installed.pend,
                       [plugin EXCEPT !.rollback = plugin.active, !.active = p,
                                      !.current = Settled(plugin.desired)], instance)
           ELSE Mutate(o, T, "upgrade", "staged", installed.pend,
                       [plugin EXCEPT !.staged = p, !.current = "upgrading", !.pend = o],
                       [i \in Instances |-> IF instance[i].found
                          THEN [Cleared(instance[i]) EXCEPT !.pOp = o, !.pCfg = o]
                          ELSE instance[i]])

\* Rollback
Rollback ==
  /\ May("rollback")
  /\ installed.rollback /= 0
  /\ NothingPending
  /\ \A i \in Present(instance) : instance[i].rbCfg /= 0
  /\ LET o == NextOp
     IN  Mutate(o, Addressed(TargetsOf(instance)), "rollback", "staged", 0,
                [installed EXCEPT !.staged = installed.rollback, !.current = "rolling_back",
                                  !.pend = o],
                [i \in Instances |-> IF instance[i].found
                   THEN [instance[i] EXCEPT !.pOp = o, !.pCfg = instance[i].rbCfg]
                   ELSE instance[i]])

\* DeleteInstance
DeleteInstance(i) ==
  /\ May("delete")
  /\ instance[i].found
  /\ NothingPending
  /\ Mutate(NextOp, Addressed(TargetsOf(instance)), "delete_instance", "succeeded", 0,
            installed, [instance EXCEPT ![i] = NoInstance])

\* Uninstall: it publishes nothing, and asks for no pending operation
Uninstall ==
  /\ May("uninstall")
  /\ \/ Present(instance) = {}
     \/ installed.current = "disabled"
     \/ installed.desired = "disabled"
  /\ installed' = NoPlugin
  /\ instance' = IF Retains THEN instance ELSE [i \in Instances |-> NoInstance]
  /\ ops' = [ops EXCEPT ![NextOp] = [kind |-> "uninstall", status |-> "succeeded", rev |-> 0]]
  /\ UNCHANGED <<rows, revs, run, up, tick, report, setting>>

(***************************************************************************)
(* RebaseInheritedPluginAgentRuntimeStatuses: revision r[a] of each agent  *)
(* of T carries the generations gens[a].                                   *)
(***************************************************************************)
\* The pending rows an earlier revision of the agent has fenced
Inherits(a, r, g) ==
  LET row == rows[g.op][<<a, g.inst>>]
  IN  row.slot = "pending" /\ row.state = "applying" /\ row.rev < r

Conflict(a, r, gens) ==
  \E g \in gens :
    /\ Inherits(a, r, g)
    /\ LET row == rows[g.op][<<a, g.inst>>]
       IN  \/ <<row.cfg, row.pkg>> /= <<g.cfg, g.pkg>>
           \/ /\ Open(g.op)
              /\ \/ ~installed.found \/ ~instance[g.inst].found
                 \/ installed.pend /= g.op
                 \/ installed.pendRev /= ops[g.op].rev
                 \/ instance[g.inst].pOp /= g.op

\* Mutant of Refenced: only the operation's target revision is raised.
RefencedOperationOnly(plugin, r) == plugin

\* The plugin's pending revision follows the revision of a moved row
Refenced(plugin, r) == [plugin EXCEPT !.pendRev = IF r > @ THEN r ELSE @]

Rebase(T, r, gens) ==
  LET moves(q, p) == /\ p[1] \in T
                     /\ \E g \in gens[p[1]] : /\ g.op = q /\ g.inst = p[2]
                                              /\ Inherits(p[1], r[p[1]], g)
                                              /\ Open(q)
      moved == {x \in OpIds \X Places : moves(x[1], x[2])}
      high  == Max({r[x[2][1]] : x \in moved})
  IN  /\ rows' = [q \in OpIds |-> [p \in Places |->
                    IF moves(q, p) THEN [rows[q][p] EXCEPT !.rev = r[p[1]]] ELSE rows[q][p]]]
      /\ IF moved = {}
           THEN UNCHANGED <<installed, ops>>
           ELSE /\ installed' = Refenced(installed, high)
                /\ ops' = [ops EXCEPT ![installed.pend].rev = IF high > @ THEN high ELSE @]

\* Another mutation, or a heartbeat, publishes a revision for the agent;
\* a conflict refuses it
Unrelated(a) ==
  /\ "unrelated" \in Kinds
  /\ Desired(a) < setting.revs
  /\ LET gens == Built(installed, instance, a)
     IN  /\ ~Conflict(a, Desired(a) + 1, gens)
         /\ Rebase({a}, [b \in Agents |-> Desired(b) + 1], [b \in Agents |-> gens])
         /\ revs' = [revs EXCEPT ![a] = Append(@, NewRevision(0, gens))]
  /\ UNCHANGED <<instance, run, up, tick, report, setting>>

(***************************************************************************)
(* The agents, as the ledger and the reports see them.                     *)
(***************************************************************************)
Overtaken(a) == {r \in 1 .. Desired(a) - 1 : revs[a][r].state = "pending"}

\* A claim or the coordinator's pass supersedes what is not desired any more
Supersede(a) ==
  /\ Overtaken(a) /= {}
  /\ revs' = [revs EXCEPT ![a] = [r \in DOMAIN @ |->
                IF r \in Overtaken(a) THEN [@[r] EXCEPT !.state = "superseded"] ELSE @[r]]]
  /\ UNCHANGED <<installed, instance, ops, rows, run, up, tick, report,
                 setting>>

\* The agent's runtime changes to the desired revision
Run(a) ==
  /\ Desired(a) > run[a]
  /\ Overtaken(a) = {}
  /\ revs[a][Desired(a)].state = "pending"
  /\ run' = [run EXCEPT ![a] = Desired(a)]
  /\ \E health \in [setting.instances -> IF "crash" \in Faults THEN {"active", "failed"} ELSE {"active"}] :
       up' = [p \in Places |-> IF p \in {a} \X setting.instances THEN health[p[2]] ELSE up[p]]
  /\ UNCHANGED <<db, tick, report, setting>>

\* A runtime fails
Crash(a, i) ==
  /\ "crash" \in Faults
  /\ up[<<a, i>>] = "active"
  /\ \E g \in IF run[a] = 0 THEN {} ELSE revs[a][run[a]].gens : g.inst = i
  /\ up' = [up EXCEPT ![<<a, i>>] = "failed"]
  /\ UNCHANGED <<db, run, tick, report, setting>>

Said(a, r, what) == [pc |-> "expected", agent |-> a, rev |-> r, said |-> what]

\* ReportRemoteRevision: the revision is applied
Applied(a) ==
  /\ report.pc = "idle"
  /\ run[a] = Desired(a) /\ run[a] > 0
  /\ revs[a][run[a]].state = "pending"
  /\ LET before == {r \in 1 .. run[a] - 1 : revs[a][r].state = "applied"}
     IN  revs' = [revs EXCEPT ![a][run[a]] =
                    [@ EXCEPT !.state = "applied",
                              !.drain = IF before = {} THEN "drained" ELSE "draining"]]
  /\ report' = Said(a, run[a], "applied")
  /\ UNCHANGED <<installed, instance, ops, rows, run, up, tick, setting>>

\* ReportRemoteRevision: its last attempt has failed
Failed(a) ==
  /\ "fail" \in Faults
  /\ report.pc = "idle"
  /\ Desired(a) > run[a]
  /\ Overtaken(a) = {}
  /\ revs[a][Desired(a)].state = "pending"
  /\ revs' = [revs EXCEPT ![a][Desired(a)].state = "failed"]
  /\ report' = Said(a, Desired(a), "failed")
  /\ UNCHANGED <<installed, instance, ops, rows, run, up, tick, setting>>

\* ReportRemoteRevision: what the applied revision has replaced is drained
Drained(a) ==
  /\ report.pc = "idle"
  /\ run[a] > 0
  /\ revs[a][run[a]].drain = "draining"
  /\ revs' = [revs EXCEPT ![a][run[a]].drain = "drained"]
  /\ report' = Said(a, run[a], "drained")
  /\ UNCHANGED <<installed, instance, ops, rows, run, up, tick, setting>>

(***************************************************************************)
(* A completion: what has been decided about an operation is fenced by the *)
(* plugin as it is read, and committed if the plugin has not changed.      *)
(***************************************************************************)
Decided(o, rev, ok, i, trusted) ==
  [pc |-> "complete", op |-> o, rev |-> rev, ok |-> ok, inst |-> i, trusted |-> trusted]

Verdicts(ok) == {ok} \union (IF "refuse" \in Faults THEN {FALSE} ELSE {})

\* reconcileTrustedRevisions: the revisions of an operation without rows
RevisionsOf(o) == UNION {{revs[a][r] : r \in {q \in DOMAIN revs[a] : revs[a][q].op = o}} : a \in Agents}

Concluded(o) ==
  \A x \in RevisionsOf(o) :
    \/ x.state \in {"failed", "superseded"}
    \/ x.state = "applied" /\ (ops[o].kind = "disable" => x.drain = "drained")

Staging(o) == {i \in Present(instance) : instance[i].pOp = o}

\* What a handler holds next of an operation whose revisions, not rows, decide
Trusted(o, next) ==
  IF RevisionsOf(o) /= {} /\ Concluded(o)
    THEN \E ok \in Verdicts(\A x \in RevisionsOf(o) : x.state = "applied"),
            i \in IF ops[o].kind = "configure" /\ Staging(o) /= {} THEN Staging(o)
                                                               ELSE setting.instances :
           next = Decided(o, ops[o].rev, ok, i, TRUE)
    ELSE next = Idle

\* pendingOperation
Current(w) ==
  /\ installed.found
  /\ installed.pend = w.op
  /\ Open(w.op)
  /\ installed.pendRev = w.rev
  /\ ops[w.op].rev = w.rev

\* What CompleteConfigure, CompleteUpgrade and CompleteRollback need besides
Completable(w) ==
  CASE ops[w.op].kind = "configure" -> instance[w.inst].found /\ instance[w.inst].pOp = w.op
    [] ops[w.op].kind \in {"upgrade", "rollback"} ->
         /\ installed.staged /= 0
         /\ \A i \in Present(instance) : instance[i].pOp = w.op
    [] OTHER -> TRUE

\* The rows of a completed operation that take authority
Winners(o, ok) ==
  {p \in Places : ok /\ rows[o][p].slot \in {"pending", "active"} /\ rows[o][p].state = "active"}

Closed(row, ok) ==
  IF row.slot = "pending" \/ (~ok /\ row.slot = "active") THEN Retire(row) ELSE row

\* Mutant of Authority: the row that held authority keeps it.
AuthorityShared(o, ok) ==
  [q \in OpIds |-> [p \in Places |->
     CASE q = o /\ p \in Winners(o, ok) -> [rows[q][p] EXCEPT !.slot = "active"]
       [] q = o /\ p \notin Winners(o, ok) -> Closed(rows[q][p], ok)
       [] OTHER -> rows[q][p]]]

\* completePluginAgentRuntimeAuthorityTx
Authority(o, ok) ==
  [q \in OpIds |-> [p \in Places |->
     CASE q = o /\ p \in Winners(o, ok) -> [rows[q][p] EXCEPT !.slot = "active"]
       [] q = o /\ p \notin Winners(o, ok) -> Closed(rows[q][p], ok)
       [] OTHER -> IF p \in Winners(o, ok) /\ rows[q][p].slot = "active"
                     THEN Retire(rows[q][p]) ELSE rows[q][p]]]

\* What a completed upgrade or rollback makes of the packages
Promoted(plugin, ok) ==
  [plugin EXCEPT !.staged = 0,
                 !.active = IF ok THEN plugin.staged ELSE @,
                 !.rollback = IF ok THEN plugin.active ELSE @]

\* CompleteLifecycleApply, CompleteConfigure, CompleteUpgrade, CompleteRollback
CompletedPlugin(o, ok) ==
  LET kind == ops[o].kind
      base == [installed EXCEPT !.v = @ + 1, !.pend = 0, !.pendRev = 0, !.last = o]
  IN  CASE kind = "configure" -> base
        [] kind \in {"enable", "disable"} ->
             [base EXCEPT !.current = IF ok THEN Settled(installed.desired) ELSE "degraded"]
        [] OTHER -> [Promoted(base, ok) EXCEPT !.current = Settled(installed.desired)]

CompletedInstance(o, ok, i, j) ==
  LET x == instance[j]
      kind == ops[o].kind
  IN  CASE ~x.found -> x
        [] x.found /\ kind = "configure" ->
             IF j /= i THEN x
             ELSE IF ok THEN Cleared([x EXCEPT !.cfg = x.pCfg, !.targets = x.pTargets])
             ELSE Cleared(x)
        [] x.found /\ kind \in {"upgrade", "rollback"} ->
             Cleared(IF ok THEN [x EXCEPT !.rbCfg = x.cfg, !.cfg = x.pCfg] ELSE x)
        [] OTHER -> [x EXCEPT !.enabled = IF ok THEN installed.desired = "enabled" ELSE @]

\* SupersedePluginOperation: the completion of an operation that is not the
\* pending one any more
Forsaken(w) ==
  w.trusted /\ installed.found /\ installed.pend /= w.op /\ installed.last /= w.op

\* The plugin is read, or the completion is refused
Load(w, next) ==
  /\ w.pc = "complete"
  /\ \/ /\ Current(w) /\ Completable(w)
        /\ next = [pc |-> "commit", op |-> w.op, ok |-> w.ok, inst |-> w.inst, v |-> installed.v]
        /\ UNCHANGED <<ops, rows>>
     \/ /\ ~(Current(w) /\ Completable(w))
        /\ next = Idle
        /\ IF Forsaken(w) /\ Open(w.op)
             THEN /\ ops' = [ops EXCEPT ![w.op].status = "failed"]
                  /\ rows' = WithoutPending(rows, w.op)
             ELSE UNCHANGED <<ops, rows>>
  /\ UNCHANGED <<installed, instance, revs, agents, setting>>

\* ApplyPluginMutation's fences
Unchanged(w) == installed.found /\ installed.v = w.v /\ installed.pend = w.op /\ Open(w.op)

Commit(w, next) ==
  /\ w.pc = "commit"
  /\ next = Idle
  /\ \/ /\ Unchanged(w)
        /\ installed' = CompletedPlugin(w.op, w.ok)
        /\ instance' = [j \in Instances |-> CompletedInstance(w.op, w.ok, w.inst, j)]
        /\ ops' = [ops EXCEPT ![w.op].status = IF w.ok THEN "succeeded" ELSE "failed"]
        /\ rows' = Authority(w.op, w.ok)
     \/ /\ ~Unchanged(w)
        /\ UNCHANGED <<installed, instance, ops, rows>>
  /\ UNCHANGED <<revs, agents, setting>>

(***************************************************************************)
(* The handler of a report.                                                *)
(***************************************************************************)
Reported(row) == row.state \in {"active", "drained", "failed"}
Listens(row) == row.slot \in {"pending", "active"}

\* RecordPluginAgentRuntimeReport of a failed or a drained runtime
Recorded(row, said) ==
  CASE said = "failed" /\ Listens(row) /\ ~Reported(row) -> [row EXCEPT !.state = "failed"]
    [] said = "drained" /\ Listens(row) /\ row.state = "draining" ->
         [row EXCEPT !.state = "drained", !.slot = "retired"]
    [] OTHER -> row

\* reconcilePluginRevisionReport: the rows of the operation that published
\* the reported revision
Expected ==
  /\ report.pc = "expected"
  /\ LET a == report.agent
         o == revs[a][report.rev].op
         mine == {i \in Instances : o /= 0 /\ rows[o][<<a, i>>].rev = report.rev}
         drains(i) == i \in mine /\ report.said = "drained" /\ Listens(rows[o][<<a, i>>])
                        /\ rows[o][<<a, i>>].state = "draining"
     IN  \/ /\ mine = {} \/ report.said = "applied"
            /\ IF mine = {} /\ o /= 0 /\ Open(o)
                 THEN Trusted(o, report')
                 ELSE report' = Idle
            /\ UNCHANGED rows
         \/ /\ mine /= {} /\ report.said /= "applied"
            /\ rows' = [q \in OpIds |-> [p \in Places |->
                 CASE p[1] = a /\ p[2] \in mine /\ q = o -> Recorded(rows[q][p], report.said)
                   [] p[1] = a /\ drains(p[2]) /\ q /= o /\ rows[q][p].slot = "active" ->
                        Retire(rows[q][p])
                   [] OTHER -> rows[q][p]]]
            /\ \E i \in mine : report' = [pc |-> "reconcile", op |-> o, inst |-> i]
  /\ UNCHANGED <<installed, instance, ops, revs, agents, tick, setting>>

\* A runtime status of the revision the agent runs, in a report or in a
\* heartbeat: Reconcile once the revision is applied
Status(a, i) ==
  /\ report.pc = "idle"
  /\ run[a] > 0
  /\ \E g \in revs[a][run[a]].gens :
       LET row == rows[g.op][<<a, i>>]
       IN  /\ g.inst = i
           /\ Listens(row)
           /\ <<row.rev, row.cfg, row.pkg>> = <<run[a], g.cfg, g.pkg>>
           /\ row.state /= up[<<a, i>>] \/ Open(g.op)
           /\ rows' = [rows EXCEPT ![g.op][<<a, i>>].state = up[<<a, i>>]]
           /\ report' = IF revs[a][run[a]].state = "applied"
                          THEN [pc |-> "reconcile", op |-> g.op, inst |-> i] ELSE Idle
  /\ UNCHANGED <<installed, instance, ops, revs, agents, tick, setting>>

RowsOf(o) == {p \in Places : rows[o][p] /= NoRow}

\* Mutant of AllReported: the first row that has reported decides.
SomeReported(o) == \E p \in RowsOf(o) : Reported(rows[o][p])

AllReported(o) == \A p \in RowsOf(o) : Reported(rows[o][p])

\* PluginLifecycleReconciler.Reconcile
Reconcile ==
  /\ report.pc = "reconcile"
  /\ LET o == report.op
     IN  IF Open(o) /\ AllReported(o)
           THEN \E ok \in Verdicts(\A p \in RowsOf(o) : rows[o][p].state /= "failed") :
                  report' = Decided(o, ops[o].rev, ok, report.inst, FALSE)
           ELSE report' = Idle
  /\ UNCHANGED <<db, agents, tick, setting>>

HandleReport ==
  \/ Expected
  \/ Reconcile
  \/ Load(report, report') /\ UNCHANGED tick
  \/ Commit(report, report') /\ UNCHANGED tick

(***************************************************************************)
(* The recovery pass: reconcileStartup of the revision reconciler, which   *)
(* runs at the start and on every tick.                                    *)
(***************************************************************************)
\* RecoverPendingPluginOperations
Tick ==
  /\ tick.pc = "idle"
  /\ installed.found
  /\ installed.pend /= 0
  /\ LET o == installed.pend
     IN  tick' = IF ops[o].kind = "configure"
                   THEN [pc |-> "superseded", op |-> o, rev |-> ops[o].rev, inst |-> Staging(o),
                         targets |-> UNION {instance[i].pTargets : i \in Staging(o)},
                         todo |-> UNION {instance[i].pTargets : i \in Staging(o)}]
                   ELSE [pc |-> "rows"]
  /\ UNCHANGED <<db, agents, report, setting>>

\* reconcileSupersededConfigure: a target whose desired revision is newer
\* than the operation's and carries its generation
SupersededTarget(a) ==
  /\ tick.pc = "superseded"
  /\ a \in tick.todo
  /\ LET r    == Desired(a)
         gens == revs[a][r].gens
         done == [tick EXCEPT !.todo = @ \ {a}]
     IN  IF r > tick.rev /\ \E g \in gens : g.op = tick.op /\ g.inst \in tick.inst
           THEN /\ IF Conflict(a, r, gens)
                     THEN UNCHANGED <<installed, ops, rows>>
                     ELSE Rebase({a}, [b \in Agents |-> r], [b \in Agents |-> gens])
                /\ tick' = IF Conflict(a, r, gens) THEN Idle ELSE done
           ELSE tick' = done /\ UNCHANGED <<installed, ops, rows>>
  /\ UNCHANGED <<instance, revs, agents, report, setting>>

\* The operation's revision of the target is superseded
LostTo(a, rev) == rev <= Desired(a) /\ revs[a][rev].state = "superseded"

SupersededVerdict ==
  /\ tick.pc = "superseded"
  /\ tick.todo = {}
  /\ tick' \in IF ops[tick.op].rev = tick.rev /\ \E a \in tick.targets : LostTo(a, tick.rev)
                 THEN {Decided(tick.op, tick.rev, FALSE, i, FALSE) : i \in tick.inst}
                 ELSE {[pc |-> "rows"]}
  /\ UNCHANGED <<db, agents, report, setting>>

\* reconcilePendingPluginOperation reads the rows, and without rows the
\* operation's revisions (completePendingOperationWithoutAgentRuntime)
ReadRows ==
  /\ tick.pc = "rows"
  /\ IF ~installed.found THEN tick' = Idle
     ELSE IF installed.pend = 0 THEN tick' = Idle
     ELSE LET o == installed.pend
          IN  IF RowsOf(o) = {} THEN Trusted(o, tick')
              ELSE tick' = [pc |-> "judge", op |-> o, rev |-> ops[o].rev, read |-> rows[o]]
  /\ UNCHANGED <<db, agents, report, setting>>

\* terminalPluginRuntimeStatus
RevisionState(p, row) == revs[p[1]][row.rev].state

Terminal(p, row) ==
  \/ RevisionState(p, row) \in {"failed", "superseded"}
  \/ RevisionState(p, row) = "applied" /\ Reported(row)

Succeeded(p, row) == RevisionState(p, row) = "applied" /\ row.state \in {"active", "drained"}

\* The rows read are judged by their revisions
Judge ==
  /\ tick.pc = "judge"
  /\ LET o    == tick.op
         on   == {p \in Places : tick.read[p] /= NoRow}
         ok   == \A p \in on : Succeeded(p, tick.read[p])
         kind == ops[o].kind
     IN  IF /\ \A p \in on : Terminal(p, tick.read[p])
            /\ kind = "configure" => Cardinality({p[2] : p \in on}) = 1
           THEN \E v \in IF kind \in {"upgrade", "rollback"} THEN Verdicts(ok) ELSE {ok}, p \in on :
                  tick' = Decided(o, tick.rev, v, p[2], FALSE)
           ELSE tick' = Idle
  /\ UNCHANGED <<db, agents, report, setting>>

Recover ==
  \/ Tick
  \/ \E a \in Agents : SupersededTarget(a)
  \/ SupersededVerdict
  \/ ReadRows
  \/ Judge
  \/ Load(tick, tick') /\ UNCHANGED report
  \/ Commit(tick, tick') /\ UNCHANGED report

\* Mutant of Orphans: operations of a plugin that is not installed are kept.
OrphansOfInstalled ==
  {o \in OpIds : /\ Open(o) /\ installed.found
                 /\ installed.found => installed.pend /= o
                 /\ \A i \in Present(instance) : instance[i].pOp /= o}

\* FailOrphanedPluginOperations, past the grace period
Orphans ==
  {o \in OpIds : /\ Open(o)
                 /\ installed.found => installed.pend /= o
                 /\ \A i \in Present(instance) : instance[i].pOp /= o}

FailOrphaned ==
  /\ Orphans /= {}
  /\ ops' = [o \in OpIds |-> IF o \in Orphans THEN [ops[o] EXCEPT !.status = "failed"] ELSE ops[o]]
  /\ rows' = [o \in OpIds |-> IF o \in Orphans THEN WithoutPending(rows, o)[o] ELSE rows[o]]
  /\ UNCHANGED <<installed, instance, revs, agents, tick, report, setting>>

User ==
  \/ Install
  \/ \E i \in setting.instances, T \in (SUBSET setting.agents) \ {{}}, publish \in BOOLEAN :
       Configure(i, T, publish)
  \/ Enable
  \/ Disable
  \/ \E p \in setting.packages : Upgrade(p)
  \/ Rollback
  \/ \E i \in setting.instances : DeleteInstance(i)
  \/ Uninstall

Agent(a) ==
  \/ Unrelated(a)
  \/ Supersede(a)
  \/ Run(a)
  \/ \E i \in Instances : Crash(a, i)
  \/ Applied(a)
  \/ Failed(a)
  \/ Drained(a)
  \/ \E i \in Instances : Status(a, i)

Next ==
  \/ User
  \/ \E a \in setting.agents : Agent(a)
  \/ HandleReport
  \/ Recover
  \/ FailOrphaned

Spec == Init /\ [][Next]_vars

\* Handlers and recovery passes return, recovery passes recur, agents take
\* up, apply, drain and report what they are given.  The reports share one
\* handler here, hence strong fairness.
Fairness ==
  /\ WF_vars(HandleReport)
  /\ WF_vars(Recover)
  /\ WF_vars(FailOrphaned)
  /\ \A a \in Agents : WF_vars(Supersede(a)) /\ WF_vars(Run(a))
  /\ SF_vars(\E a \in Agents : Applied(a) \/ Drained(a))
  /\ SF_vars(\E a \in Agents, i \in Instances : Status(a, i))

FairSpec == Spec /\ Fairness

(***************************************************************************)
(* Properties.                                                             *)
(***************************************************************************)
\* The types of the tables, and of the two handlers' program counters.
TypeOK ==
  /\ installed.found \in BOOLEAN
  /\ installed.found => /\ installed.active \in Packages
                        /\ {installed.staged, installed.rollback} \subseteq Packages \union {0}
                        /\ {installed.pend, installed.last} \subseteq OpIds \union {0}
                        /\ installed.pendRev \in 0 .. MaxRevs
  /\ \A i \in Present(instance) :
       /\ {instance[i].targets, instance[i].pTargets} \subseteq SUBSET Agents
       /\ {instance[i].cfg, instance[i].pCfg, instance[i].rbCfg, instance[i].pOp} \subseteq OpIds \union {0}
  /\ ops \in [OpIds -> [kind : {"none", "install", "configure", "enable", "disable", "upgrade",
                                "rollback", "delete_instance", "uninstall"},
                        status : {"none", "applying", "staged", "succeeded", "failed"},
                        rev : 0 .. MaxRevs]]
  /\ rows \in [OpIds -> [Places -> [slot : {"none", "pending", "active", "retired"},
                                    state : {"none", "applying", "active", "draining", "drained", "failed"},
                                    rev : 0 .. MaxRevs, cfg : OpIds \union {0}, pkg : Packages \union {0}]]]
  /\ \A a \in Agents : run[a] \in 0 .. Desired(a)
  /\ tick.pc \in {"idle", "superseded", "rows", "judge", "complete", "commit"}
  /\ report.pc \in {"idle", "expected", "reconcile", "complete", "commit"}

\* An uninstallation leaves no instance behind.  One that is retained keeps what
\* it has staged, and a plugin that is installed again knows nothing of it.
Reclaims == ~Retains \/ "uninstall" \notin Kinds

\* The plugin's pending plan is an open operation at the revision the
\* operation names, and a staged package belongs to a pending upgrade or
\* rollback, a staged configuration to the pending operation, as long as no
\* instance outlives the plugin: whatever completes, supersedes or rebases the one
\* does so to the other, and nothing is left to be promoted twice
\* (setPendingOperation, clearPendingOperation, clearStagedSource).
PendingIsOpen ==
  installed.found =>
    /\ installed.pend /= 0 =>
         /\ Open(installed.pend)
         /\ ops[installed.pend].rev = installed.pendRev
    /\ installed.pend = 0 => installed.pendRev = 0
    /\ installed.staged /= 0 <=>
         installed.pend /= 0 /\ ops[installed.pend].kind \in {"upgrade", "rollback"}
    /\ Reclaims => \A i \in Present(instance) :
                     instance[i].pOp /= 0 => instance[i].pOp = installed.pend

\* Nothing else publishes revisions for the agents.
OwnRevisions == "unrelated" \notin Kinds

\* The row names what the control plane has committed for its instance.
Committed(o, p) ==
  <<rows[o][p].cfg, rows[o][p].pkg>> = <<instance[p[2]].cfg, installed.active>>

\* A row takes authority in the step that commits what it names, and takes it
\* from every other row of its agent and its instance.
AuthorityTaken ==
  \A o \in OpIds, p \in Places :
    (rows[o][p].slot /= "active" /\ rows'[o][p].slot = "active") =>
      /\ installed'.found /\ instance'[p[2]].found
      /\ Committed(o, p)'
      /\ \A q \in OpIds \ {o} : rows'[q][p].slot /= "active"

\* A configuration that becomes the instance's own was staged by the operation
\* that was pending until then, which succeeds with it.
PromotedForCause ==
  \A i \in Instances :
    (instance[i].found /\ instance'[i].found /\ instance'[i].cfg /= instance[i].cfg) =>
      /\ installed.pend /= 0
      /\ instance[i].pOp = installed.pend
      /\ instance'[i].cfg = instance[i].pCfg
      /\ ops'[installed.pend].status = "succeeded"

\* Authority goes with what is committed: a row takes it from the one before it
\* in the very step that makes its configuration and its package the instance's
\* and the plugin's, and nothing is promoted that the pending operation has not
\* staged, although the row was written when the operation was published and the
\* plugin, the rows and the agents go on until a handler that has read them in
\* pieces commits (completePluginAgentRuntimeAuthorityTx, CompleteConfigure,
\* CompleteUpgrade).
AuthorityIsCommitted == [][AuthorityTaken /\ PromotedForCause]_vars

\* The operations that the reports of runtimes decide.
Kept == {"configure", "enable", "disable", "upgrade", "rollback"}

\* The operation has a reason to fail.
HasFailed(o) ==
  \/ \E p \in RowsOf(o) :
       rows[o][p].state = "failed" \/ RevisionState(p, rows[o][p]) \in {"failed", "superseded"}
  \/ \E x \in RevisionsOf(o) :
       x.state = "failed" \/ (RowsOf(o) = {} /\ x.state = "superseded")

\* What holds authority for an enabled instance on its agent is committed.
AuthorityAgrees ==
  \A o \in OpIds, p \in Places :
    (rows[o][p].slot = "active" /\ instance[p[2]].found /\ instance[p[2]].enabled
       /\ instance[p[2]].cfg /= 0 /\ p[1] \in instance[p[2]].targets) => Committed(o, p)

\* Nothing is decided too early.  On one agent whose revisions are all the
\* plugin's, an operation that runtimes decide succeeds only once every one of
\* them has reported, and leaves nothing in authority, as long as no runtime fails,
\* that is not committed.  One that is completed as failed has a runtime that
\* failed, or a revision that failed, or whose rows, or without rows whose own
\* revisions, were superseded, as long as nothing is refused.
EndsForCause ==
  [][/\ \A o \in OpIds :
          (OwnRevisions /\ Cardinality(setting.agents) = 1
             /\ ops'[o].kind \in Kept /\ ops'[o].status = "succeeded" /\ Open(o)) =>
            /\ (\A p \in RowsOf(o) : Reported(rows[o][p]))'
            /\ "crash" \notin Faults => AuthorityAgrees'
     /\ \A o \in OpIds :
          (OwnRevisions /\ "refuse" \notin Faults
             /\ installed.found /\ installed.pend = o /\ ops'[o].status = "failed" /\ Open(o)
             /\ installed'.found /\ installed'.pend = 0) => HasFailed(o)]_vars

\* An instance that outlived its plugin still names the operation as pending.
HeldByRetained(o) ==
  /\ installed.found => installed.pend /= o
  /\ \E i \in Present(instance) : instance[i].pOp = o

\* Every operation of a plugin with one instance on one agent ends that does
\* not wait for a drain: it is completed by reports or by the recovery pass, or
\* given up after an uninstallation, unless that retained the instance: as long as
\* the instance keeps its pending mark, the operation stays open (Uninstall,
\* FailOrphanedPluginOperations).
OperationsEnd ==
  []<>("disable" \notin Kinds /\ Cardinality(setting.agents) = 1
         /\ Cardinality(setting.instances) = 1 =>
           \A o \in OpIds : Open(o) => HeldByRetained(o))
=============================================================================
