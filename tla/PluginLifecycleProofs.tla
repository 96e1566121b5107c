------------------------ MODULE PluginLifecycleProofs ------------------------
(***************************************************************************)
(* Proofs about the lifecycle of a plugin, for every set of agents,        *)
(* instances and packages, every setting and every bound.                  *)
(***************************************************************************)
EXTENDS PluginLifecycle, FiniteSetTheorems, SequenceTheorems, WellFoundedInduction, TLAPS

(***************************************************************************)
(* The inductive invariant                                                 *)
(***************************************************************************)
\* The tables, by the type of an entry.
Numbers == OpIds \union {0}
AnyPackage == Packages \union {0}
Revs == 0 .. MaxRevs

Plugin ==
  [found : {TRUE}, v : Nat, active : Packages, staged : AnyPackage, rollback : AnyPackage,
   desired : {"enabled", "disabled"},
   current : {"disabled", "active", "applying", "degraded", "upgrading", "rolling_back"},
   pend : Numbers, pendRev : Revs, last : OpIds]

Instance ==
  [found : {TRUE}, cfg : Numbers, targets : SUBSET Agents, pOp : Numbers, pCfg : Numbers,
   pTargets : SUBSET Agents, rbCfg : Numbers, enabled : BOOLEAN, published : BOOLEAN]

Operation ==
  [kind : {"none", "install", "configure", "enable", "disable", "upgrade", "rollback",
           "delete_instance", "uninstall"},
   status : {"none", "applying", "staged", "succeeded", "failed"},
   rev : Revs]

Gen == [inst : Instances, op : OpIds, cfg : Numbers, pkg : AnyPackage]

Revision ==
  [op : Numbers, state : {"pending", "applied", "failed", "superseded"},
   drain : {"none", "draining", "drained"}, gens : SUBSET Gen]

Row ==
  [slot : {"none", "pending", "active", "retired"},
   state : {"none", "applying", "active", "draining", "drained", "failed"},
   rev : Revs, cfg : Numbers, pkg : AnyPackage]

\* The plugin, its instances and its operations.
PlanTypeInv ==
  /\ setting \in Settings
  /\ installed = NoPlugin \/ installed \in Plugin
  /\ instance \in [Instances -> {NoInstance} \union Instance]
  /\ ops \in [OpIds -> Operation]

\* The agents and what the control plane holds of them.
AgentTypeInv ==
  /\ rows \in [OpIds -> [Places -> Row]]
  /\ revs \in [Agents -> Seq(Revision)]
  /\ \A a \in Agents : Len(revs[a]) <= MaxRevs /\ run[a] \in 0 .. Len(revs[a])
  /\ up \in [Places -> {"active", "failed"}]

\* What a handler holds names an operation and instances.
Fits(w) ==
  /\ w.pc \in {"complete", "commit", "reconcile"} => w.op \in OpIds /\ w.inst \in Instances
  /\ w.pc \in {"complete", "commit"} => w.ok \in BOOLEAN
  /\ w.pc = "judge" => w.op \in OpIds
  /\ w.pc = "superseded" =>
       w \in [pc : {"superseded"}, op : OpIds, rev : Revs, inst : SUBSET Instances,
              targets : SUBSET Agents, todo : SUBSET Agents]

HandlerTypeInv ==
  /\ Fits(tick) /\ Fits(report)
  /\ tick.pc \in {"idle", "superseded", "rows", "judge", "complete", "commit"}
  /\ report.pc \in {"idle", "expected", "reconcile", "complete", "commit"}
  /\ report.pc = "expected" =>
       report.agent \in Agents /\ report.rev \in 1 .. Len(revs[report.agent])

\* The plan of an installed plugin is an open operation.
PlanInv ==
  installed.found =>
    /\ installed.pend /= 0 =>
         /\ Open(installed.pend)
         /\ ops[installed.pend].rev = installed.pendRev
         /\ ops[installed.pend].kind \in Kept
    /\ installed.pend = 0 => installed.pendRev = 0
    /\ installed.staged /= 0 <=>
         installed.pend /= 0 /\ ops[installed.pend].kind \in {"upgrade", "rollback"}

\* What an instance has staged is the plan of the plugin: a configuration is
\* staged by one instance, and a plugin that is switched on or off has nothing
\* staged.
StagedInv ==
  Reclaims =>
    /\ "uninstall" \notin Kinds => installed.found
    /\ \A i \in Present(instance) :
         instance[i].pOp /= 0 =>
           /\ installed.found /\ installed.pend = instance[i].pOp
           /\ ops[installed.pend].kind \in {"configure", "upgrade", "rollback"}
           /\ ops[installed.pend].kind = "configure" =>
                \A j \in Present(instance) : instance[j].pOp /= 0 => j = i

\* What operation o is about to promote is staged for it, instance i first.
StagedFor(o, i) ==
  /\ ops[o].kind = "configure" => instance[i].found /\ instance[i].pOp = o
  /\ ops[o].kind \in {"upgrade", "rollback"} =>
       \A j \in Present(instance) : instance[j].pOp = o

\* The plugin a handler is about to change is as it has read it.
Committing(w) ==
  w.pc = "commit" =>
    /\ ops[w.op] /= NoOp
    /\ installed.found /\ installed.pend = w.op => StagedFor(w.op, w.inst)

CommitInv == Committing(tick) /\ Committing(report)

LifecycleInv ==
  /\ PlanTypeInv
  /\ AgentTypeInv
  /\ HandlerTypeInv
  /\ PlanInv
  /\ StagedInv
  /\ CommitInv

(***************************************************************************)
(* Helpers                                                                 *)
(***************************************************************************)
\* A set of naturals that is not empty has a least element.
LEMMA LeastOf ==
  ASSUME NEW S \in SUBSET Nat, S # {}
  PROVE  \E x \in S : \A y \in S : x <= y
<1>1. PICK x \in S : \A y \in S : ~(<<y, x>> \in OpToRel(<, Nat))
  BY NatLessThanWellFounded, WFMin
<1>2. \A y \in S : ~(y < x)
  BY <1>1 DEF OpToRel
<1> QED BY <1>2

\* The minimum of such a set.
LEMMA MinOf ==
  ASSUME NEW S \in SUBSET Nat, S # {}
  PROVE  Min(S) \in S /\ \A y \in S : Min(S) <= y
BY LeastOf, Zenon DEF Min

\* The maximum of a bounded set of naturals.
LEMMA MaxOf ==
  ASSUME NEW n \in Nat, NEW S \in SUBSET (0 .. n), S # {}
  PROVE  Max(S) \in S /\ \A y \in S : Max(S) >= y
<1>1. \E x \in S : \A y \in S : x >= y
  <2> DEFINE D == {n - y : y \in S}
  <2>1. D \in SUBSET Nat /\ D # {}
    <3>1. \A y \in S : y \in 0 .. n /\ n - y \in Nat
      OBVIOUS
    <3> QED BY <3>1
  <2>2. PICK d \in D : \A e \in D : d <= e
    BY <2>1, LeastOf
  <2>3. PICK x \in S : d = n - x
    BY <2>2
  <2>4. \A y \in S : x >= y
    BY <2>2, <2>3
  <2> QED BY <2>3, <2>4
<1> QED BY <1>1, Zenon DEF Max

\* What the setting says, by type.
LEMMA SettingIs ==
  ASSUME PlanTypeInv
  PROVE  /\ setting.agents \subseteq Agents /\ setting.instances \subseteq Instances
         /\ setting.packages \subseteq Packages /\ setting.rpc \in BOOLEAN
         /\ First \in [Agents -> Revs]
         /\ setting.ops \in 1 .. MaxOps /\ setting.revs \in 1 .. MaxRevs
         /\ MaxOps \in Nat /\ MaxRevs \in Nat
BY BoundsAssumption DEF PlanTypeInv, Setting, First, Revs

\* The operation of a mutation is a new one.
LEMMA NextOpIs ==
  ASSUME Unused # {}
  PROVE  NextOp \in OpIds /\ ops[NextOp] = NoOp
<1>1. Unused \in SUBSET Nat
  BY BoundsAssumption DEF Unused, OpIds
<1> QED BY <1>1, MinOf DEF NextOp, Unused

\* A plugin that is found is one.
LEMMA PluginIs ==
  ASSUME PlanTypeInv, installed.found
  PROVE  installed \in Plugin
BY DEF PlanTypeInv, NoPlugin

\* An instance that is found is one.
LEMMA InstanceIs ==
  ASSUME PlanTypeInv, NEW i \in Instances
  PROVE  /\ instance[i].found => instance[i] \in Instance
         /\ ~instance[i].found => instance[i] = NoInstance
<1>1. instance[i] = NoInstance \/ instance[i] \in Instance
  BY Zenon DEF PlanTypeInv
<1>2. ~NoInstance.found /\ \A x \in Instance : x.found
  BY DEF NoInstance, Instance
<1> QED BY <1>1, <1>2, Zenon

(***************************************************************************)
(* What a mutation changes                                                 *)
(***************************************************************************)
\* The values an instance may have.
AnyInstances == [Instances -> {NoInstance} \union Instance]

\* The plugin after a mutation.
MutatedPlugin(o, target, plugin) ==
  [plugin EXCEPT !.v = @ + 1, !.last = o,
                 !.pendRev = IF plugin.pend = o THEN target ELSE 0]

\* The operations after a mutation.
MutatedOps(o, kind, status, over, target) ==
  [q \in OpIds |->
     CASE q = o -> [kind |-> kind, status |-> status, rev |-> target]
       [] q = over /\ q /= o /\ Open(q) -> [ops[q] EXCEPT !.status = "failed"]
       [] OTHER -> ops[q]]

\* The plugin after a mutation, by its parts.
LEMMA MutatedPluginIs ==
  ASSUME NEW o \in OpIds, NEW target \in Revs, NEW plugin \in Plugin,
         NEW p, p = MutatedPlugin(o, target, plugin)
  PROVE  /\ p \in Plugin /\ p.found
         /\ p.pend = plugin.pend /\ p.staged = plugin.staged
         /\ p.pendRev = IF plugin.pend = o THEN target ELSE 0
<1>1. PICK rev : rev = IF plugin.pend = o THEN target ELSE 0
  OBVIOUS
<1>2. rev \in Revs
  BY <1>1, BoundsAssumption DEF Revs
<1>3. PICK v \in Nat : v = plugin.v + 1
  <2>1. plugin.v \in Nat
    BY DEF Plugin
  <2> QED BY <2>1
<1> PICK x : x = [plugin EXCEPT !.v = v]
  OBVIOUS
<1>4. x \in Plugin /\ x.pend = plugin.pend /\ x.staged = plugin.staged
  BY DEF Plugin
<1>5. PICK y : y = [x EXCEPT !.last = o]
  OBVIOUS
<1>6. y \in Plugin /\ y.pend = plugin.pend /\ y.staged = plugin.staged
  BY <1>4, <1>5 DEF Plugin
<1>7. p = [y EXCEPT !.pendRev = rev]
  BY <1>1, <1>3, <1>5, Zenon DEF MutatedPlugin
<1>8. p \in Plugin /\ p.pend = plugin.pend /\ p.staged = plugin.staged /\ p.pendRev = rev
  BY <1>2, <1>6, <1>7 DEF Plugin
<1>9. p.found
  BY <1>8 DEF Plugin
<1> QED BY <1>1, <1>8, <1>9

\* The operations after a mutation, by their parts.
LEMMA MutatedOpsAre ==
  ASSUME ops \in [OpIds -> Operation], NEW o \in OpIds, NEW target \in Revs, NEW over,
         NEW kind \in {"install", "configure", "enable", "disable", "upgrade", "rollback",
                       "delete_instance", "uninstall"},
         NEW status \in {"applying", "staged", "succeeded"},
         NEW t, t = MutatedOps(o, kind, status, over, target)
  PROVE  /\ t \in [OpIds -> Operation]
         /\ t[o].kind = kind /\ t[o].status = status /\ t[o].rev = target
         /\ t[o] # NoOp
         /\ \A q \in OpIds \ {o} :
              /\ t[q].kind = ops[q].kind
              /\ ops[q] # NoOp => t[q] # NoOp
<1>1. [kind |-> kind, status |-> status, rev |-> target] \in Operation
  BY DEF Operation
<1>2. \A q \in OpIds : [ops[q] EXCEPT !.status = "failed"] \in Operation
  BY DEF Operation
<1>3. /\ t[o] = [kind |-> kind, status |-> status, rev |-> target]
      /\ \A q \in OpIds \ {o} : t[q] \in {ops[q], [ops[q] EXCEPT !.status = "failed"]}
  BY DEF MutatedOps
<1>4. t \in [OpIds -> Operation]
  <2>1. \A q \in OpIds : t[q] \in Operation
    BY <1>1, <1>2, <1>3
  <2> QED BY <2>1, Zenon DEF MutatedOps
<1>5. t[o].kind = kind /\ t[o].status = status /\ t[o].rev = target /\ t[o] # NoOp
  BY <1>3 DEF NoOp
<1>6. ASSUME NEW q \in OpIds \ {o}
      PROVE  t[q].kind = ops[q].kind /\ (ops[q] # NoOp => t[q] # NoOp)
  <2>1. ops[q] \in Operation
    OBVIOUS
  <2>2. CASE t[q] = ops[q]
    BY <2>2
  <2>3. CASE t[q] = [ops[q] EXCEPT !.status = "failed"]
    BY <2>1, <2>3 DEF Operation, NoOp
  <2> QED BY <1>3, <2>2, <2>3
<1> QED BY <1>4, <1>5, <1>6

\* The revision a mutation addresses its agents with.
LEMMA TargetIs ==
  ASSUME PlanTypeInv, AgentTypeInv, NEW T \in SUBSET Agents, T # {},
         \A a \in T : Desired(a) < setting.revs,
         NEW target, target = Max({[b \in Agents |-> Desired(b) + 1][a] : a \in T})
  PROVE  target \in Revs
<1>1. \A a \in T : Desired(a) + 1 \in 0 .. MaxRevs
  BY SettingIs DEF AgentTypeInv, Desired
<1>2. {[b \in Agents |-> Desired(b) + 1][a] : a \in T} \in SUBSET (0 .. MaxRevs)
  BY <1>1
<1>3. {[b \in Agents |-> Desired(b) + 1][a] : a \in T} # {}
  OBVIOUS
<1> QED BY <1>2, <1>3, MaxOf, BoundsAssumption DEF Revs

\* What a mutation makes of the plugin, its instances and its operations.
LEMMA MutateIs ==
  ASSUME PlanTypeInv, AgentTypeInv, NEW o, NEW T \in SUBSET Agents, T # {},
         NEW kind, NEW status, NEW over, NEW plugin, NEW insts,
         Mutate(o, T, kind, status, over, plugin, insts)
  PROVE  /\ \E target \in Revs :
              /\ installed' = MutatedPlugin(o, target, plugin)
              /\ ops' = MutatedOps(o, kind, status, over, target)
         /\ instance' = insts
         /\ UNCHANGED <<run, up, tick, report, setting>>
<1>1. PICK target : target = Max({[b \in Agents |-> Desired(b) + 1][a] : a \in T})
  OBVIOUS
<1>2. \A a \in T : Desired(a) < setting.revs
  BY Zenon DEF Mutate
<1>3. target \in Revs
  BY <1>1, <1>2, TargetIs
<1>4. /\ installed' = MutatedPlugin(o, target, plugin)
      /\ ops' = MutatedOps(o, kind, status, over, target)
  BY <1>1, Zenon DEF Mutate, MutatedPlugin, MutatedOps
<1>5. instance' = insts /\ UNCHANGED <<run, up, tick, report, setting>>
  BY Zenon DEF Mutate
<1> QED BY <1>3, <1>4, <1>5

(***************************************************************************)
(* How a step may change the plan                                          *)
(***************************************************************************)
\* No operation is forgotten, and a plan that stays is carried by the same
\* instances.
PlanStays ==
  \A q \in OpIds : ops[q] # NoOp =>
    /\ ops'[q] # NoOp /\ ops'[q].kind = ops[q].kind
    /\ installed'.found /\ installed'.pend = q =>
         installed.found /\ installed.pend = q /\ instance' = instance

\* A handler that is about to commit may go on after such a step.
LEMMA CommittingStays ==
  ASSUME NEW w, Fits(w), Committing(w), PlanStays, setting' = setting
  PROVE  Committing(w)'
<1> SUFFICES ASSUME w.pc = "commit"
             PROVE  /\ ops'[w.op] # NoOp
                    /\ installed'.found /\ installed'.pend = w.op => StagedFor(w.op, w.inst)'
  BY Zenon DEF Committing, StagedFor
<1>1. w.op \in OpIds /\ ops[w.op] # NoOp
  BY Zenon DEF Fits, Committing
<1>2. ops'[w.op] # NoOp /\ ops'[w.op].kind = ops[w.op].kind
  BY <1>1, Zenon DEF PlanStays
<1>3. ASSUME installed'.found, installed'.pend = w.op
      PROVE  StagedFor(w.op, w.inst)'
  <2>1. installed.found /\ installed.pend = w.op /\ instance' = instance
    BY <1>1, <1>3, Zenon DEF PlanStays
  <2>2. StagedFor(w.op, w.inst)
    BY <2>1, Zenon DEF Committing
  <2> QED BY <1>2, <2>1, <2>2, Zenon DEF StagedFor, Present
<1> QED BY <1>2, <1>3

\* So may both, when they do nothing themselves.
LEMMA CommitStays ==
  ASSUME HandlerTypeInv, CommitInv, PlanStays, UNCHANGED <<tick, report, setting>>
  PROVE  CommitInv'
<1>1. PICK w : w = tick
  OBVIOUS
<1>2. PICK x : x = report
  OBVIOUS
<1>3. Fits(w) /\ Fits(x) /\ Committing(w) /\ Committing(x)
  BY <1>1, <1>2, Zenon DEF HandlerTypeInv, CommitInv
<1>4. Committing(w)' /\ Committing(x)'
  BY <1>3, CommittingStays
<1>5. tick' = w /\ report' = x
  BY <1>1, <1>2
<1> QED BY <1>4, <1>5, Zenon DEF CommitInv, Committing

\* What the instances may have staged for the operation o of a kind.
StagesFor(insts, o, kind) ==
  \A i \in Present(insts) : insts[i].pOp # 0 =>
    /\ insts[i].pOp = o
    /\ kind \in {"configure", "upgrade", "rollback"}
    /\ kind = "configure" => \A j \in Present(insts) : insts[j].pOp # 0 => j = i

\* A mutation that plans itself, or nothing, keeps the invariant of the plan.
LEMMA MutationKeeps ==
  ASSUME LifecycleInv, Unused # {}, installed.found,
         NEW T \in SUBSET Agents, T # {},
         NEW kind \in {"install", "configure", "enable", "disable", "upgrade", "rollback",
                       "delete_instance", "uninstall"},
         NEW status \in {"applying", "staged", "succeeded"}, NEW over,
         NEW plugin \in Plugin, NEW insts \in AnyInstances,
         Mutate(NextOp, T, kind, status, over, plugin, insts),
         plugin.pend \in {0, NextOp},
         plugin.pend = 0 => plugin.staged = 0,
         plugin.pend = NextOp =>
           /\ status \in {"applying", "staged"} /\ kind \in Kept
           /\ plugin.staged # 0 <=> kind \in {"upgrade", "rollback"},
         Reclaims => StagesFor(insts, plugin.pend, kind)
  PROVE  PlanTypeInv' /\ PlanInv' /\ StagedInv' /\ CommitInv'
<1> PICK o : o = NextOp
  OBVIOUS
<1>1. o \in OpIds /\ ops[o] = NoOp /\ o # 0
  BY NextOpIs, BoundsAssumption DEF OpIds
<1>13. PlanTypeInv /\ AgentTypeInv /\ Mutate(o, T, kind, status, over, plugin, insts)
  BY Zenon DEF LifecycleInv
<1>2. PICK target \in Revs :
        /\ installed' = MutatedPlugin(o, target, plugin)
        /\ ops' = MutatedOps(o, kind, status, over, target)
  BY <1>13, MutateIs
<1>3. instance' = insts /\ UNCHANGED <<run, up, tick, report, setting>>
  BY <1>13, MutateIs
<1>4. ops \in [OpIds -> Operation]
  BY Zenon DEF LifecycleInv, PlanTypeInv
<1>5. /\ installed' \in Plugin /\ installed'.found
      /\ installed'.pend = plugin.pend /\ installed'.staged = plugin.staged
      /\ installed'.pendRev = IF plugin.pend = o THEN target ELSE 0
  BY <1>1, <1>2, MutatedPluginIs
<1>6. /\ ops' \in [OpIds -> Operation]
      /\ ops'[o].kind = kind /\ ops'[o].status = status /\ ops'[o].rev = target
      /\ \A q \in OpIds \ {o} : /\ ops'[q].kind = ops[q].kind
                                /\ ops[q] # NoOp => ops'[q] # NoOp
  BY <1>1, <1>2, <1>4, MutatedOpsAre, SMTT(60)
<1>7. PlanTypeInv'
  BY <1>3, <1>5, <1>6, Zenon DEF LifecycleInv, PlanTypeInv, AnyInstances
<1>8. plugin.pend \in {0, o}
  OBVIOUS
<1>9. PlanInv'
  <2>1. CASE plugin.pend = o
    <3>1. Open(o)'
      BY <1>6, <2>1 DEF Open
    <3> QED BY <1>1, <1>5, <1>6, <2>1, <3>1, Zenon DEF PlanInv
  <2>2. CASE plugin.pend = 0
    BY <1>1, <1>5, <2>2, Zenon DEF PlanInv
  <2> QED BY <1>8, <2>1, <2>2
<1>10. StagedInv'
  <2> SUFFICES ASSUME Reclaims'
               PROVE  /\ "uninstall" \notin Kinds' => installed'.found
                      /\ \A i \in Present(insts) :
                           insts[i].pOp # 0 =>
                             /\ installed'.found /\ installed'.pend = insts[i].pOp
                             /\ ops'[installed'.pend].kind \in {"configure", "upgrade", "rollback"}
                             /\ ops'[installed'.pend].kind = "configure" =>
                                  \A j \in Present(insts) : insts[j].pOp # 0 => j = i
    BY <1>3, Zenon DEF StagedInv
  <2>1. StagesFor(insts, plugin.pend, kind)
    BY <1>3, Zenon DEF Reclaims, Retains, Kinds
  <2>2. ASSUME NEW i \in Present(insts), insts[i].pOp # 0
        PROVE  /\ installed'.pend = insts[i].pOp
               /\ ops'[installed'.pend].kind \in {"configure", "upgrade", "rollback"}
               /\ ops'[installed'.pend].kind = "configure" =>
                    \A j \in Present(insts) : insts[j].pOp # 0 => j = i
    <3>1. plugin.pend = o
      BY <1>8, <2>1, <2>2, Zenon DEF StagesFor
    <3> QED BY <1>5, <1>6, <2>1, <2>2, <3>1, Zenon DEF StagesFor
  <2> QED BY <1>5, <2>2, Zenon
<1>11. PlanStays
  <2> SUFFICES ASSUME NEW q \in OpIds, ops[q] # NoOp
               PROVE  /\ ops'[q] # NoOp /\ ops'[q].kind = ops[q].kind
                      /\ installed'.pend # q
    BY Zenon DEF PlanStays
  <2>1. q # o /\ q # 0
    BY <1>1, BoundsAssumption DEF OpIds
  <2> QED BY <1>5, <1>6, <1>8, <2>1, Zenon
<1>12. CommitInv'
  BY <1>3, <1>11, CommitStays, Zenon DEF LifecycleInv
<1> QED BY <1>7, <1>9, <1>10, <1>12

(***************************************************************************)
(* What a mutation publishes                                               *)
(***************************************************************************)
\* The rows of the runtime statuses, and the snapshots of the agents.
AnyRows == [OpIds -> [Places -> Row]]

\* The generation of an instance.
LEMMA GenerationIs ==
  ASSUME NEW plugin \in Plugin, NEW x \in Instance, NEW i \in Instances
  PROVE  Generation(plugin, x, i) \in Gen
<1>1. PICK o : o = IF plugin.pend /= 0 THEN plugin.pend ELSE plugin.last
  OBVIOUS
<1>2. PICK c : c = IF Staged(plugin, x) THEN x.pCfg ELSE x.cfg
  OBVIOUS
<1>3. PICK p : p = IF plugin.pend /= 0 /\ plugin.staged /= 0 THEN plugin.staged ELSE plugin.active
  OBVIOUS
<1>4. o \in OpIds
  BY <1>1 DEF Plugin, Numbers
<1>5. c \in Numbers
  BY <1>2 DEF Instance
<1>6. p \in AnyPackage
  BY <1>3 DEF Plugin, AnyPackage
<1>7. Generation(plugin, x, i) = [inst |-> i, op |-> o, cfg |-> c, pkg |-> p]
  BY <1>1, <1>2, <1>3, Zenon DEF Generation
<1> QED BY <1>4, <1>5, <1>6, <1>7 DEF Gen

\* What an agent's snapshot carries.
LEMMA BuiltIs ==
  ASSUME NEW plugin, plugin = NoPlugin \/ plugin \in Plugin,
         NEW insts \in AnyInstances, NEW a
  PROVE  Built(plugin, insts, a) \in SUBSET Gen
<1>1. CASE plugin.found
  <2>1. plugin \in Plugin
    BY <1>1 DEF NoPlugin
  <2>2. ASSUME NEW i \in Instances, Runs(plugin, insts[i], a)
        PROVE  Generation(plugin, insts[i], i) \in Gen
    <3>1. insts[i].found
      BY <2>2, Zenon DEF Runs
    <3>2. insts[i] = NoInstance \/ insts[i] \in Instance
      BY Zenon DEF AnyInstances
    <3>3. insts[i] \in Instance
      BY <3>1, <3>2 DEF NoInstance
    <3> QED BY <2>1, <3>3, GenerationIs
  <2> QED BY <2>2, Zenon DEF Built
<1>2. CASE ~plugin.found
  BY <1>2, Zenon DEF Built
<1> QED BY <1>1, <1>2

\* A member of a set that is not empty.
LEMMA SomeIs ==
  ASSUME NEW S, S # {}
  PROVE  (CHOOSE g \in S : TRUE) \in S
BY Zenon

\* The row of an instance that runs the generations `now` and has run `was`.
EntryFor(rev, now, was) ==
  LET row(g, s) == [slot |-> "pending", state |-> s, rev |-> rev, cfg |-> g.cfg, pkg |-> g.pkg]
  IN  CASE now /= {} -> row(CHOOSE g \in now : TRUE, "applying")
        [] now = {} /\ was /= {} -> row(CHOOSE g \in was : TRUE, "draining")
        [] OTHER -> NoRow

\* Such a row is one.
LEMMA EntryIs ==
  ASSUME NEW now \in SUBSET Gen, NEW was \in SUBSET Gen,
         NEW rev, rev \in Revs \/ (now = {} /\ was = {})
  PROVE  EntryFor(rev, now, was) \in Row
<1> DEFINE row(g, s) == [slot |-> "pending", state |-> s, rev |-> rev, cfg |-> g.cfg, pkg |-> g.pkg]
<1>1. PICK g : g = CHOOSE h \in now : TRUE
  OBVIOUS
<1>2. PICK k : k = CHOOSE h \in was : TRUE
  OBVIOUS
<1>3. ASSUME NEW h \in Gen, NEW s \in {"applying", "draining"}, rev \in Revs
      PROVE  row(h, s) \in Row
  BY <1>3 DEF Row, Gen
<1>4. CASE now # {}
  <2>1. g \in Gen
    BY <1>1, <1>4, SomeIs, Zenon
  <2>2. EntryFor(rev, now, was) = row(g, "applying")
    BY <1>1, <1>4, Zenon DEF EntryFor
  <2>3. rev \in Revs
    BY <1>4
  <2>4. row(g, "applying") \in Row
    BY <1>3, <2>1, <2>3
  <2> QED BY <2>2, <2>4, Zenon
<1>5. CASE now = {} /\ was # {}
  <2>1. k \in Gen
    BY <1>2, <1>5, SomeIs, Zenon
  <2>2. EntryFor(rev, now, was) = row(k, "draining")
    BY <1>2, <1>5, Zenon DEF EntryFor
  <2>3. rev \in Revs
    BY <1>5
  <2>4. row(k, "draining") \in Row
    BY <1>3, <2>1, <2>3
  <2> QED BY <2>2, <2>4, Zenon
<1>6. CASE now = {} /\ was = {}
  <2>1. EntryFor(rev, now, was) = NoRow
    BY <1>6, SMT DEF EntryFor
  <2>2. NoRow \in Row
    BY BoundsAssumption DEF NoRow, Row, Revs, Numbers, AnyPackage
  <2> QED BY <2>1, <2>2
<1> QED BY <1>4, <1>5, <1>6

\* The rows a mutation stages for its agents.
LEMMA StagedRowIs ==
  ASSUME NEW o, NEW r, NEW before \in [Agents -> SUBSET Gen], NEW after \in [Agents -> SUBSET Gen],
         \A a \in Agents : r[a] \in Revs \/ (before[a] = {} /\ after[a] = {})
  PROVE  StagedRow(o, r, before, after) \in [Places -> Row]
<1> DEFINE entry(p) == EntryFor(r[p[1]], {g \in after[p[1]] : g.inst = p[2]},
                                {g \in before[p[1]] : g.inst = p[2]})
<1>1. StagedRow(o, r, before, after) = [p \in Places |-> entry(p)]
  BY Zenon DEF StagedRow, EntryFor
<1>2. ASSUME NEW p \in Places
      PROVE  entry(p) \in Row
  <2>1. PICK now : now = {g \in after[p[1]] : g.inst = p[2]}
    OBVIOUS
  <2>2. PICK was : was = {g \in before[p[1]] : g.inst = p[2]}
    OBVIOUS
  <2>3. p[1] \in Agents /\ now \in SUBSET Gen /\ was \in SUBSET Gen
    BY <2>1, <2>2 DEF Places
  <2>4. r[p[1]] \in Revs \/ (now = {} /\ was = {})
    BY <2>1, <2>2, <2>3
  <2>5. EntryFor(r[p[1]], now, was) \in Row
    BY <2>3, <2>4, EntryIs
  <2> QED BY <2>1, <2>2, <2>5, Zenon
<1> QED BY <1>1, <1>2, Zenon

\* A row that is retired is a row.
LEMMA RetireIs ==
  ASSUME NEW row \in Row
  PROVE  Retire(row) \in Row
BY DEF Row, Retire

\* The rows after a mutation.
LEMMA WithStagedIs ==
  ASSUME NEW table \in AnyRows, NEW o, NEW T, NEW staged \in [Places -> Row]
  PROVE  WithStaged(table, o, T, staged) \in AnyRows
<1>1. ASSUME NEW q \in OpIds, NEW p \in Places
      PROVE  WithStaged(table, o, T, staged)[q][p] \in Row
  <2>1. table[q][p] \in Row /\ staged[p] \in Row
    BY Zenon DEF AnyRows
  <2>2. Retire(table[q][p]) \in Row
    BY <2>1, RetireIs
  <2>3. WithStaged(table, o, T, staged)[q][p] \in {table[q][p], staged[p], Retire(table[q][p])}
    BY DEF WithStaged
  <2> QED BY <2>1, <2>2, <2>3
<1>2. WithStaged(table, o, T, staged) =
        [q \in OpIds |-> [p \in Places |-> WithStaged(table, o, T, staged)[q][p]]]
  BY DEF WithStaged
<1> QED BY <1>1, <1>2 DEF AnyRows

\* The rows once an operation is superseded.
LEMMA WithoutPendingIs ==
  ASSUME NEW table \in AnyRows, NEW o
  PROVE  WithoutPending(table, o) \in AnyRows
<1>1. PICK f : f = [p \in Places |-> IF table[o][p].slot = "pending"
                                        THEN Retire(table[o][p]) ELSE table[o][p]]
  OBVIOUS
<1>2. WithoutPending(table, o) = [table EXCEPT ![o] = f]
  BY <1>1, Zenon DEF WithoutPending
<1>3. ASSUME o \in OpIds
      PROVE  f \in [Places -> Row]
  <2>1. ASSUME NEW p \in Places
        PROVE  f[p] \in Row
    <3>1. table[o][p] \in Row
      BY <1>3, Zenon DEF AnyRows
    <3>2. Retire(table[o][p]) \in Row
      BY <3>1, RetireIs
    <3> QED BY <1>1, <3>1, <3>2
  <2> QED BY <1>1, <2>1, Zenon
<1> QED BY <1>2, <1>3, Zenon DEF AnyRows

\* A revision is appended.
LEMMA AppendedIs ==
  ASSUME NEW s \in Seq(Revision), NEW o \in Numbers, NEW gens \in SUBSET Gen
  PROVE  /\ Append(s, NewRevision(o, gens)) \in Seq(Revision)
         /\ Len(Append(s, NewRevision(o, gens))) = Len(s) + 1
<1>1. PICK x : x = NewRevision(o, gens)
  OBVIOUS
<1>2. x \in Revision
  BY <1>1 DEF NewRevision, Revision
<1>3. Append(s, x) \in Seq(Revision) /\ Len(Append(s, x)) = Len(s) + 1
  BY <1>2
<1> QED BY <1>1, <1>3, Zenon

\* A handler that does nothing still fits what the agents have, as long as no
\* revision is taken back.
LEMMA HandlersStay ==
  ASSUME HandlerTypeInv, AgentTypeInv, AgentTypeInv', UNCHANGED <<tick, report>>,
         \A a \in Agents : Len(revs[a]) <= Len(revs'[a])
  PROVE  HandlerTypeInv'
<1>1. \A a \in Agents : Len(revs[a]) \in Nat /\ Len(revs'[a]) \in Nat
  BY DEF AgentTypeInv
<1>2. \A a \in Agents : \A n \in 1 .. Len(revs[a]) : n \in 1 .. Len(revs'[a])
  BY <1>1
<1> QED BY <1>2, Zenon DEF HandlerTypeInv, Fits

\* A mutation keeps the types of the rows and of the revisions.
LEMMA MutatePublishes ==
  ASSUME PlanTypeInv, AgentTypeInv, NEW o \in OpIds, NEW T \in SUBSET Agents, T # {},
         NEW kind, NEW status, NEW over, NEW plugin \in Plugin, NEW insts \in AnyInstances,
         Mutate(o, T, kind, status, over, plugin, insts)
  PROVE  AgentTypeInv' /\ \A a \in Agents : Len(revs[a]) <= Len(revs'[a])
<1>1. PICK r : r = [a \in Agents |-> Desired(a) + 1]
  OBVIOUS
<1>2. PICK before : before = [a \in Agents |-> IF a \in T THEN Built(installed, instance, a) ELSE {}]
  OBVIOUS
<1>3. PICK target : target = Max({r[a] : a \in T})
  OBVIOUS
<1>4. PICK row : row = MutatedPlugin(o, target, plugin)
  OBVIOUS
<1>5. PICK after : after = [a \in Agents |-> IF a \in T THEN Built(row, insts, a) ELSE {}]
  OBVIOUS
<1>6. PICK table : table = IF over = 0 THEN rows ELSE WithoutPending(rows, over)
  OBVIOUS
<1>7. PICK staged : staged = StagedRow(o, r, before, after)
  OBVIOUS
<1>8. /\ \A a \in T : Desired(a) < setting.revs
      /\ rows' = WithStaged(table, o, T, staged)
      /\ revs' = [a \in Agents |->
                    IF a \in T THEN Append(revs[a], NewRevision(o, after[a])) ELSE revs[a]]
      /\ UNCHANGED <<run, up>>
  BY <1>1, <1>2, <1>3, <1>4, <1>5, <1>6, <1>7, Zenon DEF Mutate, MutatedPlugin
<1>9. target \in Revs
  BY <1>1, <1>3, <1>8, TargetIs
<1>10. row \in Plugin
  BY <1>4, <1>9, MutatedPluginIs
<1>11. rows \in AnyRows /\ instance \in AnyInstances /\ (installed = NoPlugin \/ installed \in Plugin)
  BY Zenon DEF PlanTypeInv, AgentTypeInv, AnyRows, AnyInstances
<1>12. before \in [Agents -> SUBSET Gen] /\ after \in [Agents -> SUBSET Gen]
  <2>1. ASSUME NEW a \in Agents
        PROVE  Built(installed, instance, a) \in SUBSET Gen /\ Built(row, insts, a) \in SUBSET Gen
    BY <1>10, <1>11, BuiltIs
  <2> QED BY <1>2, <1>5, <2>1
<1>13. \A a \in T : Desired(a) + 1 \in 0 .. MaxRevs
  BY <1>8, SettingIs DEF AgentTypeInv, Desired
<1>14. staged \in [Places -> Row]
  <2>1. \A a \in Agents : r[a] \in Revs \/ (before[a] = {} /\ after[a] = {})
    BY <1>1, <1>2, <1>5, <1>13 DEF Revs
  <2> QED BY <1>7, <1>12, <2>1, StagedRowIs
<1>15. table \in AnyRows
  BY <1>6, <1>11, WithoutPendingIs
<1>16. rows' \in AnyRows
  BY <1>8, <1>14, <1>15, WithStagedIs
<1>17. ASSUME NEW a \in Agents
       PROVE  /\ revs'[a] \in Seq(Revision) /\ Len(revs'[a]) <= MaxRevs
              /\ Len(revs[a]) <= Len(revs'[a])
              /\ run'[a] \in 0 .. Len(revs'[a])
  <2>1. /\ revs[a] \in Seq(Revision) /\ Len(revs[a]) <= MaxRevs /\ Len(revs[a]) \in Nat
        /\ run[a] \in 0 .. Len(revs[a])
    BY DEF AgentTypeInv
  <2>2. CASE a \notin T
    BY <1>8, <2>1, <2>2
  <2>3. CASE a \in T
    <3>1. o \in Numbers /\ after[a] \in SUBSET Gen
      BY <1>12 DEF Numbers
    <3>2. PICK s : s = Append(revs[a], NewRevision(o, after[a]))
      OBVIOUS
    <3>3. s \in Seq(Revision) /\ Len(s) = Len(revs[a]) + 1
      BY <2>1, <3>1, <3>2, AppendedIs
    <3>4. revs'[a] = s
      BY <1>8, <2>3, <3>2
    <3>5. Len(revs[a]) + 1 \in 0 .. MaxRevs
      BY <1>13, <2>3, Zenon DEF Desired
    <3> QED BY <1>8, <2>1, <3>3, <3>4, <3>5
  <2> QED BY <2>2, <2>3
<1>18. revs' \in [Agents -> Seq(Revision)]
  <2>1. revs' = [a \in Agents |-> revs'[a]]
    BY <1>8, Zenon
  <2> QED BY <1>17, <2>1, Zenon
<1>19. up' = up /\ up \in [Places -> {"active", "failed"}]
  BY <1>8, Zenon DEF AgentTypeInv
<1> QED BY <1>16, <1>17, <1>18, <1>19, Zenon DEF AgentTypeInv, AnyRows

(***************************************************************************)
(* What a rebase changes                                                   *)
(***************************************************************************)
\* The row of operation q moves to revision r[p[1]].
Moves(T, r, gens, q, p) ==
  /\ p[1] \in T
  /\ \E g \in gens[p[1]] : /\ g.op = q /\ g.inst = p[2]
                           /\ Inherits(p[1], r[p[1]], g)
                           /\ Open(q)

Moved(T, r, gens) == {x \in OpIds \X Places : Moves(T, r, gens, x[1], x[2])}

\* The revision the plan is raised to.
High(T, r, gens) == Max({r[x[2][1]] : x \in Moved(T, r, gens)})

\* The rows after a rebase.
Rebased(T, r, gens) ==
  [q \in OpIds |-> [p \in Places |->
     IF Moves(T, r, gens, q, p) THEN [rows[q][p] EXCEPT !.rev = r[p[1]]] ELSE rows[q][p]]]

\* A rebase by its parts.
LEMMA RebaseIs ==
  ASSUME NEW T, NEW r, NEW gens, Rebase(T, r, gens)
  PROVE  /\ rows' = Rebased(T, r, gens)
         /\ Moved(T, r, gens) = {} => UNCHANGED <<installed, ops>>
         /\ Moved(T, r, gens) # {} =>
              /\ installed' = Refenced(installed, High(T, r, gens))
              /\ ops' = [ops EXCEPT ![installed.pend].rev =
                                       IF High(T, r, gens) > @ THEN High(T, r, gens) ELSE @]
<1>1. PICK moved : moved = Moved(T, r, gens)
  OBVIOUS
<1>2. PICK high : high = High(T, r, gens)
  OBVIOUS
<1>3. high = Max({r[x[2][1]] : x \in moved})
  BY <1>1, <1>2, Zenon DEF High
<1>4. moved = {x \in OpIds \X Places :
                 /\ x[2][1] \in T
                 /\ \E g \in gens[x[2][1]] : /\ g.op = x[1] /\ g.inst = x[2][2]
                                            /\ Inherits(x[2][1], r[x[2][1]], g)
                                            /\ Open(x[1])}
  BY <1>1, Zenon DEF Moved, Moves
<1>5. rows' = Rebased(T, r, gens)
  BY Zenon DEF Rebase, Rebased, Moves
<1>6. IF moved = {}
        THEN UNCHANGED <<installed, ops>>
        ELSE /\ installed' = Refenced(installed, high)
             /\ ops' = [ops EXCEPT ![installed.pend].rev = IF high > @ THEN high ELSE @]
  BY <1>3, <1>4, SMT DEF Rebase
<1> QED BY <1>1, <1>2, <1>5, <1>6, Zenon

\* What moves belongs to the plan.
LEMMA MovedIsPlanned ==
  ASSUME NEW T \in SUBSET Agents, NEW r, NEW gens, Moved(T, r, gens) # {},
         \A a \in T : ~Conflict(a, r[a], gens[a])
  PROVE  /\ installed.found /\ installed.pend \in OpIds /\ Open(installed.pend)
         /\ installed.pendRev = ops[installed.pend].rev
<1>1. PICK x \in OpIds \X Places : Moves(T, r, gens, x[1], x[2])
  BY Zenon DEF Moved
<1>2. PICK q, p : q = x[1] /\ p = x[2]
  OBVIOUS
<1>3. q \in OpIds /\ p[1] \in T /\ Open(q)
  BY <1>1, <1>2 DEF Moves
<1>4. PICK g \in gens[p[1]] : g.op = q /\ Inherits(p[1], r[p[1]], g)
  BY <1>1, <1>2, Zenon DEF Moves
<1>5. ~(\/ ~installed.found \/ ~instance[g.inst].found
        \/ installed.pend /= g.op \/ installed.pendRev /= ops[g.op].rev)
  BY <1>3, <1>4, Zenon DEF Conflict
<1> QED BY <1>3, <1>4, <1>5, Zenon

\* The plan after a rebase.
LEMMA RebaseKeeps ==
  ASSUME LifecycleInv, NEW T \in SUBSET Agents, NEW r, NEW gens, Rebase(T, r, gens),
         \A a \in T : r[a] \in Revs,
         \A a \in T : ~Conflict(a, r[a], gens[a]),
         UNCHANGED <<instance, setting>>
  PROVE  PlanTypeInv' /\ PlanInv' /\ StagedInv' /\ PlanStays /\ rows' \in AnyRows
<1>1. PlanTypeInv /\ ops \in [OpIds -> Operation] /\ rows \in AnyRows
  BY Zenon DEF LifecycleInv, PlanTypeInv, AgentTypeInv, AnyRows
<1>2. rows' \in AnyRows
  <2>1. ASSUME NEW q \in OpIds, NEW p \in Places
        PROVE  (IF Moves(T, r, gens, q, p) THEN [rows[q][p] EXCEPT !.rev = r[p[1]]]
                                           ELSE rows[q][p]) \in Row
    <3>1. rows[q][p] \in Row
      BY <1>1, Zenon DEF AnyRows
    <3>2. CASE Moves(T, r, gens, q, p)
      <4>1. r[p[1]] \in Revs
        BY <3>2, Zenon DEF Moves
      <4>2. [rows[q][p] EXCEPT !.rev = r[p[1]]] \in Row
        BY <3>1, <4>1 DEF Row
      <4> QED BY <3>2, <4>2, Zenon
    <3> QED BY <3>1, <3>2, Zenon
  <2>2. rows' = Rebased(T, r, gens)
    BY RebaseIs
  <2> QED BY <2>1, <2>2, Zenon DEF AnyRows, Rebased
<1>3. CASE Moved(T, r, gens) = {}
  <2>1. UNCHANGED <<installed, ops>>
    BY <1>3, RebaseIs
  <2>2. PlanTypeInv'
    BY <1>1, <2>1, Zenon DEF PlanTypeInv
  <2>3. PlanInv'
    BY <2>1, Zenon DEF LifecycleInv, PlanInv, Open
  <2>4. StagedInv'
    BY <2>1, Zenon DEF LifecycleInv, StagedInv, Reclaims, Retains, Kinds, Present
  <2>5. PlanStays
    BY <2>1, Zenon DEF PlanStays
  <2> QED BY <1>2, <2>2, <2>3, <2>4, <2>5
<1>4. CASE Moved(T, r, gens) # {}
  <2>1. PICK h : h = High(T, r, gens)
    OBVIOUS
  <2>2. h \in Revs
    <3>1. PICK S : S = {r[x[2][1]] : x \in Moved(T, r, gens)}
      OBVIOUS
    <3>2. S # {}
      BY <1>4, <3>1
    <3>3. \A x \in Moved(T, r, gens) : x[2][1] \in T
      BY Zenon DEF Moved, Moves
    <3>4. S \in SUBSET Revs
      BY <3>1, <3>3
    <3>5. h = Max(S)
      BY <2>1, <3>1, Zenon DEF High
    <3> QED BY <3>2, <3>4, <3>5, MaxOf, BoundsAssumption DEF Revs
  <2>3. PICK o : o = installed.pend
    OBVIOUS
  <2>4. /\ installed.found /\ o \in OpIds /\ Open(o) /\ installed.pendRev = ops[o].rev
    BY <1>4, <2>3, MovedIsPlanned
  <2>5. installed \in Plugin
    BY <1>1, <2>4, PluginIs
  <2>6. PICK n : n = IF h > installed.pendRev THEN h ELSE installed.pendRev
    OBVIOUS
  <2>7. n \in Revs
    BY <2>2, <2>5, <2>6 DEF Plugin
  <2>8. installed' = [installed EXCEPT !.pendRev = n]
    BY <1>4, <2>1, <2>6, RebaseIs DEF Refenced
  <2>9. ops' = [ops EXCEPT ![o].rev = n]
    <3>1. ops' = [ops EXCEPT ![o].rev = IF h > @ THEN h ELSE @]
      BY <1>4, <2>1, <2>3, RebaseIs, Zenon
    <3>2. ops' = [ops EXCEPT ![o].rev = IF h > ops[o].rev THEN h ELSE ops[o].rev]
      BY <3>1, Zenon
    <3> QED BY <2>4, <2>6, <3>2, Zenon
  <2>10. /\ installed' \in Plugin /\ installed'.found
         /\ installed'.pend = o /\ installed'.pendRev = n /\ installed'.staged = installed.staged
    BY <2>3, <2>5, <2>7, <2>8 DEF Plugin
  <2>11. /\ ops' \in [OpIds -> Operation] /\ ops'[o].rev = n
         /\ \A q \in OpIds : ops'[q].kind = ops[q].kind /\ ops'[q].status = ops[q].status
    <3>1. ops[o] \in Operation
      BY <1>1, <2>4
    <3>2. [ops[o] EXCEPT !.rev = n] \in Operation
      BY <2>7, <3>1 DEF Operation
    <3>3. ops' = [ops EXCEPT ![o] = [ops[o] EXCEPT !.rev = n]]
      BY <2>9, Zenon
    <3> PICK x : x = [ops[o] EXCEPT !.rev = n]
      OBVIOUS
    <3>4. x \in Operation /\ x.rev = n /\ x.kind = ops[o].kind /\ x.status = ops[o].status
      BY <3>1, <3>2 DEF Operation
    <3>5. ops' = [ops EXCEPT ![o] = x]
      BY <3>3
    <3> QED BY <1>1, <2>4, <3>4, <3>5
  <2>12. PlanTypeInv'
    BY <1>1, <2>10, <2>11, Zenon DEF PlanTypeInv
  <2>13. Open(o)'
    BY <2>4, <2>11, Zenon DEF Open
  <2>14. o # 0
    BY <2>4, BoundsAssumption DEF OpIds
  <2>15. PlanInv
    BY Zenon DEF LifecycleInv
  <2>16. PlanInv'
    BY <2>3, <2>4, <2>10, <2>11, <2>13, <2>14, <2>15, Zenon DEF PlanInv
  <2>17. StagedInv
    BY Zenon DEF LifecycleInv
  <2>18. StagedInv'
    <3> SUFFICES ASSUME Reclaims
                 PROVE  \A i \in Present(instance) : instance[i].pOp # 0 =>
                          /\ o = instance[i].pOp
                          /\ ops'[o].kind \in {"configure", "upgrade", "rollback"}
                          /\ ops'[o].kind = "configure" =>
                               \A j \in Present(instance) : instance[j].pOp # 0 => j = i
      BY <2>10, Zenon DEF StagedInv, Reclaims, Retains, Kinds, Present
    <3> QED BY <2>3, <2>4, <2>11, <2>17, Zenon DEF StagedInv
  <2>19. PlanStays
    <3> SUFFICES ASSUME NEW q \in OpIds, ops[q] # NoOp
                 PROVE  /\ ops'[q] # NoOp /\ ops'[q].kind = ops[q].kind
                        /\ installed'.found /\ installed'.pend = q =>
                             installed.found /\ installed.pend = q /\ instance' = instance
      BY Zenon DEF PlanStays
    <3>1. ops'[q] # NoOp
      <4>1. CASE q = o
        BY <2>13, <4>1 DEF Open, NoOp
      <4>2. CASE q # o
        BY <1>1, <2>9, <4>2
      <4> QED BY <4>1, <4>2
    <3> QED BY <2>3, <2>4, <2>10, <2>11, <3>1, Zenon
  <2> QED BY <1>2, <2>12, <2>16, <2>18, <2>19
<1> QED BY <1>3, <1>4

\* A mutation, or a heartbeat, that concerns something else.
LEMMA UnrelatedKeeps ==
  ASSUME LifecycleInv, NEW a \in Agents, Unrelated(a)
  PROVE  LifecycleInv'
<1>1. PICK gens : gens = Built(installed, instance, a)
  OBVIOUS
<1>2. PICK r : r = [b \in Agents |-> Desired(b) + 1]
  OBVIOUS
<1>3. PICK all : all = [b \in Agents |-> gens]
  OBVIOUS
<1>4. /\ Desired(a) < setting.revs
      /\ ~Conflict(a, r[a], all[a])
      /\ Rebase({a}, r, all)
      /\ revs' = [revs EXCEPT ![a] = Append(@, NewRevision(0, gens))]
      /\ UNCHANGED <<instance, run, up, tick, report, setting>>
  BY <1>1, <1>2, <1>3, Zenon DEF Unrelated
<1>5. PlanTypeInv /\ AgentTypeInv /\ HandlerTypeInv /\ CommitInv
  BY Zenon DEF LifecycleInv
<1>6. gens \in SUBSET Gen
  <2>1. instance \in AnyInstances /\ (installed = NoPlugin \/ installed \in Plugin)
    BY <1>5, Zenon DEF PlanTypeInv, AnyInstances
  <2> QED BY <1>1, <2>1, BuiltIs
<1>7. Desired(a) + 1 \in 0 .. MaxRevs
  BY <1>4, <1>5, SettingIs DEF AgentTypeInv, Desired
<1>8. PlanTypeInv' /\ PlanInv' /\ StagedInv' /\ PlanStays /\ rows' \in AnyRows
  <2>1. {a} \in SUBSET Agents
    OBVIOUS
  <2>2. \A b \in {a} : r[b] \in Revs
    BY <1>2, <1>7 DEF Revs
  <2>3. \A b \in {a} : ~Conflict(b, r[b], all[b])
    BY <1>4
  <2> QED BY <1>4, <2>1, <2>2, <2>3, RebaseKeeps
<1>9. CommitInv'
  BY <1>4, <1>5, <1>8, CommitStays
<1>10. AgentTypeInv'
  <2>1. /\ revs \in [Agents -> Seq(Revision)] /\ up \in [Places -> {"active", "failed"}]
        /\ \A b \in Agents : Len(revs[b]) <= MaxRevs /\ run[b] \in 0 .. Len(revs[b])
    BY <1>5, Zenon DEF AgentTypeInv
  <2>2. PICK s : s = Append(revs[a], NewRevision(0, gens))
    OBVIOUS
  <2>3. s \in Seq(Revision) /\ Len(s) = Len(revs[a]) + 1
    <3>1. revs[a] \in Seq(Revision) /\ 0 \in Numbers
      BY <2>1 DEF Numbers
    <3> QED BY <1>6, <2>2, <3>1, AppendedIs
  <2>4. revs' = [revs EXCEPT ![a] = s]
    BY <1>4, <2>2, Zenon
  <2>5. revs' \in [Agents -> Seq(Revision)]
    BY <2>1, <2>3, <2>4
  <2>6. ASSUME NEW b \in Agents
        PROVE  Len(revs'[b]) <= MaxRevs /\ run'[b] \in 0 .. Len(revs'[b])
    <3>1. CASE b # a
      BY <1>4, <2>1, <2>4, <3>1
    <3>2. CASE b = a
      <4>1. revs'[b] = s /\ Len(revs[b]) + 1 \in 0 .. MaxRevs
        BY <1>7, <2>1, <2>4, <3>2, Zenon DEF Desired
      <4>2. Len(revs[b]) \in Nat /\ run[b] \in 0 .. Len(revs[b]) /\ run' = run
        BY <1>4, <2>1
      <4> QED BY <2>3, <3>2, <4>1, <4>2
    <3> QED BY <3>1, <3>2
  <2> QED BY <1>4, <1>8, <2>1, <2>5, <2>6, Zenon DEF AgentTypeInv, AnyRows
<1>11. HandlerTypeInv'
  <2>1. ASSUME NEW b \in Agents
        PROVE  Len(revs[b]) <= Len(revs'[b])
    <3>1. revs[b] \in Seq(Revision) /\ Len(revs[b]) \in Nat /\ 0 \in Numbers
      BY <1>5 DEF AgentTypeInv, Numbers
    <3>2. CASE b # a
      <4>1. revs'[b] = revs[b]
        BY <1>4, <1>5, <3>2 DEF AgentTypeInv
      <4> QED BY <3>1, <4>1
    <3>3. CASE b = a
      <4>1. Len(Append(revs[a], NewRevision(0, gens))) = Len(revs[a]) + 1
        BY <1>6, <3>1, <3>3, AppendedIs
      <4>2. revs'[b] = Append(revs[a], NewRevision(0, gens))
        BY <1>4, <1>5, <3>3, Zenon DEF AgentTypeInv
      <4> QED BY <3>1, <3>3, <4>1, <4>2
    <3> QED BY <3>2, <3>3
  <2> QED BY <1>4, <1>5, <1>10, <2>1, HandlersStay
<1> QED BY <1>8, <1>9, <1>10, <1>11, Zenon DEF LifecycleInv

(***************************************************************************)
(* The mutations of the users                                              *)
(***************************************************************************)
\* The instances of S are staged for operation o; the others have staged what
\* they had, or nothing.
Stages(insts, S, o) ==
  \A i \in Instances : insts[i].found =>
    \/ i \in S /\ insts[i].pOp = o
    \/ insts[i].pOp = 0
    \/ instance[i].found /\ insts[i].pOp = instance[i].pOp

\* No instance gets another configuration.
KeepsConfigs(insts) ==
  \A i \in Instances : insts[i].found /\ instance[i].found => insts[i].cfg = instance[i].cfg

\* Operation o publishes revisions: it plans itself, or nothing.
MutationBy(o) ==
  \E over :
    \E kind \in {"install", "configure", "enable", "disable", "upgrade", "rollback",
                "delete_instance", "uninstall"},
       status \in {"applying", "staged", "succeeded"},
       T \in SUBSET Agents, plugin \in Plugin, insts \in AnyInstances, S \in SUBSET Instances :
      /\ T # {}
      /\ Mutate(o, T, kind, status, over, plugin, insts)
      /\ plugin.pend \in {0, o}
      /\ Stages(insts, S, o) /\ KeepsConfigs(insts)
      /\ S # {} => kind \in {"configure", "upgrade", "rollback"}
      /\ kind = "configure" => \A i, j \in S : i = j

Mutation == Unused # {} /\ installed.found /\ MutationBy(NextOp)

\* A mutation keeps the invariant, once its plan does.
LEMMA MutationIs ==
  ASSUME LifecycleInv, Unused # {}, installed.found,
         NEW T \in SUBSET Agents, T # {},
         NEW kind \in {"install", "configure", "enable", "disable", "upgrade", "rollback",
                       "delete_instance", "uninstall"},
         NEW status \in {"applying", "staged", "succeeded"}, NEW over,
         NEW plugin \in Plugin, NEW insts \in AnyInstances, NEW S \in SUBSET Instances,
         Mutate(NextOp, T, kind, status, over, plugin, insts),
         plugin.pend \in {0, NextOp},
         plugin.pend = 0 => plugin.staged = 0,
         plugin.pend = NextOp =>
           /\ status \in {"applying", "staged"} /\ kind \in Kept
           /\ plugin.staged # 0 <=> kind \in {"upgrade", "rollback"},
         Reclaims => StagesFor(insts, plugin.pend, kind),
         Stages(insts, S, NextOp), KeepsConfigs(insts),
         S # {} => kind \in {"configure", "upgrade", "rollback"},
         kind = "configure" => \A i, j \in S : i = j
  PROVE  LifecycleInv' /\ Mutation
<1>1. PlanTypeInv' /\ PlanInv' /\ StagedInv' /\ CommitInv'
  BY MutationKeeps
<1>2. PlanTypeInv /\ AgentTypeInv /\ HandlerTypeInv
  BY Zenon DEF LifecycleInv
<1>3. NextOp \in OpIds
  BY NextOpIs
<1>4. AgentTypeInv' /\ \A a \in Agents : Len(revs[a]) <= Len(revs'[a])
  BY <1>2, <1>3, MutatePublishes
<1>5. UNCHANGED <<tick, report>>
  BY Zenon DEF Mutate
<1>6. HandlerTypeInv'
  BY <1>2, <1>4, <1>5, HandlersStay
<1>7. Mutation
  BY Zenon DEF Mutation, MutationBy
<1> QED BY <1>1, <1>4, <1>6, <1>7, Zenon DEF LifecycleInv

\* The instances as they are stage nothing new.
LEMMA NothingNew == Stages(instance, {}, NextOp) /\ KeepsConfigs(instance)
BY Zenon DEF Stages, KeepsConfigs

\* A mutation addresses agents.
LEMMA AddressedIs ==
  ASSUME NEW T \in SUBSET Agents
  PROVE  Addressed(T) \in SUBSET Agents /\ Addressed(T) # {}
BY BoundsAssumption DEF Addressed

\* The targets of the instances are agents.
LEMMA TargetsOfIs ==
  ASSUME PlanTypeInv
  PROVE  TargetsOf(instance) \in SUBSET Agents
<1>1. ASSUME NEW i \in Present(instance)
      PROVE  instance[i].targets \union instance[i].pTargets \in SUBSET Agents
  <2>1. instance[i] \in Instance
    BY InstanceIs DEF Present
  <2> QED BY <2>1 DEF Instance
<1> QED BY <1>1, Zenon DEF TargetsOf

\* Nothing is staged unless something is pending.
LEMMA NothingIsStaged ==
  ASSUME LifecycleInv, Reclaims, installed.pend = 0, NEW i \in Instances, instance[i].found
  PROVE  instance[i].pOp = 0
<1>1. i \in Present(instance)
  BY DEF Present
<1>2. StagedInv
  BY Zenon DEF LifecycleInv
<1> QED BY <1>1, <1>2, Zenon DEF StagedInv

\* Configure publishes a configuration and keeps the invariant.
LEMMA ConfigureKeeps ==
  ASSUME LifecycleInv, NEW i \in Instances, NEW T \in SUBSET setting.agents, T # {},
         NEW publish \in BOOLEAN, Configure(i, T, publish)
  PROVE  LifecycleInv' /\ Mutation
<1>1. PICK o : o = NextOp
  OBVIOUS
<1>2. PICK old : old = IF instance[i].found THEN instance[i]
                     ELSE [found |-> TRUE, cfg |-> 0, targets |-> T, pOp |-> 0, pCfg |-> 0,
                           pTargets |-> {}, rbCfg |-> 0, enabled |-> FALSE, published |-> FALSE]
  OBVIOUS
<1>3. PICK plugin : plugin = [installed EXCEPT !.pend = o,
                      !.desired = IF publish THEN "enabled" ELSE @,
                      !.current = IF publish /\ @ = "disabled" THEN "active" ELSE @]
  OBVIOUS
<1>4. PICK new : new = [old EXCEPT !.pOp = o, !.pCfg = o, !.pTargets = T,
                               !.enabled = plugin.desired = "enabled",
                               !.published = @ \/ publish]
  OBVIOUS
<1>5. PICK T1 : T1 = Addressed(IF publish THEN T ELSE TargetsOf(instance) \union T)
  OBVIOUS
<1>6. PICK insts : insts = [instance EXCEPT ![i] = new]
  OBVIOUS
<1>7. /\ Unused # {} /\ installed.found /\ NothingPending
      /\ Mutate(NextOp, T1, "configure", "applying", 0, plugin, insts)
  BY <1>1, <1>2, <1>3, <1>4, <1>5, <1>6, Zenon DEF Configure, May
<1>8. PlanTypeInv /\ T \in SUBSET Agents
  BY SettingIs DEF LifecycleInv
<1>9. o \in OpIds /\ o # 0
  BY <1>1, <1>7, NextOpIs, BoundsAssumption DEF OpIds
<1>10. installed \in Plugin
  BY <1>7, <1>8, PluginIs
<1>11. plugin \in Plugin /\ plugin.pend = o /\ plugin.staged = 0
  <2>1. PICK d : d = IF publish THEN "enabled" ELSE installed.desired
    OBVIOUS
  <2>2. PICK c : c = IF publish /\ installed.current = "disabled" THEN "active" ELSE installed.current
    OBVIOUS
  <2>3. d \in {"enabled", "disabled"}
    BY <1>10, <2>1 DEF Plugin
  <2>4. c \in {"disabled", "active", "applying", "degraded", "upgrading", "rolling_back"}
    BY <1>10, <2>2 DEF Plugin
  <2>5. plugin = [[[installed EXCEPT !.pend = o] EXCEPT !.desired = d] EXCEPT !.current = c]
    BY <1>3, <1>10, <2>1, <2>2 DEF Plugin
  <2>6. installed.staged = 0
    BY <1>7 DEF NothingPending
  <2> QED BY <1>9, <1>10, <2>3, <2>4, <2>5, <2>6 DEF Plugin, Numbers
<1>12. old \in Instance
  <2>1. CASE instance[i].found
    BY <1>2, <1>8, <2>1, InstanceIs
  <2>2. CASE ~instance[i].found
    BY <1>2, <1>8, <2>2 DEF Instance, Numbers
  <2> QED BY <2>1, <2>2
<1>13. new \in Instance /\ new.found /\ new.pOp = o /\ new.cfg = old.cfg
  <2>1. PICK e \in BOOLEAN : e = (plugin.desired = "enabled")
    OBVIOUS
  <2>2. PICK b \in BOOLEAN : b = (old.published \/ publish)
    OBVIOUS
  <2>3. new = [[old EXCEPT !.pOp = o, !.pCfg = o, !.pTargets = T] EXCEPT !.enabled = e, !.published = b]
    BY <1>4, <2>1, <2>2, Zenon
  <2>4. PICK x : x = [old EXCEPT !.pOp = o, !.pCfg = o, !.pTargets = T]
    OBVIOUS
  <2>5. x \in Instance /\ x.pOp = o /\ x.cfg = old.cfg
    BY <1>8, <1>9, <1>12, <2>4 DEF Instance, Numbers
  <2> QED BY <2>3, <2>4, <2>5 DEF Instance
<1>14. insts \in AnyInstances
  BY <1>6, <1>8, <1>13 DEF PlanTypeInv, AnyInstances
<1>15. T1 \in SUBSET Agents /\ T1 # {}
  <2>1. (IF publish THEN T ELSE TargetsOf(instance) \union T) \in SUBSET Agents
    BY <1>8, TargetsOfIs
  <2> QED BY <1>5, <2>1, AddressedIs
<1>16. Reclaims => StagesFor(insts, plugin.pend, "configure")
  <2> SUFFICES ASSUME Reclaims
               PROVE  StagesFor(insts, o, "configure")
    BY <1>11
  <2>1. ASSUME NEW j \in Present(insts), insts[j].pOp # 0
        PROVE  j = i
    <3> SUFFICES ASSUME j # i
                 PROVE  FALSE
      OBVIOUS
    <3>1. j \in Instances /\ insts[j] = instance[j] /\ insts[j].found
      BY <1>6, <1>8, <2>1 DEF Present, PlanTypeInv
    <3>2. instance[j].pOp = 0
      BY <1>7, <3>1, NothingIsStaged DEF NothingPending
    <3> QED BY <2>1, <3>1, <3>2
  <2>2. insts[i].pOp = o
    BY <1>6, <1>8, <1>13 DEF PlanTypeInv
  <2> QED BY <2>1, <2>2, Zenon DEF StagesFor
<1>17. plugin.pend = NextOp
  BY <1>1, <1>11
<1>18. "configure" \in Kept /\ "configure" \notin {"upgrade", "rollback"}
  BY DEF Kept
<1>19. NextOp # 0
  BY <1>1, <1>9
<1>20. \A j \in Instances : insts[j] = IF j = i THEN new ELSE instance[j]
  BY <1>6, <1>8, Zenon DEF PlanTypeInv
<1>21. Stages(insts, {i}, NextOp)
  BY <1>1, <1>13, <1>20 DEF Stages
<1>22. KeepsConfigs(insts)
  BY <1>2, <1>13, <1>20 DEF KeepsConfigs
<1>23. {i} \in SUBSET Instances /\ \A j, k \in {i} : j = k
  OBVIOUS
<1> QED BY <1>7, <1>11, <1>14, <1>15, <1>16, <1>17, <1>18, <1>19, <1>21, <1>22, <1>23, MutationIs

\* A plan that is dropped.
LEMMA WithoutPlanIs ==
  ASSUME NEW plugin \in Plugin
  PROVE  /\ WithoutPlan(plugin) \in Plugin
         /\ WithoutPlan(plugin).pend = 0 /\ WithoutPlan(plugin).staged = 0
         /\ WithoutPlan(plugin).active = plugin.active
         /\ WithoutPlan(plugin).desired = plugin.desired
<1>1. 0 \in Numbers /\ 0 \in Revs /\ 0 \in AnyPackage
  BY BoundsAssumption DEF Numbers, Revs, AnyPackage
<1> QED BY <1>1 DEF WithoutPlan, Plugin

\* An instance without its staged configuration.
LEMMA ClearedIs ==
  ASSUME NEW x \in Instance
  PROVE  /\ Cleared(x) \in Instance /\ Cleared(x).found /\ Cleared(x).pOp = 0
         /\ Cleared(x) = [x EXCEPT !.pOp = 0, !.pCfg = 0, !.pTargets = {}]
<1>1. x.found
  BY DEF Instance
<1>2. Cleared(x) = [x EXCEPT !.pOp = 0, !.pCfg = 0, !.pTargets = {}]
  BY <1>1, Zenon DEF Cleared
<1> QED BY <1>2 DEF Instance, Numbers

\* Instances that are set one by one.
LEMMA AllInstances ==
  ASSUME PlanTypeInv, NEW insts,
         insts = [i \in Instances |-> insts[i]],
         \A i \in Instances : insts[i] = instance[i] \/ insts[i] \in Instance
  PROVE  insts \in AnyInstances
<1>1. \A i \in Instances : insts[i] \in {NoInstance} \union Instance
  <2>1. \A i \in Instances : instance[i] \in {NoInstance} \union Instance
    BY Zenon DEF PlanTypeInv
  <2> QED BY <2>1
<1> QED BY <1>1, Zenon DEF AnyInstances

\* A plugin without instances is switched.
LEMMA SwitchUndeployedKeeps ==
  ASSUME LifecycleInv, Unused # {}, installed.found,
         NEW kind \in {"enable", "disable"}, NEW desired \in {"enabled", "disabled"},
         NEW current \in {"active", "disabled"},
         SwitchUndeployed(kind, desired, current)
  PROVE  LifecycleInv' /\ Mutation
<1>1. PlanTypeInv
  BY Zenon DEF LifecycleInv
<1>2. PICK base : base = WithoutPlan(installed)
  OBVIOUS
<1>3. base \in Plugin /\ base.pend = 0 /\ base.staged = 0
  BY <1>1, <1>2, PluginIs, WithoutPlanIs
<1>4. PICK plugin : plugin = [base EXCEPT !.desired = desired, !.current = current]
  OBVIOUS
<1>5. plugin \in Plugin /\ plugin.pend = 0 /\ plugin.staged = 0
  BY <1>3, <1>4 DEF Plugin
<1>6. PICK T : T = Addressed({})
  OBVIOUS
<1>7. T \in SUBSET Agents /\ T # {}
  BY <1>6, AddressedIs
<1>8. /\ Present(instance) = {}
      /\ Mutate(NextOp, T, kind, "succeeded", installed.pend, plugin, instance)
  BY <1>2, <1>4, <1>6, Zenon DEF SwitchUndeployed
<1>9. instance \in AnyInstances
  BY <1>1, Zenon DEF PlanTypeInv, AnyInstances
<1>10. StagesFor(instance, plugin.pend, kind)
  BY <1>8 DEF StagesFor
<1>11. NextOp # 0
  BY NextOpIs, BoundsAssumption DEF OpIds
<1>12. {} \in SUBSET Instances /\ kind # "configure"
  OBVIOUS
<1> QED BY <1>5, <1>7, <1>8, <1>9, <1>10, <1>11, <1>12, NothingNew, MutationIs

\* A plugin with instances is switched.
LEMMA SwitchDeployedKeeps ==
  ASSUME LifecycleInv, Unused # {}, installed.found,
         NEW kind \in {"enable", "disable"}, NEW desired \in {"enabled", "disabled"},
         NEW over, NEW plugin \in Plugin, plugin.staged = 0,
         NEW insts \in AnyInstances, Reclaims => \A i \in Instances : insts[i].found => insts[i].pOp = 0,
         Stages(insts, {}, NextOp), KeepsConfigs(insts),
         SwitchDeployed(kind, desired, over, plugin, insts)
  PROVE  LifecycleInv' /\ Mutation
<1>1. PlanTypeInv
  BY Zenon DEF LifecycleInv
<1>2. PICK o : o = NextOp
  OBVIOUS
<1>3. o \in OpIds /\ o # 0
  BY <1>2, NextOpIs, BoundsAssumption DEF OpIds
<1>4. PICK row : row = [plugin EXCEPT !.desired = desired, !.current = "applying", !.pend = o]
  OBVIOUS
<1>5. row \in Plugin /\ row.pend = o /\ row.staged = 0
  BY <1>3, <1>4 DEF Plugin, Numbers
<1>6. PICK T : T = Addressed(TargetsOf(instance))
  OBVIOUS
<1>7. T \in SUBSET Agents /\ T # {}
  BY <1>1, <1>6, TargetsOfIs, AddressedIs
<1>8. PICK e \in BOOLEAN : e = (desired = "enabled")
  OBVIOUS
<1>9. PICK new : new = [i \in Instances |-> IF insts[i].found
                                              THEN [insts[i] EXCEPT !.enabled = e] ELSE insts[i]]
  OBVIOUS
<1>10. Mutate(NextOp, T, kind, "applying", over, row, new)
  BY <1>2, <1>4, <1>6, <1>8, <1>9, Zenon DEF SwitchDeployed
<1>11. ASSUME NEW i \in Instances
       PROVE  /\ new[i] \in {NoInstance} \union Instance
              /\ new[i].found => /\ insts[i].found /\ new[i].pOp = insts[i].pOp
                                  /\ new[i].cfg = insts[i].cfg
  <2>1. insts[i] = NoInstance \/ insts[i] \in Instance
    BY Zenon DEF AnyInstances
  <2>2. CASE insts[i] = NoInstance
    BY <1>9, <2>2 DEF NoInstance
  <2>3. CASE insts[i] \in Instance
    BY <1>9, <2>3 DEF Instance
  <2> QED BY <2>1, <2>2, <2>3
<1>12. new \in AnyInstances
  BY <1>9, <1>11, Zenon DEF AnyInstances
<1>13. Reclaims => StagesFor(new, row.pend, kind)
  <2>1. Reclaims => \A i \in Present(new) : new[i].pOp = 0
    BY <1>11 DEF Present
  <2> QED BY <2>1, Zenon DEF StagesFor
<1>14. row.pend = NextOp /\ NextOp # 0
  BY <1>2, <1>3, <1>5
<1>15. kind \in Kept /\ kind \notin {"upgrade", "rollback"}
  BY DEF Kept
<1>16. Stages(new, {}, NextOp) /\ KeepsConfigs(new)
  BY <1>11 DEF Stages, KeepsConfigs
<1>17. {} \in SUBSET Instances /\ kind # "configure"
  OBVIOUS
<1> QED BY <1>5, <1>7, <1>10, <1>12, <1>13, <1>14, <1>15, <1>16, <1>17, MutationIs

\* Enable keeps the invariant.
LEMMA EnableKeeps ==
  ASSUME LifecycleInv, Enable
  PROVE  LifecycleInv' /\ Mutation
<1>1. Unused # {} /\ installed.found
  BY Zenon DEF Enable, May
<1>2. CASE SwitchUndeployed("enable", "enabled", "active")
  BY <1>1, <1>2, SwitchUndeployedKeeps
<1>3. CASE NothingPending /\ SwitchDeployed("enable", "enabled", 0, installed, instance)
  <2>1. PlanTypeInv
    BY Zenon DEF LifecycleInv
  <2>2. installed \in Plugin /\ installed.staged = 0
    BY <1>1, <1>3, <2>1, PluginIs DEF NothingPending
  <2>3. instance \in AnyInstances
    BY <2>1, Zenon DEF PlanTypeInv, AnyInstances
  <2>4. Reclaims => \A i \in Instances : instance[i].found => instance[i].pOp = 0
    BY <1>3, NothingIsStaged, Zenon DEF NothingPending
  <2> QED BY <1>1, <1>3, <2>2, <2>3, <2>4, NothingNew, SwitchDeployedKeeps
<1> QED BY <1>2, <1>3, Zenon DEF Enable

\* Disable keeps the invariant: what was pending is dropped.
LEMMA DisableKeeps ==
  ASSUME LifecycleInv, Disable
  PROVE  LifecycleInv' /\ Mutation
<1>1. Unused # {} /\ installed.found
  BY Zenon DEF Disable, May
<1>2. CASE SwitchUndeployed("disable", "disabled", "disabled")
  BY <1>1, <1>2, SwitchUndeployedKeeps
<1>3. CASE SwitchDeployed("disable", "disabled", installed.pend, WithoutPlan(installed),
             IF NothingPending THEN instance ELSE [i \in Instances |-> Cleared(instance[i])])
  <2>1. PlanTypeInv
    BY Zenon DEF LifecycleInv
  <2>2. PICK plugin : plugin = WithoutPlan(installed)
    OBVIOUS
  <2>3. plugin \in Plugin /\ plugin.staged = 0
    BY <1>1, <2>1, <2>2, PluginIs, WithoutPlanIs
  <2>4. PICK cleared : cleared = [i \in Instances |-> Cleared(instance[i])]
    OBVIOUS
  <2>5. ASSUME NEW i \in Instances
        PROVE  /\ cleared[i] = instance[i] \/ cleared[i] \in Instance
               /\ cleared[i].found => cleared[i].pOp = 0
               /\ cleared[i].found /\ instance[i].found => cleared[i].cfg = instance[i].cfg
    <3>1. CASE instance[i].found
      <4>1. PICK x : x = instance[i]
        OBVIOUS
      <4>2. x \in Instance /\ cleared[i] = Cleared(x)
        BY <2>1, <2>4, <3>1, <4>1, InstanceIs
      <4>3. cleared[i] = [x EXCEPT !.pOp = 0, !.pCfg = 0, !.pTargets = {}]
        BY <4>2, ClearedIs
      <4>4. cleared[i].cfg = x.cfg
        BY <4>2, <4>3 DEF Instance
      <4> QED BY <4>1, <4>2, <4>4, ClearedIs
    <3>2. CASE ~instance[i].found
      <4>1. cleared[i] = instance[i]
        BY <2>4, <3>2 DEF Cleared
      <4> QED BY <3>2, <4>1
    <3> QED BY <3>1, <3>2
  <2>6. cleared \in AnyInstances
    <3>1. cleared = [i \in Instances |-> cleared[i]]
      BY <2>4
    <3> QED BY <2>1, <2>5, <3>1, AllInstances
  <2>7. PICK insts : insts = IF NothingPending THEN instance ELSE cleared
    OBVIOUS
  <2>8. insts \in AnyInstances
    <3>1. instance \in AnyInstances
      BY <2>1, Zenon DEF PlanTypeInv, AnyInstances
    <3> QED BY <2>6, <2>7, <3>1
  <2>9. Reclaims => \A i \in Instances : insts[i].found => insts[i].pOp = 0
    <3>1. CASE NothingPending
      BY <2>7, <3>1, NothingIsStaged, Zenon DEF NothingPending
    <3>2. CASE ~NothingPending
      BY <2>5, <2>7, <3>2, Zenon
    <3> QED BY <3>1, <3>2
  <2>10. SwitchDeployed("disable", "disabled", installed.pend, plugin, insts)
    BY <1>3, <2>2, <2>4, <2>7, Zenon
  <2>11. Stages(insts, {}, NextOp) /\ KeepsConfigs(insts)
    <3>1. CASE NothingPending
      BY <2>7, <3>1, NothingNew
    <3>2. CASE ~NothingPending
      BY <2>5, <2>7, <3>2, Zenon DEF Stages, KeepsConfigs
    <3> QED BY <3>1, <3>2
  <2> QED BY <1>1, <2>3, <2>8, <2>9, <2>10, <2>11, SwitchDeployedKeeps
<1> QED BY <1>2, <1>3, Zenon DEF Disable

\* Upgrade keeps the invariant: what was pending is superseded.
LEMMA UpgradeKeeps ==
  ASSUME LifecycleInv, NEW p \in setting.packages, Upgrade(p)
  PROVE  LifecycleInv' /\ Mutation
<1>1. Unused # {} /\ installed.found /\ PlanTypeInv
  BY Zenon DEF Upgrade, May, LifecycleInv
<1>2. PICK o : o = NextOp
  OBVIOUS
<1>3. o \in OpIds /\ o # 0
  BY <1>1, <1>2, NextOpIs, BoundsAssumption DEF OpIds
<1>4. PICK plugin : plugin = IF NothingPending THEN installed ELSE WithoutPlan(installed)
  OBVIOUS
<1>5. plugin \in Plugin /\ plugin.pend = 0 /\ plugin.staged = 0
  <2>1. installed \in Plugin
    BY <1>1, PluginIs
  <2> QED BY <1>4, <2>1, WithoutPlanIs DEF NothingPending
<1>6. PICK T : T = Addressed(TargetsOf(instance))
  OBVIOUS
<1>7. T \in SUBSET Agents /\ T # {}
  BY <1>1, <1>6, TargetsOfIs, AddressedIs
<1>8. p \in Packages /\ p # 0
  BY <1>1, SettingIs, BoundsAssumption
<1>9. CASE Present(instance) = {}
  <2>1. PICK c : c = Settled(plugin.desired)
    OBVIOUS
  <2>2. c \in {"active", "disabled"}
    BY <2>1 DEF Settled
  <2>3. PICK row : row = [plugin EXCEPT !.rollback = plugin.active, !.active = p, !.current = c]
    OBVIOUS
  <2>4. row \in Plugin /\ row.pend = 0 /\ row.staged = 0
    BY <1>5, <1>8, <2>2, <2>3 DEF Plugin, AnyPackage
  <2>5. Mutate(NextOp, T, "upgrade", "succeeded", installed.pend, row, instance)
    BY <1>2, <1>4, <1>6, <1>9, <2>1, <2>3, Zenon DEF Upgrade
  <2>6. instance \in AnyInstances
    BY <1>1, Zenon DEF PlanTypeInv, AnyInstances
  <2>7. StagesFor(instance, row.pend, "upgrade")
    BY <1>9 DEF StagesFor
  <2>8. NextOp # 0
    BY <1>2, <1>3
  <2>9. {} \in SUBSET Instances
    OBVIOUS
  <2> QED BY <1>1, <1>7, <2>4, <2>5, <2>6, <2>7, <2>8, <2>9, NothingNew, MutationIs
<1>10. CASE Present(instance) # {}
  <2>1. PICK row : row = [plugin EXCEPT !.staged = p, !.current = "upgrading", !.pend = o]
    OBVIOUS
  <2>2. row \in Plugin /\ row.pend = o /\ row.staged # 0
    BY <1>3, <1>5, <1>8, <2>1 DEF Plugin, Numbers, AnyPackage
  <2>3. PICK insts : insts = [i \in Instances |-> IF instance[i].found
                          THEN [Cleared(instance[i]) EXCEPT !.pOp = o, !.pCfg = o]
                          ELSE instance[i]]
    OBVIOUS
  <2>4. Mutate(NextOp, T, "upgrade", "staged", installed.pend, row, insts)
    BY <1>2, <1>4, <1>6, <1>10, <2>1, <2>3, Zenon DEF Upgrade
  <2>5. ASSUME NEW i \in Instances
        PROVE  /\ insts[i] = instance[i] \/ insts[i] \in Instance
               /\ insts[i].found => insts[i].pOp = o
               /\ insts[i].found /\ instance[i].found => insts[i].cfg = instance[i].cfg
    <3>1. CASE instance[i].found
      <4>1. PICK x : x = Cleared(instance[i])
        OBVIOUS
      <4>2. x \in Instance
        BY <1>1, <3>1, <4>1, InstanceIs, ClearedIs
      <4>3. insts[i] = [x EXCEPT !.pOp = o, !.pCfg = o]
        BY <2>3, <3>1, <4>1
      <4>4. x.cfg = instance[i].cfg
        <5>1. instance[i] \in Instance
          BY <1>1, <3>1, InstanceIs
        <5>2. x = [instance[i] EXCEPT !.pOp = 0, !.pCfg = 0, !.pTargets = {}]
          BY <4>1, <5>1, ClearedIs
        <5> QED BY <5>1, <5>2 DEF Instance
      <4> QED BY <1>3, <4>2, <4>3, <4>4 DEF Instance, Numbers
    <3>2. CASE ~instance[i].found
      BY <2>3, <3>2
    <3> QED BY <3>1, <3>2
  <2>6. insts \in AnyInstances
    <3>1. insts = [i \in Instances |-> insts[i]]
      BY <2>3
    <3> QED BY <1>1, <2>5, <3>1, AllInstances
  <2>7. StagesFor(insts, row.pend, "upgrade")
    BY <2>2, <2>5 DEF StagesFor, Present
  <2>8. NextOp # 0 /\ row.pend = NextOp
    BY <1>2, <1>3, <2>2
  <2>9. "upgrade" \in Kept
    BY DEF Kept
  <2>10. Stages(insts, Instances, NextOp) /\ KeepsConfigs(insts)
    BY <1>2, <2>5 DEF Stages, KeepsConfigs
  <2>11. Instances \in SUBSET Instances
    OBVIOUS
  <2> QED BY <1>1, <1>7, <2>2, <2>4, <2>6, <2>7, <2>8, <2>9, <2>10, <2>11, MutationIs
<1> QED BY <1>9, <1>10

\* Rollback keeps the invariant: nothing is pending before.
LEMMA RollbackKeeps ==
  ASSUME LifecycleInv, Rollback
  PROVE  LifecycleInv' /\ Mutation
<1>1. /\ Unused # {} /\ installed.found /\ PlanTypeInv
      /\ NothingPending /\ installed.rollback # 0
  BY Zenon DEF Rollback, May, LifecycleInv
<1>2. PICK o : o = NextOp
  OBVIOUS
<1>3. o \in OpIds /\ o # 0
  BY <1>1, <1>2, NextOpIs, BoundsAssumption DEF OpIds
<1>4. PICK T : T = Addressed(TargetsOf(instance))
  OBVIOUS
<1>5. T \in SUBSET Agents /\ T # {}
  BY <1>1, <1>4, TargetsOfIs, AddressedIs
<1>6. PICK row : row = [installed EXCEPT !.staged = installed.rollback, !.current = "rolling_back",
                                         !.pend = o]
  OBVIOUS
<1>7. row \in Plugin /\ row.pend = o /\ row.staged # 0
  <2>1. installed \in Plugin
    BY <1>1, PluginIs
  <2> QED BY <1>1, <1>3, <1>6, <2>1 DEF Plugin, Numbers, AnyPackage
<1>8. PICK insts : insts = [i \in Instances |-> IF instance[i].found
                              THEN [instance[i] EXCEPT !.pOp = o, !.pCfg = instance[i].rbCfg]
                              ELSE instance[i]]
  OBVIOUS
<1>9. Mutate(NextOp, T, "rollback", "staged", 0, row, insts)
  BY <1>2, <1>4, <1>6, <1>8, Zenon DEF Rollback
<1>10. ASSUME NEW i \in Instances
       PROVE  /\ insts[i] = instance[i] \/ insts[i] \in Instance
              /\ insts[i].found => insts[i].pOp = o
              /\ insts[i].found /\ instance[i].found => insts[i].cfg = instance[i].cfg
  <2>1. CASE instance[i].found
    <3>1. instance[i] \in Instance
      BY <1>1, <2>1, InstanceIs
    <3>2. insts[i] = [instance[i] EXCEPT !.pOp = o, !.pCfg = instance[i].rbCfg]
      BY <1>8, <2>1
    <3>3. insts[i].pOp = o /\ insts[i].cfg = instance[i].cfg
      BY <3>1, <3>2 DEF Instance
    <3>4. insts[i] \in Instance
      <4>1. PICK x : x = instance[i]
        OBVIOUS
      <4>2. PICK c : c = x.rbCfg
        OBVIOUS
      <4>3. x \in Instance /\ c \in Numbers /\ o \in Numbers
        BY <1>3, <3>1, <4>1, <4>2 DEF Instance, Numbers
      <4>4. [x EXCEPT !.pOp = o, !.pCfg = c] \in Instance
        BY <4>3 DEF Instance
      <4>5. insts[i] = [x EXCEPT !.pOp = o, !.pCfg = c]
        BY <3>2, <4>1, <4>2
      <4> QED BY <4>4, <4>5
    <3> QED BY <3>3, <3>4
  <2>2. CASE ~instance[i].found
    BY <1>8, <2>2
  <2> QED BY <2>1, <2>2
<1>11. insts \in AnyInstances
  <2>1. insts = [i \in Instances |-> insts[i]]
    BY <1>8
  <2> QED BY <1>1, <1>10, <2>1, AllInstances
<1>12. StagesFor(insts, row.pend, "rollback")
  BY <1>7, <1>10 DEF StagesFor, Present
<1>13. NextOp # 0 /\ row.pend = NextOp
  BY <1>2, <1>3, <1>7
<1>14. "rollback" \in Kept
  BY DEF Kept
<1>15. Stages(insts, Instances, NextOp) /\ KeepsConfigs(insts)
  BY <1>2, <1>10 DEF Stages, KeepsConfigs
<1>16. Instances \in SUBSET Instances
  OBVIOUS
<1> QED BY <1>1, <1>5, <1>7, <1>9, <1>11, <1>12, <1>13, <1>14, <1>15, <1>16, MutationIs

\* DeleteInstance keeps the invariant.
LEMMA DeleteInstanceKeeps ==
  ASSUME LifecycleInv, NEW i \in Instances, DeleteInstance(i)
  PROVE  LifecycleInv' /\ Mutation
<1>1. Unused # {} /\ installed.found /\ PlanTypeInv /\ NothingPending
  BY Zenon DEF DeleteInstance, May, LifecycleInv
<1>2. PICK T : T = Addressed(TargetsOf(instance))
  OBVIOUS
<1>3. T \in SUBSET Agents /\ T # {}
  BY <1>1, <1>2, TargetsOfIs, AddressedIs
<1>4. PICK insts : insts = [instance EXCEPT ![i] = NoInstance]
  OBVIOUS
<1>5. Mutate(NextOp, T, "delete_instance", "succeeded", 0, installed, insts)
  BY <1>2, <1>4, Zenon DEF DeleteInstance
<1>6. installed \in Plugin /\ installed.pend = 0 /\ installed.staged = 0
  BY <1>1, PluginIs DEF NothingPending
<1>7. insts \in AnyInstances
  BY <1>1, <1>4 DEF PlanTypeInv, AnyInstances
<1>8. Reclaims => StagesFor(insts, installed.pend, "delete_instance")
  <2> SUFFICES ASSUME Reclaims, NEW j \in Present(insts)
               PROVE  insts[j].pOp = 0
    BY DEF StagesFor
  <2>1. j \in Instances /\ insts[j].found
    BY DEF Present
  <2>2. j # i /\ insts[j] = instance[j]
    BY <1>1, <1>4, <2>1 DEF PlanTypeInv, NoInstance
  <2> QED BY <1>6, <2>1, <2>2, NothingIsStaged
<1>9. NextOp # 0
  BY <1>1, NextOpIs, BoundsAssumption DEF OpIds
<1>10. \A j \in Instances : insts[j].found => insts[j] = instance[j]
  BY <1>1, <1>4 DEF PlanTypeInv, NoInstance
<1>11. Stages(insts, {}, NextOp) /\ KeepsConfigs(insts)
  BY <1>10, Zenon DEF Stages, KeepsConfigs
<1>12. {} \in SUBSET Instances
  OBVIOUS
<1> QED BY <1>1, <1>3, <1>5, <1>6, <1>7, <1>8, <1>9, <1>11, <1>12, MutationIs

\* Install keeps the invariant: the operation is over at once.
LEMMA InstallKeeps ==
  ASSUME LifecycleInv, Install
  PROVE  LifecycleInv'
<1>1. PICK o : o = NextOp
  OBVIOUS
<1>2. PICK x : x = [kind |-> "install", status |-> "succeeded", rev |-> 0]
  OBVIOUS
<1>3. /\ Unused # {} /\ ~installed.found
      /\ installed' = Fresh(o) /\ ops' = [ops EXCEPT ![o] = x]
      /\ UNCHANGED <<instance, rows, revs, run, up, tick, report, setting>>
  BY <1>1, <1>2, Zenon DEF Install
<1>4. o \in OpIds /\ ops[o] = NoOp /\ o # 0 /\ 0 \in Revs
  BY <1>1, <1>3, NextOpIs, BoundsAssumption DEF OpIds, Revs
<1>5. PlanTypeInv /\ AgentTypeInv /\ HandlerTypeInv /\ StagedInv /\ CommitInv
  BY Zenon DEF LifecycleInv
<1>6. installed' \in Plugin /\ installed'.pend = 0 /\ installed'.pendRev = 0 /\ installed'.staged = 0
  BY <1>3, <1>4, BoundsAssumption DEF Fresh, Plugin, Numbers, AnyPackage
<1>7. ops' \in [OpIds -> Operation]
  <2>1. x \in Operation
    BY <1>2, <1>4 DEF Operation
  <2> QED BY <1>3, <1>5, <2>1 DEF PlanTypeInv
<1>8. PlanTypeInv'
  BY <1>3, <1>5, <1>6, <1>7, Zenon DEF PlanTypeInv
<1>9. AgentTypeInv'
  BY <1>3, <1>5, Zenon DEF AgentTypeInv
<1>10. HandlerTypeInv'
  BY <1>3, <1>5, Zenon DEF HandlerTypeInv, Fits
<1>11. PlanInv'
  BY <1>6 DEF PlanInv
<1>12. StagedInv'
  <2>1. installed'.found
    BY <1>6 DEF Plugin
  <2>2. Reclaims' => \A i \in Present(instance') : instance'[i].pOp = 0
    BY <1>3, <1>5, Zenon DEF StagedInv, Reclaims, Retains, Kinds, Present
  <2> QED BY <2>1, <2>2, Zenon DEF StagedInv, Present
<1>13. PlanStays
  <2> SUFFICES ASSUME NEW q \in OpIds, ops[q] # NoOp
               PROVE  ops'[q] # NoOp /\ ops'[q].kind = ops[q].kind /\ installed'.pend # q
    BY Zenon DEF PlanStays
  <2>1. q # o /\ q # 0
    BY <1>4, BoundsAssumption DEF OpIds
  <2> QED BY <1>3, <1>5, <1>6, <2>1 DEF PlanTypeInv
<1>14. CommitInv'
  BY <1>3, <1>5, <1>13, CommitStays
<1> QED BY <1>8, <1>9, <1>10, <1>11, <1>12, <1>14, Zenon DEF LifecycleInv

\* Uninstall keeps the invariant: no plugin, no plan.
LEMMA UninstallKeeps ==
  ASSUME LifecycleInv, Uninstall
  PROVE  LifecycleInv'
<1>1. PICK o : o = NextOp
  OBVIOUS
<1>2. PICK x : x = [kind |-> "uninstall", status |-> "succeeded", rev |-> 0]
  OBVIOUS
<1>3. /\ "uninstall" \in Kinds /\ Unused # {}
      /\ installed' = NoPlugin /\ ops' = [ops EXCEPT ![o] = x]
      /\ instance' = IF Retains THEN instance ELSE [i \in Instances |-> NoInstance]
      /\ UNCHANGED <<rows, revs, run, up, tick, report, setting>>
  BY <1>1, <1>2, Zenon DEF Uninstall, May
<1>4. o \in OpIds /\ ops[o] = NoOp /\ 0 \in Revs
  BY <1>1, <1>3, NextOpIs, BoundsAssumption DEF Revs
<1>5. PlanTypeInv /\ AgentTypeInv /\ HandlerTypeInv /\ StagedInv /\ CommitInv
  BY Zenon DEF LifecycleInv
<1>6. ~installed'.found
  BY <1>3 DEF NoPlugin
<1>7. ops' \in [OpIds -> Operation]
  <2>1. x \in Operation
    BY <1>2, <1>4 DEF Operation
  <2> QED BY <1>3, <1>5, <2>1 DEF PlanTypeInv
<1>8. PlanTypeInv'
  <2>1. instance' \in [Instances -> {NoInstance} \union Instance]
    BY <1>3, <1>5 DEF PlanTypeInv
  <2> QED BY <1>3, <1>5, <1>7, <2>1, Zenon DEF PlanTypeInv
<1>9. AgentTypeInv'
  BY <1>3, <1>5, Zenon DEF AgentTypeInv
<1>10. HandlerTypeInv'
  BY <1>3, <1>5, Zenon DEF HandlerTypeInv, Fits
<1>11. PlanInv'
  BY <1>6 DEF PlanInv
<1>12. StagedInv'
  <2>1. "uninstall" \in Kinds'
    BY <1>3 DEF Kinds
  <2>2. Reclaims' => \A i \in Instances : ~instance'[i].found
    <3>1. Reclaims' => ~Retains
      BY <1>3, <2>1 DEF Reclaims, Retains
    <3> QED BY <1>3, <3>1 DEF NoInstance
  <2> QED BY <2>1, <2>2, Zenon DEF StagedInv, Present
<1>13. PlanStays
  <2> SUFFICES ASSUME NEW q \in OpIds, ops[q] # NoOp
               PROVE  ops'[q] # NoOp /\ ops'[q].kind = ops[q].kind
    BY <1>6, Zenon DEF PlanStays
  <2>1. q # o
    BY <1>4
  <2> QED BY <1>3, <1>5, <2>1 DEF PlanTypeInv
<1>14. CommitInv'
  BY <1>3, <1>5, <1>13, CommitStays
<1> QED BY <1>8, <1>9, <1>10, <1>11, <1>12, <1>14, Zenon DEF LifecycleInv

\* The mutations of the users keep the invariant.
LEMMA UserKeeps ==
  ASSUME LifecycleInv, User
  PROVE  LifecycleInv' /\ (Install \/ Uninstall \/ Mutation)
<1>1. setting.instances \subseteq Instances
  BY SettingIs DEF LifecycleInv
<1>2. CASE \E i \in setting.instances, T \in (SUBSET setting.agents) \ {{}}, publish \in BOOLEAN :
             Configure(i, T, publish)
  <2>1. PICK i \in setting.instances, T \in (SUBSET setting.agents) \ {{}}, publish \in BOOLEAN :
          Configure(i, T, publish)
    BY <1>2
  <2>2. i \in Instances /\ T \in SUBSET setting.agents /\ T # {}
    BY <1>1
  <2> QED BY <2>1, <2>2, ConfigureKeeps, Zenon
<1>3. CASE \E i \in setting.instances : DeleteInstance(i)
  BY <1>1, <1>3, DeleteInstanceKeeps
<1>4. CASE \E p \in setting.packages : Upgrade(p)
  BY <1>4, UpgradeKeeps
<1> QED BY <1>2, <1>3, <1>4, InstallKeeps, EnableKeeps, DisableKeeps, RollbackKeeps, UninstallKeeps
        DEF User

(***************************************************************************)
(* The agents                                                              *)
(***************************************************************************)
\* A sequence is a function of the numbers up to its length.
LEMMA SequenceIs ==
  ASSUME NEW S, NEW n \in Nat, NEW s \in [1 .. n -> S]
  PROVE  s \in Seq(S) /\ Len(s) = n
<1>1. s \in Seq(S)
  BY SeqDef
<1>2. DOMAIN s = 1 .. n
  OBVIOUS
<1>3. Len(s) = n
  BY <1>1, <1>2, LenProperties
<1> QED BY <1>1, <1>3

\* A step that leaves the plan alone keeps what is said of it.
LEMMA PlanUntouched ==
  ASSUME LifecycleInv, UNCHANGED <<installed, instance, ops, setting>>
  PROVE  PlanTypeInv' /\ PlanInv' /\ StagedInv' /\ PlanStays
<1>1. PlanTypeInv'
  BY Zenon DEF LifecycleInv, PlanTypeInv
<1>2. PlanInv'
  BY Zenon DEF LifecycleInv, PlanInv, Open
<1>3. StagedInv'
  BY Zenon DEF LifecycleInv, StagedInv, Reclaims, Retains, Kinds, Present
<1>4. PlanStays
  BY Zenon DEF PlanStays
<1> QED BY <1>1, <1>2, <1>3, <1>4

\* So does it what the handlers hold, when they do nothing.
LEMMA HandlersUntouched ==
  ASSUME LifecycleInv, UNCHANGED <<installed, instance, ops, tick, report, setting>>,
         AgentTypeInv', \A a \in Agents : Len(revs[a]) <= Len(revs'[a])
  PROVE  LifecycleInv'
<1>1. PlanTypeInv' /\ PlanInv' /\ StagedInv' /\ PlanStays
  BY PlanUntouched
<1>2. HandlerTypeInv /\ CommitInv /\ AgentTypeInv
  BY Zenon DEF LifecycleInv
<1>3. CommitInv'
  BY <1>1, <1>2, CommitStays
<1>4. HandlerTypeInv'
  BY <1>2, HandlersStay
<1> QED BY <1>1, <1>3, <1>4, Zenon DEF LifecycleInv

\* What is overtaken is superseded.
LEMMA SupersedeKeeps ==
  ASSUME LifecycleInv, NEW a \in Agents, Supersede(a)
  PROVE  LifecycleInv'
<1>1. AgentTypeInv
  BY Zenon DEF LifecycleInv
<1>2. PICK s : s = [r \in DOMAIN revs[a] |->
                      IF r \in Overtaken(a) THEN [revs[a][r] EXCEPT !.state = "superseded"]
                                            ELSE revs[a][r]]
  OBVIOUS
<1>3. /\ revs' = [revs EXCEPT ![a] = s]
      /\ UNCHANGED <<installed, instance, ops, rows, run, up, tick, report, setting>>
  BY <1>2, Zenon DEF Supersede
<1>4. revs[a] \in Seq(Revision) /\ Len(revs[a]) \in Nat /\ DOMAIN revs[a] = 1 .. Len(revs[a])
  BY <1>1, LenProperties DEF AgentTypeInv
<1>5. s \in [1 .. Len(revs[a]) -> Revision]
  <2>1. ASSUME NEW r \in DOMAIN revs[a]
        PROVE  s[r] \in Revision
    <3>1. revs[a][r] \in Revision
      BY <1>4
    <3>2. [revs[a][r] EXCEPT !.state = "superseded"] \in Revision
      BY <3>1 DEF Revision
    <3> QED BY <1>2, <3>1, <3>2
  <2> QED BY <1>2, <1>4, <2>1
<1>6. s \in Seq(Revision) /\ Len(s) = Len(revs[a])
  BY <1>4, <1>5, SequenceIs
<1>7. \A b \in Agents : Len(revs'[b]) = Len(revs[b])
  BY <1>1, <1>3, <1>6 DEF AgentTypeInv
<1>8. revs' \in [Agents -> Seq(Revision)]
  BY <1>1, <1>3, <1>6 DEF AgentTypeInv
<1>9. AgentTypeInv'
  BY <1>1, <1>3, <1>7, <1>8, Zenon DEF AgentTypeInv
<1>10. \A b \in Agents : Len(revs[b]) <= Len(revs'[b])
  BY <1>1, <1>7 DEF AgentTypeInv
<1> QED BY <1>3, <1>9, <1>10, HandlersUntouched

\* The agent runs another revision.
LEMMA RunKeeps ==
  ASSUME LifecycleInv, NEW a \in Agents, Run(a)
  PROVE  LifecycleInv'
<1>1. AgentTypeInv
  BY Zenon DEF LifecycleInv
<1>2. PICK health \in [setting.instances -> IF "crash" \in Faults THEN {"active", "failed"} ELSE {"active"}] :
        up' = [p \in Places |-> IF p \in {a} \X setting.instances THEN health[p[2]] ELSE up[p]]
  BY Zenon DEF Run
<1>3. run' = [run EXCEPT ![a] = Desired(a)] /\ UNCHANGED <<installed, instance, ops, rows, revs, tick, report, setting>>
  BY DEF Run, db
<1>4. up' \in [Places -> {"active", "failed"}]
  <2>1. \A i \in setting.instances : health[i] \in {"active", "failed"}
    BY <1>2
  <2>2. \A p \in {a} \X setting.instances : p[2] \in setting.instances
    OBVIOUS
  <2>3. up \in [Places -> {"active", "failed"}]
    BY <1>1, Zenon DEF AgentTypeInv
  <2>4. \A p \in Places : (IF p \in {a} \X setting.instances THEN health[p[2]] ELSE up[p]) \in {"active", "failed"}
    BY <2>1, <2>2, <2>3
  <2> QED BY <1>2, <2>4
<1>5. \A b \in Agents : run'[b] \in 0 .. Len(revs[b])
  <2>1. \A b \in Agents : Len(revs[b]) \in Nat /\ run[b] \in 0 .. Len(revs[b])
    BY <1>1 DEF AgentTypeInv
  <2>2. ASSUME NEW b \in Agents
        PROVE  run'[b] \in 0 .. Len(revs[b])
    <3>1. run'[b] = run[b] \/ run'[b] = Len(revs[b])
      BY <1>3 DEF Desired
    <3> QED BY <2>1, <3>1
  <2> QED BY <2>2
<1>6. AgentTypeInv'
  BY <1>1, <1>3, <1>4, <1>5, Zenon DEF AgentTypeInv
<1>7. \A b \in Agents : Len(revs[b]) <= Len(revs'[b])
  BY <1>1, <1>3 DEF AgentTypeInv
<1> QED BY <1>3, <1>6, <1>7, HandlersUntouched

\* A runtime fails.
LEMMA CrashKeeps ==
  ASSUME LifecycleInv, NEW a \in Agents, NEW i \in Instances, Crash(a, i)
  PROVE  LifecycleInv'
<1>1. AgentTypeInv
  BY Zenon DEF LifecycleInv
<1>2. /\ up' = [up EXCEPT ![<<a, i>>] = "failed"]
      /\ UNCHANGED <<installed, instance, ops, rows, revs, run, tick, report, setting>>
  BY DEF Crash, db
<1>3. up' \in [Places -> {"active", "failed"}]
  BY <1>1, <1>2 DEF AgentTypeInv, Places
<1>4. AgentTypeInv'
  BY <1>1, <1>2, <1>3, Zenon DEF AgentTypeInv
<1>5. \A b \in Agents : Len(revs[b]) <= Len(revs'[b])
  BY <1>1, <1>2 DEF AgentTypeInv
<1> QED BY <1>2, <1>4, <1>5, HandlersUntouched

\* The recovery pass may go on when it does nothing itself.
LEMMA TickStays ==
  ASSUME HandlerTypeInv, CommitInv, PlanStays, UNCHANGED <<tick, setting>>
  PROVE  Committing(tick)'
<1>1. PICK w : w = tick
  OBVIOUS
<1>2. Fits(w) /\ Committing(w)
  BY <1>1, Zenon DEF HandlerTypeInv, CommitInv
<1>3. Committing(w)'
  BY <1>2, CommittingStays
<1> QED BY <1>1, <1>3, Zenon DEF Committing

\* So may the handler of a report.
LEMMA ReportStays ==
  ASSUME HandlerTypeInv, CommitInv, PlanStays, UNCHANGED <<report, setting>>
  PROVE  Committing(report)'
<1>1. PICK w : w = report
  OBVIOUS
<1>2. Fits(w) /\ Committing(w)
  BY <1>1, Zenon DEF HandlerTypeInv, CommitInv
<1>3. Committing(w)'
  BY <1>2, CommittingStays
<1> QED BY <1>1, <1>3, Zenon DEF Committing

\* The handler of a report starts, on a revision that is marked.
LEMMA SaidKeeps ==
  ASSUME LifecycleInv, NEW a \in Agents, NEW r \in 1 .. Len(revs[a]), NEW x \in Revision,
         NEW what, revs' = [revs EXCEPT ![a][r] = x], report' = Said(a, r, what),
         UNCHANGED <<installed, instance, ops, rows, run, up, tick, setting>>
  PROVE  LifecycleInv'
<1>1. AgentTypeInv /\ HandlerTypeInv /\ CommitInv
  BY Zenon DEF LifecycleInv
<1>2. PICK s : s = [revs[a] EXCEPT ![r] = x]
  OBVIOUS
<1>3. revs[a] \in Seq(Revision)
  BY <1>1 DEF AgentTypeInv
<1>4. s \in Seq(Revision) /\ Len(s) = Len(revs[a])
  BY <1>2, <1>3, ExceptSeq
<1>5. revs' = [revs EXCEPT ![a] = s]
  BY <1>2
<1>6. \A b \in Agents : Len(revs'[b]) = Len(revs[b])
  BY <1>1, <1>4, <1>5 DEF AgentTypeInv
<1>7. revs' \in [Agents -> Seq(Revision)]
  BY <1>1, <1>4, <1>5 DEF AgentTypeInv
<1>8. AgentTypeInv'
  BY <1>1, <1>6, <1>7, Zenon DEF AgentTypeInv
<1>9. PlanTypeInv' /\ PlanInv' /\ StagedInv' /\ PlanStays
  BY PlanUntouched
<1>10. report' = [pc |-> "expected", agent |-> a, rev |-> r, said |-> what]
  BY Zenon DEF Said
<1>11. r \in 1 .. Len(revs'[a])
  BY <1>6
<1>12. HandlerTypeInv'
  <2>1. Fits(tick)'
    BY <1>1, Zenon DEF HandlerTypeInv, Fits
  <2>2. report'.pc = "expected" /\ report'.agent = a /\ report'.rev = r
    BY <1>10
  <2>3. Fits(report)'
    BY <2>2 DEF Fits
  <2> QED BY <1>1, <1>11, <2>1, <2>2, <2>3, Zenon DEF HandlerTypeInv
<1>13. CommitInv'
  <2>1. Committing(tick)'
    BY <1>1, <1>9, TickStays
  <2>2. report'.pc # "commit"
    BY <1>10
  <2> QED BY <2>1, <2>2, Zenon DEF Committing, CommitInv
<1> QED BY <1>8, <1>9, <1>12, <1>13, Zenon DEF LifecycleInv

\* Something of a revision is changed.
LEMMA RevisionMarked ==
  ASSUME NEW x \in Revision,
         NEW state \in {"pending", "applied", "failed", "superseded"},
         NEW drain \in {"none", "draining", "drained"}
  PROVE  /\ [x EXCEPT !.state = state] \in Revision
         /\ [x EXCEPT !.drain = drain] \in Revision
         /\ [x EXCEPT !.state = state, !.drain = drain] \in Revision
BY DEF Revision

\* The reports of an applied, a failed and a drained revision.
LEMMA ReportsKeep ==
  ASSUME LifecycleInv, NEW a \in Agents, Applied(a) \/ Failed(a) \/ Drained(a)
  PROVE  LifecycleInv'
<1>1. AgentTypeInv
  BY Zenon DEF LifecycleInv
<1>2. revs[a] \in Seq(Revision) /\ Len(revs[a]) \in Nat /\ run[a] \in 0 .. Len(revs[a])
  BY <1>1 DEF AgentTypeInv
<1>3. CASE Applied(a)
  <2>1. PICK r : r = run[a]
    OBVIOUS
  <2>2. PICK d : d = IF {q \in 1 .. run[a] - 1 : revs[a][q].state = "applied"} = {}
                       THEN "drained" ELSE "draining"
    OBVIOUS
  <2>3. PICK x : x = [revs[a][r] EXCEPT !.state = "applied", !.drain = d]
    OBVIOUS
  <2>4. /\ run[a] > 0 /\ revs' = [revs EXCEPT ![a][r] = x] /\ report' = Said(a, r, "applied")
        /\ UNCHANGED <<installed, instance, ops, rows, run, up, tick, setting>>
    BY <1>3, <2>1, <2>2, <2>3 DEF Applied
  <2>5. r \in 1 .. Len(revs[a])
    BY <1>2, <2>1, <2>4
  <2>6. revs[a][r] \in Revision
    BY <1>2, <2>5
  <2>7. d \in {"none", "draining", "drained"}
    BY <2>2
  <2>8. x \in Revision
    BY <2>3, <2>6, <2>7, RevisionMarked
  <2> QED BY <2>4, <2>5, <2>8, SaidKeeps
<1>4. CASE Failed(a)
  <2>1. PICK r : r = Desired(a)
    OBVIOUS
  <2>2. PICK x : x = [revs[a][r] EXCEPT !.state = "failed"]
    OBVIOUS
  <2>3. /\ r > run[a] /\ revs' = [revs EXCEPT ![a][r] = x] /\ report' = Said(a, r, "failed")
        /\ UNCHANGED <<installed, instance, ops, rows, run, up, tick, setting>>
    BY <1>4, <2>1, <2>2 DEF Failed
  <2>4. r \in 1 .. Len(revs[a])
    BY <1>2, <2>1, <2>3 DEF Desired
  <2>5. revs[a][r] \in Revision
    BY <1>2, <2>4
  <2>6. x \in Revision
    BY <2>2, <2>5, RevisionMarked
  <2> QED BY <2>3, <2>4, <2>6, SaidKeeps
<1>5. CASE Drained(a)
  <2>1. PICK r : r = run[a]
    OBVIOUS
  <2>2. PICK x : x = [revs[a][r] EXCEPT !.drain = "drained"]
    OBVIOUS
  <2>3. /\ run[a] > 0 /\ revs' = [revs EXCEPT ![a][r] = x] /\ report' = Said(a, r, "drained")
        /\ UNCHANGED <<installed, instance, ops, rows, run, up, tick, setting>>
    BY <1>5, <2>1, <2>2 DEF Drained
  <2>4. r \in 1 .. Len(revs[a])
    BY <1>2, <2>1, <2>3
  <2>5. revs[a][r] \in Revision
    BY <1>2, <2>4
  <2>6. x \in Revision
    BY <2>2, <2>5, RevisionMarked
  <2> QED BY <2>3, <2>4, <2>6, SaidKeeps
<1> QED BY <1>3, <1>4, <1>5

(***************************************************************************)
(* A completion                                                            *)
(***************************************************************************)
\* One handler is w before a step and n after it, the other is x and stays.
Handler(w, n, x) ==
  \/ w = tick /\ n = tick' /\ x = report /\ report' = report
  \/ w = report /\ n = report' /\ x = tick /\ tick' = tick

\* What a handler holds, whichever it is.
LEMMA HandlerIs ==
  ASSUME HandlerTypeInv, CommitInv, NEW w, NEW n, NEW x, Handler(w, n, x)
  PROVE  Fits(w) /\ Committing(w) /\ Fits(x) /\ Committing(x)
BY Zenon DEF HandlerTypeInv, CommitInv, Handler

\* A handler that becomes idle, or goes on to commit, and the other one.
LEMMA CompletionLeaves ==
  ASSUME HandlerTypeInv, CommitInv, PlanStays, UNCHANGED <<revs, setting>>,
         NEW w, NEW n, NEW x, Handler(w, n, x), Fits(n), Committing(n)',
         n.pc \in {"idle", "complete", "commit"}
  PROVE  HandlerTypeInv' /\ CommitInv'
<1>1. Fits(x) /\ Committing(x)
  BY HandlerIs
<1>2. Committing(x)'
  BY <1>1, CommittingStays
<1>3. n.pc # "expected"
  OBVIOUS
<1>4. CASE n = tick' /\ x = report /\ report' = report
  <2>1. Fits(tick)' /\ Fits(report)'
    BY <1>1, <1>4, Zenon DEF Fits
  <2>2. Committing(tick)' /\ Committing(report)'
    BY <1>2, <1>4, Zenon DEF Committing
  <2>3. tick'.pc \in {"idle", "superseded", "rows", "judge", "complete", "commit"}
    BY <1>4
  <2>4. report'.pc = "expected" => report'.agent \in Agents /\ report'.rev \in 1 .. Len(revs'[report'.agent])
    BY <1>4, Zenon DEF HandlerTypeInv
  <2>5. report'.pc \in {"idle", "expected", "reconcile", "complete", "commit"}
    BY <1>4, Zenon DEF HandlerTypeInv
  <2> QED BY <2>1, <2>2, <2>3, <2>4, <2>5, Zenon DEF HandlerTypeInv, CommitInv
<1>5. CASE n = report' /\ x = tick /\ tick' = tick
  <2>1. Fits(tick)' /\ Fits(report)'
    BY <1>1, <1>5, Zenon DEF Fits
  <2>2. Committing(tick)' /\ Committing(report)'
    BY <1>2, <1>5, Zenon DEF Committing
  <2>3. tick'.pc \in {"idle", "superseded", "rows", "judge", "complete", "commit"}
    BY <1>5, Zenon DEF HandlerTypeInv
  <2>4. report'.pc # "expected" /\ report'.pc \in {"idle", "expected", "reconcile", "complete", "commit"}
    BY <1>5
  <2> QED BY <2>1, <2>2, <2>3, <2>4, Zenon DEF HandlerTypeInv, CommitInv
<1> QED BY <1>4, <1>5, Zenon DEF Handler

\* An operation that is open is one.
LEMMA OpenIs ==
  ASSUME NEW o, Open(o)
  PROVE  ops[o] # NoOp
BY DEF Open, NoOp

\* The operations once one has ended with a status.
Ended(o, status) == [ops EXCEPT ![o].status = status]

\* They are operations, and none is forgotten.
LEMMA OperationEnds ==
  ASSUME PlanTypeInv, NEW o \in OpIds, NEW status \in {"succeeded", "failed"}, Open(o)
  PROVE  /\ Ended(o, status) \in [OpIds -> Operation]
         /\ \A q \in OpIds : Ended(o, status)[q].kind = ops[q].kind
         /\ \A q \in OpIds : ops[q] # NoOp => Ended(o, status)[q] # NoOp
         /\ \A q \in OpIds \ {o} : Ended(o, status)[q] = ops[q]
<1> PICK t : t = Ended(o, status)
  OBVIOUS
<1>1. ops \in [OpIds -> Operation]
  BY Zenon DEF PlanTypeInv
<1>2. PICK x : x = [ops[o] EXCEPT !.status = status]
  OBVIOUS
<1>3. x \in Operation /\ x.kind = ops[o].kind /\ x.status = status
  BY <1>1, <1>2 DEF Operation
<1>4. x # NoOp
  BY <1>3 DEF NoOp
<1>5. t = [ops EXCEPT ![o] = x]
  BY <1>2, Zenon DEF Ended
<1> QED BY <1>1, <1>3, <1>4, <1>5

\* Load keeps the invariant: what is read is fenced, and an operation that is
\* given up is not the plan.
LEMMA LoadKeeps ==
  ASSUME LifecycleInv, NEW w, NEW n, NEW x, Handler(w, n, x), Load(w, n)
  PROVE  LifecycleInv'
<1>1. PlanTypeInv /\ AgentTypeInv /\ HandlerTypeInv /\ PlanInv /\ StagedInv /\ CommitInv
  BY Zenon DEF LifecycleInv
<1>2. w.pc = "complete" /\ UNCHANGED <<installed, instance, revs, run, up, setting>>
  BY DEF Load, agents
<1>3. w.op \in OpIds /\ w.inst \in Instances /\ w.ok \in BOOLEAN
  BY <1>1, <1>2, HandlerIs DEF Fits
<1>4. CASE /\ Current(w) /\ Completable(w)
           /\ n = [pc |-> "commit", op |-> w.op, ok |-> w.ok, inst |-> w.inst, v |-> installed.v]
           /\ UNCHANGED <<ops, rows>>
  <2>1. PlanTypeInv' /\ PlanInv' /\ StagedInv' /\ PlanStays
    BY <1>2, <1>4, PlanUntouched
  <2>2. AgentTypeInv'
    BY <1>1, <1>2, <1>4, Zenon DEF AgentTypeInv
  <2>3. n.pc = "commit" /\ n.op = w.op /\ n.ok = w.ok /\ n.inst = w.inst
    BY <1>4
  <2>4. Fits(n)
    BY <1>3, <2>3 DEF Fits
  <2>5. ops[w.op] # NoOp
    BY <1>4, OpenIs DEF Current
  <2>6. StagedFor(w.op, w.inst)
    BY <1>4 DEF Completable, StagedFor
  <2>7. Committing(n)'
    BY <1>2, <1>4, <2>3, <2>5, <2>6, Zenon DEF Committing, StagedFor, Present
  <2> QED BY <1>1, <1>2, <2>1, <2>2, <2>3, <2>4, <2>7, CompletionLeaves DEF LifecycleInv
<1>5. CASE ~(Current(w) /\ Completable(w)) /\ n = Idle /\ Forsaken(w) /\ Open(w.op)
  <2>1. ops' = [ops EXCEPT ![w.op].status = "failed"] /\ rows' = WithoutPending(rows, w.op)
    BY <1>5, Zenon DEF Load
  <2>2. /\ ops' \in [OpIds -> Operation]
        /\ \A q \in OpIds : ops'[q].kind = ops[q].kind /\ (ops[q] # NoOp => ops'[q] # NoOp)
        /\ \A q \in OpIds \ {w.op} : ops'[q] = ops[q]
    <3>1. ops' = Ended(w.op, "failed")
      BY <2>1, Zenon DEF Ended
    <3> QED BY <1>1, <1>3, <1>5, <3>1, OperationEnds
  <2>3. installed.found /\ installed.pend # w.op
    BY <1>5 DEF Forsaken
  <2>4. installed \in Plugin
    BY <1>1, <2>3, PluginIs
  <2>5. installed.pend # 0 => installed.pend \in OpIds \ {w.op}
    BY <2>3, <2>4 DEF Plugin, Numbers
  <2>6. PlanTypeInv'
    BY <1>1, <1>2, <2>2, Zenon DEF PlanTypeInv
  <2>7. PlanInv'
    BY <1>1, <1>2, <2>2, <2>5, Zenon DEF PlanInv, Open
  <2>8. StagedInv'
    <3>1. ASSUME Reclaims', NEW i \in Present(instance), instance[i].pOp # 0
          PROVE  /\ installed.pend = instance[i].pOp
                 /\ ops'[installed.pend].kind \in {"configure", "upgrade", "rollback"}
                 /\ ops'[installed.pend].kind = "configure" =>
                      \A j \in Present(instance) : instance[j].pOp # 0 => j = i
      <4>1. Reclaims
        BY <1>2, <3>1 DEF Reclaims, Retains, Kinds
      <4>2. /\ installed.pend = instance[i].pOp
            /\ ops[installed.pend].kind \in {"configure", "upgrade", "rollback"}
            /\ ops[installed.pend].kind = "configure" =>
                 \A j \in Present(instance) : instance[j].pOp # 0 => j = i
        BY <1>1, <3>1, <4>1, Zenon DEF StagedInv
      <4>3. ops'[installed.pend].kind = ops[installed.pend].kind
        BY <2>2, <2>5, <3>1, <4>2
      <4> QED BY <4>2, <4>3, Zenon
    <3> QED BY <1>2, <2>3, <3>1, Zenon DEF StagedInv, Present
  <2>9. PlanStays
    BY <1>2, <2>2, Zenon DEF PlanStays
  <2>10. AgentTypeInv'
    <3>1. rows \in AnyRows
      BY <1>1, Zenon DEF AgentTypeInv, AnyRows
    <3>2. rows' \in AnyRows
      BY <2>1, <3>1, WithoutPendingIs
    <3> QED BY <1>1, <1>2, <3>2, Zenon DEF AgentTypeInv, AnyRows
  <2>11. n.pc = "idle"
    BY <1>5 DEF Idle
  <2>12. Fits(n) /\ Committing(n)'
    BY <2>11 DEF Fits, Committing
  <2> QED BY <1>1, <1>2, <2>6, <2>7, <2>8, <2>9, <2>10, <2>11, <2>12, CompletionLeaves DEF LifecycleInv
<1>6. CASE ~(Current(w) /\ Completable(w)) /\ n = Idle /\ ~(Forsaken(w) /\ Open(w.op))
  <2>1. UNCHANGED <<ops, rows>>
    BY <1>6, Zenon DEF Load
  <2>2. PlanTypeInv' /\ PlanInv' /\ StagedInv' /\ PlanStays
    BY <1>2, <2>1, PlanUntouched
  <2>3. AgentTypeInv'
    BY <1>1, <1>2, <2>1, Zenon DEF AgentTypeInv
  <2>4. n.pc = "idle"
    BY <1>6 DEF Idle
  <2>5. Fits(n) /\ Committing(n)'
    BY <2>4 DEF Fits, Committing
  <2> QED BY <1>1, <1>2, <2>2, <2>3, <2>4, <2>5, CompletionLeaves DEF LifecycleInv
<1> QED BY <1>4, <1>5, <1>6, Zenon DEF Load

\* The plugin once its plan is over.
LEMMA CompletedPluginIs ==
  ASSUME installed \in Plugin, NEW o \in OpIds, NEW ok \in BOOLEAN, ops[o].kind \in Kept,
         installed.staged # 0 <=> ops[o].kind \in {"upgrade", "rollback"},
         NEW row, row = CompletedPlugin(o, ok)
  PROVE  /\ row \in Plugin /\ row.found
         /\ row.pend = 0 /\ row.pendRev = 0 /\ row.staged = 0
<1>1. 0 \in Numbers /\ 0 \in Revs /\ 0 \in AnyPackage
  BY BoundsAssumption DEF Numbers, Revs, AnyPackage
<1>2. PICK v \in Nat : v = installed.v + 1
  <2>1. installed.v \in Nat
    BY DEF Plugin
  <2> QED BY <2>1
<1>3. PICK base : base = [installed EXCEPT !.v = v, !.pend = 0, !.pendRev = 0, !.last = o]
  OBVIOUS
<1>4. /\ base \in Plugin /\ base.pend = 0 /\ base.pendRev = 0 /\ base.found
      /\ base.staged = installed.staged
  BY <1>1, <1>3 DEF Plugin
<1>5. PICK c : c = Settled(installed.desired)
  OBVIOUS
<1>6. c \in {"active", "disabled"}
  BY <1>5 DEF Settled
<1>7. CASE ops[o].kind = "configure"
  <2>1. row = base
    BY <1>2, <1>3, <1>7, Zenon DEF CompletedPlugin
  <2> QED BY <1>4, <1>7, <2>1
<1>8. CASE ops[o].kind \in {"enable", "disable"}
  <2>1. PICK d : d = IF ok THEN c ELSE "degraded"
    OBVIOUS
  <2>2. row = [base EXCEPT !.current = d]
    <3>1. ops[o].kind # "configure"
      BY <1>8
    <3> QED BY <1>2, <1>3, <1>5, <1>8, <2>1, <3>1, Zenon DEF CompletedPlugin
  <2>3. d \in {"active", "disabled", "degraded"}
    BY <1>6, <2>1
  <2> QED BY <1>4, <1>8, <2>2, <2>3 DEF Plugin
<1>9. CASE ops[o].kind \in {"upgrade", "rollback"}
  <2>1. PICK a : a = IF ok THEN base.staged ELSE base.active
    OBVIOUS
  <2>2. PICK b : b = IF ok THEN base.active ELSE base.rollback
    OBVIOUS
  <2>3. a \in Packages /\ b \in AnyPackage
    BY <1>4, <1>9, <2>1, <2>2 DEF Plugin, AnyPackage
  <2>4. Promoted(base, ok) = [base EXCEPT !.staged = 0, !.active = a, !.rollback = b]
    BY <1>4, <2>1, <2>2 DEF Promoted, Plugin
  <2>5. row = [Promoted(base, ok) EXCEPT !.current = c]
    <3>1. ops[o].kind # "configure" /\ ops[o].kind \notin {"enable", "disable"}
      BY <1>9
    <3> QED BY <1>2, <1>3, <1>5, <3>1, Zenon DEF CompletedPlugin
  <2>6. PICK y : y = [base EXCEPT !.staged = 0, !.active = a, !.rollback = b]
    OBVIOUS
  <2>7. y \in Plugin /\ y.pend = 0 /\ y.pendRev = 0 /\ y.staged = 0
    BY <1>1, <1>4, <2>3, <2>6 DEF Plugin
  <2>8. row = [y EXCEPT !.current = c]
    BY <2>4, <2>5, <2>6
  <2> QED BY <1>6, <2>7, <2>8 DEF Plugin
<1> QED BY <1>7, <1>8, <1>9 DEF Kept

\* An instance once the plan is over.
LEMMA CompletedInstanceIs ==
  ASSUME PlanTypeInv, NEW o \in OpIds, NEW ok \in BOOLEAN, NEW i \in Instances,
         NEW j \in Instances, ops[o].kind \in Kept,
         NEW y, y = CompletedInstance(o, ok, i, j)
  PROVE  /\ y = instance[j] \/ y \in Instance
         /\ y.found => instance[j].found
         /\ y.found =>
              IF ops[o].kind \in {"upgrade", "rollback"} \/ (ops[o].kind = "configure" /\ j = i)
                THEN y.pOp = 0 ELSE y.pOp = instance[j].pOp
<1>1. CASE ~instance[j].found
  <2>1. y = instance[j]
    BY <1>1, Zenon DEF CompletedInstance
  <2> QED BY <1>1, <2>1
<1>2. CASE instance[j].found
  <2>1. PICK x : x = instance[j]
    OBVIOUS
  <2>2. x \in Instance
    BY <1>2, <2>1, InstanceIs
  <2>3. CASE ops[o].kind = "configure"
    <3>1. CASE j # i
      <4>1. y = x
        BY <1>2, <2>1, <2>3, <3>1, Zenon DEF CompletedInstance
      <4> QED BY <1>2, <2>1, <2>3, <3>1, <4>1
    <3>2. CASE j = i
      <4>1. PICK z : z = IF ok THEN [x EXCEPT !.cfg = x.pCfg, !.targets = x.pTargets] ELSE x
        OBVIOUS
      <4>2. z \in Instance
        BY <2>2, <4>1 DEF Instance
      <4>3. y = Cleared(z)
        <5>1. CASE ok
          BY <1>2, <2>1, <2>3, <3>2, <4>1, <5>1, Zenon DEF CompletedInstance
        <5>2. CASE ~ok
          BY <1>2, <2>1, <2>3, <3>2, <4>1, <5>2, Zenon DEF CompletedInstance
        <5> QED BY <5>1, <5>2
      <4> QED BY <1>2, <2>3, <3>2, <4>2, <4>3, ClearedIs
    <3> QED BY <3>1, <3>2
  <2>4. CASE ops[o].kind \in {"upgrade", "rollback"}
    <3>1. PICK z : z = IF ok THEN [x EXCEPT !.rbCfg = x.cfg, !.cfg = x.pCfg] ELSE x
      OBVIOUS
    <3>2. z \in Instance
      BY <2>2, <3>1 DEF Instance
    <3>3. ops[o].kind # "configure"
      BY <2>4
    <3>4. y = Cleared(z)
      BY <1>2, <2>1, <2>4, <3>1, <3>3, Zenon DEF CompletedInstance
    <3> QED BY <1>2, <2>4, <3>2, <3>4, ClearedIs
  <2>5. CASE ops[o].kind \in {"enable", "disable"}
    <3>1. PICK e : e = IF ok THEN installed.desired = "enabled" ELSE x.enabled
      OBVIOUS
    <3>2. e \in BOOLEAN
      <4>1. x.enabled \in BOOLEAN
        BY <2>2 DEF Instance
      <4> QED BY <3>1, <4>1
    <3>3. ops[o].kind # "configure" /\ ops[o].kind \notin {"upgrade", "rollback"}
      BY <2>5
    <3>4. y = [x EXCEPT !.enabled = e]
      BY <1>2, <2>1, <3>1, <3>3, Zenon DEF CompletedInstance
    <3> QED BY <1>2, <2>1, <2>2, <3>2, <3>3, <3>4 DEF Instance
  <2> QED BY <2>3, <2>4, <2>5 DEF Kept
<1> QED BY <1>1, <1>2

\* The rows once an operation is completed.
LEMMA AuthorityIs ==
  ASSUME rows \in AnyRows, NEW o, NEW ok
  PROVE  Authority(o, ok) \in AnyRows
<1>1. ASSUME NEW q \in OpIds, NEW p \in Places
      PROVE  Authority(o, ok)[q][p] \in Row
  <2>1. rows[q][p] \in Row
    BY Zenon DEF AnyRows
  <2>2. Retire(rows[q][p]) \in Row
    BY <2>1, RetireIs
  <2>3. [rows[q][p] EXCEPT !.slot = "active"] \in Row
    BY <2>1 DEF Row
  <2>4. Closed(rows[q][p], ok) \in {rows[q][p], Retire(rows[q][p])}
    BY Zenon DEF Closed
  <2>5. Authority(o, ok)[q][p] \in {rows[q][p], Retire(rows[q][p]), Closed(rows[q][p], ok),
                                    [rows[q][p] EXCEPT !.slot = "active"]}
    BY DEF Authority
  <2> QED BY <2>1, <2>2, <2>3, <2>4, <2>5
<1>2. Authority(o, ok) = [q \in OpIds |-> [p \in Places |-> Authority(o, ok)[q][p]]]
  BY DEF Authority
<1> QED BY <1>1, <1>2 DEF AnyRows

\* Commit keeps the invariant: the plan is over, and nothing is staged for it.
LEMMA CommitKeeps ==
  ASSUME LifecycleInv, NEW w, NEW n, NEW x, Handler(w, n, x), Commit(w, n)
  PROVE  LifecycleInv'
<1>1. PlanTypeInv /\ AgentTypeInv /\ HandlerTypeInv /\ PlanInv /\ StagedInv /\ CommitInv
  BY Zenon DEF LifecycleInv
<1>2. w.pc = "commit" /\ n = Idle /\ UNCHANGED <<revs, run, up, setting>>
  BY DEF Commit, agents
<1>3. n.pc = "idle"
  BY <1>2 DEF Idle
<1>4. Fits(n) /\ Committing(n)'
  BY <1>3 DEF Fits, Committing
<1>5. CASE ~Unchanged(w)
  <2>1. UNCHANGED <<installed, instance, ops, rows>>
    BY <1>5, Zenon DEF Commit
  <2>2. PlanTypeInv' /\ PlanInv' /\ StagedInv' /\ PlanStays
    BY <1>2, <2>1, PlanUntouched
  <2>3. AgentTypeInv'
    BY <1>1, <1>2, <2>1, Zenon DEF AgentTypeInv
  <2> QED BY <1>1, <1>2, <1>3, <1>4, <2>2, <2>3, CompletionLeaves DEF LifecycleInv
<1>6. CASE Unchanged(w)
  <2>1. PICK o, ok, i : o = w.op /\ ok = w.ok /\ i = w.inst
    OBVIOUS
  <2>2. o \in OpIds /\ ok \in BOOLEAN /\ i \in Instances /\ o # 0
    BY <1>1, <1>2, <2>1, HandlerIs, BoundsAssumption DEF Fits, OpIds
  <2>3. installed.found /\ installed.pend = o /\ Open(o)
    BY <1>6, <2>1 DEF Unchanged
  <2>4. PICK status : status = IF ok THEN "succeeded" ELSE "failed"
    OBVIOUS
  <2>5. /\ installed' = CompletedPlugin(o, ok)
        /\ instance' = [j \in Instances |-> CompletedInstance(o, ok, i, j)]
        /\ ops' = [ops EXCEPT ![o].status = status]
        /\ rows' = Authority(o, ok)
    BY <1>6, <2>1, <2>4, Zenon DEF Commit
  <2>6. /\ ops[o].kind \in Kept
        /\ installed.staged # 0 <=> ops[o].kind \in {"upgrade", "rollback"}
    BY <1>1, <2>2, <2>3, Zenon DEF PlanInv
  <2>7. /\ installed' \in Plugin /\ installed'.found
        /\ installed'.pend = 0 /\ installed'.pendRev = 0 /\ installed'.staged = 0
    <3>1. installed \in Plugin
      BY <1>1, <2>3, PluginIs
    <3>2. PICK row : row = CompletedPlugin(o, ok)
      OBVIOUS
    <3>3. row \in Plugin /\ row.found /\ row.pend = 0 /\ row.pendRev = 0 /\ row.staged = 0
      BY <2>2, <2>6, <3>1, <3>2, CompletedPluginIs
    <3> QED BY <2>5, <3>2, <3>3, Zenon
  <2>8. ASSUME NEW j \in Instances
        PROVE  /\ instance'[j] = instance[j] \/ instance'[j] \in Instance
               /\ instance'[j].found => instance[j].found
               /\ instance'[j].found =>
                    IF ops[o].kind \in {"upgrade", "rollback"} \/ (ops[o].kind = "configure" /\ j = i)
                      THEN instance'[j].pOp = 0 ELSE instance'[j].pOp = instance[j].pOp
    <3>1. PICK y : y = CompletedInstance(o, ok, i, j)
      OBVIOUS
    <3>2. instance'[j] = y
      BY <2>5, <3>1, Zenon
    <3>3. /\ y = instance[j] \/ y \in Instance
          /\ y.found => instance[j].found
          /\ y.found =>
               IF ops[o].kind \in {"upgrade", "rollback"} \/ (ops[o].kind = "configure" /\ j = i)
                 THEN y.pOp = 0 ELSE y.pOp = instance[j].pOp
      BY <1>1, <2>2, <2>6, <3>1, CompletedInstanceIs
    <3> QED BY <3>2, <3>3, Zenon
  <2>9. instance' \in AnyInstances
    <3>1. PICK insts : insts = instance'
      OBVIOUS
    <3>2. insts = [j \in Instances |-> insts[j]]
      BY <2>5, <3>1
    <3>3. \A j \in Instances : insts[j] = instance[j] \/ insts[j] \in Instance
      BY <2>8, <3>1
    <3>4. insts \in AnyInstances
      BY <1>1, <3>2, <3>3, AllInstances
    <3> QED BY <3>1, <3>4
  <2>10. /\ ops' \in [OpIds -> Operation]
         /\ \A q \in OpIds : ops'[q].kind = ops[q].kind /\ (ops[q] # NoOp => ops'[q] # NoOp)
    <3>1. status \in {"succeeded", "failed"}
      BY <2>4
    <3>2. ops' = Ended(o, status)
      BY <2>5, Zenon DEF Ended
    <3> QED BY <1>1, <2>2, <2>3, <3>1, <3>2, OperationEnds
  <2>11. PlanTypeInv'
    BY <1>1, <1>2, <2>7, <2>9, <2>10, Zenon DEF PlanTypeInv, AnyInstances
  <2>12. PlanInv'
    BY <2>7 DEF PlanInv
  <2>13. ASSUME Reclaims, NEW j \in Instances, instance'[j].found
         PROVE  instance'[j].pOp = 0
    <3>1. instance[j].found /\ j \in Present(instance)
      BY <2>8, <2>13 DEF Present
    <3>2. CASE ops[o].kind \in {"upgrade", "rollback"}
      BY <2>8, <2>13, <3>2
    <3>3. CASE ops[o].kind = "configure" /\ j = i
      BY <2>8, <2>13, <3>3
    <3>4. CASE ops[o].kind = "configure" /\ j # i
      <4>1. instance[i].found /\ instance[i].pOp = o
        <5>1. Committing(w)
          BY <1>1, HandlerIs
        <5> QED BY <1>2, <2>1, <2>3, <3>4, <5>1, Zenon DEF Committing, StagedFor
      <4>2. i \in Present(instance)
        BY <2>2, <4>1 DEF Present
      <4>3. instance[j].pOp # 0 => j = i
        BY <1>1, <2>2, <2>3, <2>13, <3>1, <3>4, <4>1, <4>2, Zenon DEF StagedInv
      <4>4. instance'[j].pOp = instance[j].pOp
        <5>1. ops[o].kind \notin {"upgrade", "rollback"}
          BY <3>4
        <5> QED BY <2>8, <2>13, <3>4, <5>1
      <4> QED BY <3>4, <4>3, <4>4
    <3>5. CASE ops[o].kind \in {"enable", "disable"}
      <4>1. ops[o].kind \notin {"configure", "upgrade", "rollback"}
        BY <3>5
      <4>2. instance[j].pOp = 0
        BY <1>1, <2>3, <2>13, <3>1, <4>1, Zenon DEF StagedInv
      <4>3. instance'[j].pOp = instance[j].pOp
        BY <2>8, <2>13, <4>1
      <4> QED BY <4>2, <4>3
    <3> QED BY <2>6, <3>2, <3>3, <3>4, <3>5 DEF Kept
  <2>14. StagedInv'
    <3>1. Reclaims' => Reclaims
      BY <1>2 DEF Reclaims, Retains, Kinds
    <3> QED BY <2>7, <2>13, <3>1, Zenon DEF StagedInv, Present
  <2>15. PlanStays
    <3>1. \A q \in OpIds : q # 0
      BY BoundsAssumption DEF OpIds
    <3> QED BY <2>7, <2>10, <3>1, Zenon DEF PlanStays
  <2>16. AgentTypeInv'
    <3>1. rows \in AnyRows
      BY <1>1, Zenon DEF AgentTypeInv, AnyRows
    <3>2. rows' \in AnyRows
      BY <2>5, <3>1, AuthorityIs
    <3> QED BY <1>1, <1>2, <3>2, Zenon DEF AgentTypeInv, AnyRows
  <2> QED BY <1>1, <1>2, <1>3, <1>4, <2>11, <2>12, <2>14, <2>15, <2>16, CompletionLeaves DEF LifecycleInv
<1> QED BY <1>5, <1>6

(***************************************************************************)
(* The reports and the recovery pass                                       *)
(***************************************************************************)
\* A step of the handler of a report, before a completion.
LEMMA ReportStep ==
  ASSUME LifecycleInv, UNCHANGED <<installed, instance, ops, revs, run, up, tick, setting>>,
         rows' \in AnyRows, NEW n, report' = n, Fits(n), n.pc \in {"idle", "reconcile", "complete"}
  PROVE  LifecycleInv'
<1>1. AgentTypeInv /\ HandlerTypeInv /\ CommitInv
  BY Zenon DEF LifecycleInv
<1>2. PlanTypeInv' /\ PlanInv' /\ StagedInv' /\ PlanStays
  BY PlanUntouched
<1>3. AgentTypeInv'
  BY <1>1, Zenon DEF AgentTypeInv, AnyRows
<1>4. n.pc # "commit" /\ n.pc # "expected"
  OBVIOUS
<1>5. CommitInv'
  <2>1. Committing(tick)'
    BY <1>1, <1>2, TickStays
  <2> QED BY <1>4, <2>1, Zenon DEF CommitInv, Committing
<1>6. HandlerTypeInv'
  <2>1. Fits(tick)' /\ Fits(report)'
    BY <1>1, Zenon DEF HandlerTypeInv, Fits
  <2>2. tick'.pc \in {"idle", "superseded", "rows", "judge", "complete", "commit"}
    BY <1>1, Zenon DEF HandlerTypeInv
  <2>3. report'.pc \in {"idle", "expected", "reconcile", "complete", "commit"}
    OBVIOUS
  <2> QED BY <1>4, <2>1, <2>2, <2>3, Zenon DEF HandlerTypeInv
<1> QED BY <1>2, <1>3, <1>5, <1>6, Zenon DEF LifecycleInv

\* A step of the recovery pass, before a completion.
LEMMA TickStep ==
  ASSUME LifecycleInv, UNCHANGED <<installed, instance, ops, rows, revs, run, up, report, setting>>,
         NEW n, tick' = n, Fits(n), n.pc \in {"idle", "superseded", "rows", "judge", "complete"}
  PROVE  LifecycleInv'
<1>1. AgentTypeInv /\ HandlerTypeInv /\ CommitInv
  BY Zenon DEF LifecycleInv
<1>2. PlanTypeInv' /\ PlanInv' /\ StagedInv' /\ PlanStays
  BY PlanUntouched
<1>3. AgentTypeInv'
  BY <1>1, Zenon DEF AgentTypeInv
<1>4. n.pc # "commit"
  OBVIOUS
<1>5. CommitInv'
  <2>1. Committing(report)'
    BY <1>1, <1>2, ReportStays
  <2> QED BY <1>4, <2>1, Zenon DEF CommitInv, Committing
<1>6. HandlerTypeInv'
  <2>1. Fits(tick)' /\ Fits(report)'
    BY <1>1, Zenon DEF HandlerTypeInv, Fits
  <2>2. tick'.pc \in {"idle", "superseded", "rows", "judge", "complete", "commit"}
    OBVIOUS
  <2>3. /\ report'.pc \in {"idle", "expected", "reconcile", "complete", "commit"}
        /\ report'.pc = "expected" =>
             report'.agent \in Agents /\ report'.rev \in 1 .. Len(revs'[report'.agent])
    BY <1>1, Zenon DEF HandlerTypeInv
  <2> QED BY <2>1, <2>2, <2>3, Zenon DEF HandlerTypeInv
<1> QED BY <1>2, <1>3, <1>5, <1>6, Zenon DEF LifecycleInv

\* An idle handler.
LEMMA IdleFits == Fits(Idle) /\ Idle.pc = "idle"
BY DEF Idle, Fits

\* What has been decided about an operation.
LEMMA DecidedFits ==
  ASSUME NEW o \in OpIds, NEW rev, NEW ok \in BOOLEAN, NEW i \in Instances, NEW trusted,
         NEW n, n = Decided(o, rev, ok, i, trusted)
  PROVE  Fits(n) /\ n.pc = "complete"
<1>1. n.pc = "complete" /\ n.op = o /\ n.ok = ok /\ n.inst = i
  BY DEF Decided
<1> QED BY <1>1 DEF Fits

\* A verdict is yes or no.
LEMMA VerdictIs ==
  ASSUME NEW b \in BOOLEAN, NEW ok \in Verdicts(b)
  PROVE  ok \in BOOLEAN
BY DEF Verdicts

\* What the revisions of an operation decide.
LEMMA TrustedFits ==
  ASSUME PlanTypeInv, NEW o \in OpIds, NEW n, Trusted(o, n)
  PROVE  Fits(n) /\ n.pc \in {"idle", "complete"}
<1>1. CASE n = Idle
  BY <1>1, IdleFits
<1>2. CASE n # Idle
  <2>1. PICK I : I = IF ops[o].kind = "configure" /\ Staging(o) /= {} THEN Staging(o) ELSE setting.instances
    OBVIOUS
  <2>2. I \in SUBSET Instances
    BY <2>1, SettingIs DEF Staging, Present
  <2>3. PICK ok \in Verdicts(\A x \in RevisionsOf(o) : x.state = "applied"), i \in I :
          n = Decided(o, ops[o].rev, ok, i, TRUE)
    BY <1>2, <2>1, Zenon DEF Trusted
  <2>4. ok \in BOOLEAN
    BY Zenon DEF Verdicts
  <2>5. i \in Instances
    BY <2>2
  <2>6. PICK rev : rev = ops[o].rev
    OBVIOUS
  <2>7. n = Decided(o, rev, ok, i, TRUE)
    BY <2>3, <2>6, Zenon
  <2>8. Fits(n) /\ n.pc = "complete"
    BY <2>4, <2>5, <2>7, DecidedFits, Zenon
  <2> QED BY <2>8
<1> QED BY <1>1, <1>2

\* A row that records a report is a row.
LEMMA RecordedIs ==
  ASSUME NEW row \in Row, NEW said
  PROVE  Recorded(row, said) \in Row
<1>1. [row EXCEPT !.state = "failed"] \in Row /\ [row EXCEPT !.state = "drained", !.slot = "retired"] \in Row
  BY DEF Row
<1>2. Recorded(row, said) \in {row, [row EXCEPT !.state = "failed"],
                               [row EXCEPT !.state = "drained", !.slot = "retired"]}
  BY DEF Recorded
<1> QED BY <1>1, <1>2

\* The handler takes the rows of the reported revision.
LEMMA ExpectedKeeps ==
  ASSUME LifecycleInv, Expected
  PROVE  LifecycleInv'
<1>1. PlanTypeInv /\ AgentTypeInv /\ HandlerTypeInv
  BY Zenon DEF LifecycleInv
<1>2. PICK a, o, said : a = report.agent /\ o = revs[a][report.rev].op /\ said = report.said
  OBVIOUS
<1>3. PICK mine : mine = {i \in Instances : o /= 0 /\ rows[o][<<a, i>>].rev = report.rev}
  OBVIOUS
<1>4. UNCHANGED <<installed, instance, ops, revs, run, up, tick, setting>>
  BY DEF Expected, agents
<1>5. o \in Numbers
  <2>1. a \in Agents /\ report.rev \in 1 .. Len(revs[a])
    BY <1>1, <1>2, Zenon DEF Expected, HandlerTypeInv
  <2>2. revs[a] \in Seq(Revision)
    BY <1>1, <2>1 DEF AgentTypeInv
  <2>3. revs[a][report.rev] \in Revision
    BY <2>1, <2>2
  <2> QED BY <1>2, <2>3 DEF Revision
<1>6. rows \in AnyRows
  BY <1>1, Zenon DEF AgentTypeInv, AnyRows
<1>7. CASE /\ IF mine = {} /\ o /= 0 /\ Open(o)
                THEN Trusted(o, report') ELSE report' = Idle
           /\ UNCHANGED rows
  <2>1. CASE o # 0 /\ Trusted(o, report')
    <3>1. PICK n : n = report'
      OBVIOUS
    <3>2. o \in OpIds
      BY <1>5, <2>1 DEF Numbers
    <3>3. Trusted(o, n)
      BY <2>1, <3>1, Zenon
    <3>4. Fits(n) /\ n.pc \in {"idle", "complete"}
      BY <1>1, <3>2, <3>3, TrustedFits
    <3>5. n.pc \in {"idle", "reconcile", "complete"}
      BY <3>4
    <3>6. rows' \in AnyRows
      BY <1>6, <1>7
    <3> QED BY <1>4, <3>1, <3>4, <3>5, <3>6, ReportStep
  <2>2. CASE report' = Idle
    <3>1. rows' \in AnyRows
      BY <1>6, <1>7
    <3>2. PICK n : n = Idle
      OBVIOUS
    <3>3. report' = n /\ Fits(n) /\ n.pc \in {"idle", "reconcile", "complete"}
      BY <2>2, <3>2, IdleFits
    <3> QED BY <1>4, <3>1, <3>3, ReportStep
  <2> QED BY <1>7, <2>1, <2>2, Zenon
<1>8. CASE mine /= {} /\ report.said /= "applied" /\ ~(mine = {} \/ report.said = "applied")
  <2>1. \E i \in mine : report' = [pc |-> "reconcile", op |-> o, inst |-> i]
    BY <1>2, <1>3, <1>8, Zenon DEF Expected
  <2>2. PICK i \in mine : report' = [pc |-> "reconcile", op |-> o, inst |-> i]
    BY <2>1
  <2>3. PICK n : n = [pc |-> "reconcile", op |-> o, inst |-> i]
    OBVIOUS
  <2>4. i \in Instances /\ o \in OpIds
    BY <1>3, <1>5, <2>2 DEF Numbers
  <2>5. n.pc = "reconcile" /\ n.op = o /\ n.inst = i
    BY <2>3
  <2>6. Fits(n) /\ n.pc \in {"idle", "reconcile", "complete"}
    BY <2>4, <2>5 DEF Fits
  <2>7. PICK drains \in [Instances -> BOOLEAN] :
          drains = [k \in Instances |-> /\ k \in mine /\ said = "drained" /\ Listens(rows[o][<<a, k>>])
                                        /\ rows[o][<<a, k>>].state = "draining"]
    OBVIOUS
  <2>8. rows' = [q \in OpIds |-> [p \in Places |->
                 CASE p[1] = a /\ p[2] \in mine /\ q = o -> Recorded(rows[q][p], said)
                   [] p[1] = a /\ drains[p[2]] /\ q /= o /\ rows[q][p].slot = "active" ->
                        Retire(rows[q][p])
                   [] OTHER -> rows[q][p]]]
    BY <1>2, <1>3, <1>8, <2>7, ZenonT(60) DEF Expected, Places
  <2>9. ASSUME NEW q \in OpIds, NEW p \in Places
        PROVE  rows'[q][p] \in Row
    <3>1. rows[q][p] \in Row
      BY <1>6, Zenon DEF AnyRows
    <3>2. Retire(rows[q][p]) \in Row /\ Recorded(rows[q][p], said) \in Row
      BY <3>1, RetireIs, RecordedIs
    <3>3. rows'[q][p] \in {rows[q][p], Retire(rows[q][p]), Recorded(rows[q][p], said)}
      BY <2>8
    <3> QED BY <3>1, <3>2, <3>3
  <2>10. rows' = [q \in OpIds |-> [p \in Places |-> rows'[q][p]]]
    BY <2>8
  <2>11. rows' \in AnyRows
    BY <2>9, <2>10 DEF AnyRows
  <2> QED BY <1>4, <2>2, <2>3, <2>6, <2>11, ReportStep
<1> QED BY <1>2, <1>3, <1>7, <1>8, Zenon DEF Expected

\* A row takes the status of a runtime.
LEMMA StatusKeeps ==
  ASSUME LifecycleInv, NEW a \in Agents, NEW i \in Instances, Status(a, i)
  PROVE  LifecycleInv'
<1>1. AgentTypeInv
  BY Zenon DEF LifecycleInv
<1>2. PICK g \in revs[a][run[a]].gens :
        /\ rows' = [rows EXCEPT ![g.op][<<a, i>>].state = up[<<a, i>>]]
        /\ report' = IF revs[a][run[a]].state = "applied"
                       THEN [pc |-> "reconcile", op |-> g.op, inst |-> i] ELSE Idle
  BY Zenon DEF Status
<1>3. run[a] > 0 /\ UNCHANGED <<installed, instance, ops, revs, run, up, tick, setting>>
  BY DEF Status, agents
<1>4. g \in Gen
  <2>1. revs[a] \in Seq(Revision) /\ run[a] \in 1 .. Len(revs[a])
    BY <1>1, <1>3 DEF AgentTypeInv
  <2>2. revs[a][run[a]] \in Revision
    BY <2>1
  <2> QED BY <1>2, <2>2 DEF Revision
<1>5. PICK o \in OpIds : o = g.op
  BY <1>4 DEF Gen
<1>6. PICK p \in Places : p = <<a, i>>
  BY DEF Places
<1>7. PICK s \in {"active", "failed"} : s = up[p]
  BY <1>1 DEF AgentTypeInv
<1>8. rows \in AnyRows
  BY <1>1, Zenon DEF AgentTypeInv, AnyRows
<1>9. rows' \in AnyRows
  <2>1. PICK row : row = [rows[o][p] EXCEPT !.state = s]
    OBVIOUS
  <2>2. row \in Row
    <3>1. rows[o][p] \in Row
      BY <1>8, Zenon DEF AnyRows
    <3> QED BY <2>1, <3>1 DEF Row
  <2>3. PICK f : f = [rows[o] EXCEPT ![p] = row]
    OBVIOUS
  <2>4. f \in [Places -> Row]
    <3>1. rows[o] \in [Places -> Row]
      BY <1>8, Zenon DEF AnyRows
    <3> QED BY <2>2, <2>3, <3>1
  <2>5. rows' = [rows EXCEPT ![o] = f]
    BY <1>2, <1>5, <1>6, <1>7, <2>1, <2>3, Zenon
  <2> QED BY <1>8, <2>4, <2>5, Zenon DEF AnyRows
<1>10. CASE report' = Idle
  <2>1. PICK n : n = Idle
    OBVIOUS
  <2>2. report' = n /\ Fits(n) /\ n.pc \in {"idle", "reconcile", "complete"}
    BY <1>10, <2>1, IdleFits
  <2> QED BY <1>3, <1>9, <2>2, ReportStep
<1>11. CASE report' = [pc |-> "reconcile", op |-> o, inst |-> i]
  <2>1. PICK n : n = [pc |-> "reconcile", op |-> o, inst |-> i]
    OBVIOUS
  <2>2. n.pc = "reconcile" /\ n.op = o /\ n.inst = i
    BY <2>1
  <2>3. report' = n /\ Fits(n) /\ n.pc \in {"idle", "reconcile", "complete"}
    BY <1>11, <2>1, <2>2 DEF Fits
  <2> QED BY <1>3, <1>9, <2>3, ReportStep
<1> QED BY <1>2, <1>5, <1>10, <1>11, Zenon

\* The rows of an operation decide.
LEMMA ReconcileKeeps ==
  ASSUME LifecycleInv, Reconcile
  PROVE  LifecycleInv'
<1>1. PlanTypeInv /\ AgentTypeInv /\ HandlerTypeInv
  BY Zenon DEF LifecycleInv
<1>2. PICK o, i : o = report.op /\ i = report.inst
  OBVIOUS
<1>3. o \in OpIds /\ i \in Instances
  BY <1>1, <1>2 DEF Reconcile, HandlerTypeInv, Fits
<1>4. UNCHANGED <<installed, instance, ops, revs, rows, run, up, tick, setting>>
  BY DEF Reconcile, agents, db
<1>5. rows' \in AnyRows
  BY <1>1, <1>4, Zenon DEF AgentTypeInv, AnyRows
<1>6. CASE report' = Idle
  <2>1. PICK n : n = Idle
    OBVIOUS
  <2>2. report' = n /\ Fits(n) /\ n.pc \in {"idle", "reconcile", "complete"}
    BY <1>6, <2>1, IdleFits
  <2> QED BY <1>4, <1>5, <2>2, ReportStep
<1>7. CASE \E ok \in Verdicts(\A p \in RowsOf(o) : rows[o][p].state /= "failed") :
             report' = Decided(o, ops[o].rev, ok, i, FALSE)
  <2>1. PICK ok \in Verdicts(\A p \in RowsOf(o) : rows[o][p].state /= "failed") :
          report' = Decided(o, ops[o].rev, ok, i, FALSE)
    BY <1>7, Zenon
  <2>2. ok \in BOOLEAN
    BY Zenon DEF Verdicts
  <2>3. PICK rev : rev = ops[o].rev
    OBVIOUS
  <2>4. PICK n : n = Decided(o, rev, ok, i, FALSE)
    OBVIOUS
  <2>5. Fits(n) /\ n.pc = "complete"
    BY <1>3, <2>2, <2>4, DecidedFits, Zenon
  <2>6. n.pc \in {"idle", "reconcile", "complete"} /\ report' = n
    BY <2>1, <2>3, <2>4, <2>5
  <2> QED BY <1>4, <1>5, <2>5, <2>6, ReportStep
<1> QED BY <1>2, <1>6, <1>7, Zenon DEF Reconcile

\* The recovery pass takes up what is pending.
LEMMA TickKeeps ==
  ASSUME LifecycleInv, Tick
  PROVE  LifecycleInv'
<1>1. PlanTypeInv
  BY Zenon DEF LifecycleInv
<1>2. PICK o : o = installed.pend
  OBVIOUS
<1>3. /\ installed.found /\ o # 0
      /\ UNCHANGED <<installed, instance, ops, revs, rows, run, up, report, setting>>
  BY <1>2 DEF Tick, agents, db
<1>4. o \in OpIds
  <2>1. installed \in Plugin
    BY <1>1, <1>3, PluginIs
  <2> QED BY <1>2, <1>3, <2>1 DEF Plugin, Numbers
<1>5. PICK I, A : I = Staging(o) /\ A = UNION {instance[i].pTargets : i \in Staging(o)}
  OBVIOUS
<1>6. PICK rev : rev = ops[o].rev
  OBVIOUS
<1>7. PICK n : n = IF ops[o].kind = "configure"
                     THEN [pc |-> "superseded", op |-> o, rev |-> rev, inst |-> I,
                           targets |-> A, todo |-> A]
                     ELSE [pc |-> "rows"]
  OBVIOUS
<1>8. tick' = n
  BY <1>2, <1>5, <1>6, <1>7, Zenon DEF Tick
<1>9. I \in SUBSET Instances /\ A \in SUBSET Agents
  <2>1. ASSUME NEW i \in Staging(o)
        PROVE  i \in Instances /\ instance[i].pTargets \in SUBSET Agents
    <3>1. i \in Instances /\ instance[i].found
      BY DEF Staging, Present
    <3>2. instance[i] \in Instance
      BY <1>1, <3>1, InstanceIs
    <3> QED BY <3>1, <3>2 DEF Instance
  <2> QED BY <1>5, <2>1, Zenon
<1>10. rev \in Revs
  <2>1. ops[o] \in Operation
    BY <1>1, <1>4, Zenon DEF PlanTypeInv
  <2> QED BY <1>6, <2>1 DEF Operation
<1>11. Fits(n) /\ n.pc \in {"idle", "superseded", "rows", "judge", "complete"}
  <2>1. CASE ops[o].kind = "configure"
    BY <1>4, <1>7, <1>9, <1>10, <2>1 DEF Fits
  <2>2. CASE ops[o].kind # "configure"
    BY <1>7, <2>2 DEF Fits
  <2> QED BY <2>1, <2>2
<1> QED BY <1>3, <1>8, <1>11, TickStep

\* A target of the pending configuration has moved on.
LEMMA SupersededTargetKeeps ==
  ASSUME LifecycleInv, NEW a \in Agents, SupersededTarget(a)
  PROVE  LifecycleInv'
<1>1. PlanTypeInv /\ AgentTypeInv /\ HandlerTypeInv /\ CommitInv
  BY Zenon DEF LifecycleInv
<1>2. PICK done : done = [tick EXCEPT !.todo = @ \ {a}]
  OBVIOUS
<1>3. Fits(done) /\ done.pc = "superseded"
  <2>1. tick \in [pc : {"superseded"}, op : OpIds, rev : Revs, inst : SUBSET Instances,
                  targets : SUBSET Agents, todo : SUBSET Agents]
    BY <1>1, Zenon DEF SupersededTarget, HandlerTypeInv, Fits
  <2>2. done \in [pc : {"superseded"}, op : OpIds, rev : Revs, inst : SUBSET Instances,
                  targets : SUBSET Agents, todo : SUBSET Agents]
    BY <1>2, <2>1
  <2>3. done.pc = "superseded"
    BY <2>2
  <2> QED BY <2>2, <2>3 DEF Fits
<1>4. PICK n : n = tick'
  OBVIOUS
<1>5. n \in {Idle, done}
  BY <1>2, <1>4, Zenon DEF SupersededTarget
<1>6. Fits(n) /\ n.pc \in {"idle", "superseded", "rows", "judge", "complete"}
  BY <1>3, <1>5, IdleFits
<1>7. UNCHANGED <<instance, revs, run, up, report, setting>>
  BY DEF SupersededTarget, agents
<1>8. CASE UNCHANGED <<installed, ops, rows>>
  BY <1>4, <1>6, <1>7, <1>8, TickStep
<1>9. CASE \E r, gens : /\ ~Conflict(a, r, gens) /\ r = Desired(a)
                        /\ Rebase({a}, [b \in Agents |-> r], [b \in Agents |-> gens])
  <2>1. PICK r, gens : /\ ~Conflict(a, r, gens) /\ r = Desired(a)
                       /\ Rebase({a}, [b \in Agents |-> r], [b \in Agents |-> gens])
    BY <1>9
  <2>2. PICK rs, gs : rs = [b \in Agents |-> r] /\ gs = [b \in Agents |-> gens]
    OBVIOUS
  <2>3. r \in Revs
    BY <1>1, <2>1, BoundsAssumption DEF AgentTypeInv, Desired, Revs
  <2>4. {a} \in SUBSET Agents /\ \A b \in {a} : rs[b] \in Revs
    BY <2>2, <2>3
  <2>5. \A b \in {a} : ~Conflict(b, rs[b], gs[b])
    BY <2>1, <2>2
  <2>6. Rebase({a}, rs, gs)
    BY <2>1, <2>2, Zenon
  <2>7. PlanTypeInv' /\ PlanInv' /\ StagedInv' /\ PlanStays /\ rows' \in AnyRows
    BY <1>7, <2>4, <2>5, <2>6, RebaseKeeps
  <2>8. AgentTypeInv'
    BY <1>1, <1>7, <2>7, Zenon DEF AgentTypeInv, AnyRows
  <2>9. CommitInv'
    <3>1. Committing(report)'
      BY <1>1, <1>7, <2>7, ReportStays
    <3>2. n.pc # "commit"
      BY <1>6
    <3> QED BY <1>4, <3>1, <3>2, Zenon DEF CommitInv, Committing
  <2>10. HandlerTypeInv'
    <3>1. Fits(tick)' /\ Fits(report)'
      BY <1>1, <1>4, <1>6, <1>7, Zenon DEF HandlerTypeInv, Fits
    <3>2. tick'.pc \in {"idle", "superseded", "rows", "judge", "complete", "commit"}
      BY <1>4, <1>6
    <3>3. /\ report'.pc \in {"idle", "expected", "reconcile", "complete", "commit"}
          /\ report'.pc = "expected" =>
               report'.agent \in Agents /\ report'.rev \in 1 .. Len(revs'[report'.agent])
      BY <1>1, <1>7, Zenon DEF HandlerTypeInv
    <3> QED BY <3>1, <3>2, <3>3, Zenon DEF HandlerTypeInv
  <2> QED BY <2>7, <2>8, <2>9, <2>10, Zenon DEF LifecycleInv
<1> QED BY <1>8, <1>9, Zenon DEF SupersededTarget

\* A target has lost the configuration, or the rows decide.
LEMMA SupersededVerdictKeeps ==
  ASSUME LifecycleInv, SupersededVerdict
  PROVE  LifecycleInv'
<1>1. PlanTypeInv /\ HandlerTypeInv
  BY Zenon DEF LifecycleInv
<1>2. UNCHANGED <<installed, instance, ops, revs, rows, run, up, report, setting>>
  BY DEF SupersededVerdict, agents, db
<1>3. tick \in [pc : {"superseded"}, op : OpIds, rev : Revs, inst : SUBSET Instances,
                targets : SUBSET Agents, todo : SUBSET Agents]
  BY <1>1, Zenon DEF SupersededVerdict, HandlerTypeInv, Fits
<1>4. PICK o, rev, I : o = tick.op /\ rev = tick.rev /\ I = tick.inst
  OBVIOUS
<1>5. o \in OpIds /\ I \in SUBSET Instances
  BY <1>3, <1>4
<1>6. PICK n : n = tick'
  OBVIOUS
<1>7. n = [pc |-> "rows"] \/ \E i \in I : n = Decided(o, rev, FALSE, i, FALSE)
  BY <1>4, <1>6, Zenon DEF SupersededVerdict
<1>8. Fits(n) /\ n.pc \in {"idle", "superseded", "rows", "judge", "complete"}
  <2>1. CASE n = [pc |-> "rows"]
    BY <2>1 DEF Fits
  <2>2. CASE \E i \in I : n = Decided(o, rev, FALSE, i, FALSE)
    <3>1. PICK i \in I : n = Decided(o, rev, FALSE, i, FALSE)
      BY <2>2
    <3>2. i \in Instances
      BY <1>5
    <3>3. Fits(n) /\ n.pc = "complete"
      BY <1>5, <3>1, <3>2, DecidedFits
    <3> QED BY <3>3
  <2> QED BY <1>7, <2>1, <2>2
<1> QED BY <1>2, <1>6, <1>8, TickStep

\* The pass reads the rows, or without rows the revisions.
LEMMA ReadRowsKeeps ==
  ASSUME LifecycleInv, ReadRows
  PROVE  LifecycleInv'
<1>1. PlanTypeInv
  BY Zenon DEF LifecycleInv
<1>2. UNCHANGED <<installed, instance, ops, revs, rows, run, up, report, setting>>
  BY DEF ReadRows, agents, db
<1>3. PICK n : n = tick'
  OBVIOUS
<1>4. CASE n = Idle
  <2>1. Fits(n) /\ n.pc \in {"idle", "superseded", "rows", "judge", "complete"}
    BY <1>4, IdleFits
  <2> QED BY <1>2, <1>3, <2>1, TickStep
<1>5. CASE n # Idle
  <2>1. PICK o : o = installed.pend
    OBVIOUS
  <2>2. installed.found /\ o # 0
    BY <1>3, <1>5, <2>1, Zenon DEF ReadRows
  <2>3. o \in OpIds
    <3>1. installed \in Plugin
      BY <1>1, <2>2, PluginIs
    <3> QED BY <2>1, <2>2, <3>1 DEF Plugin, Numbers
  <2>4. Trusted(o, n) \/ n = [pc |-> "judge", op |-> o, rev |-> ops[o].rev, read |-> rows[o]]
    BY <1>3, <2>1, <2>2, Zenon DEF ReadRows
  <2>5. Fits(n) /\ n.pc \in {"idle", "superseded", "rows", "judge", "complete"}
    <3>1. CASE Trusted(o, n)
      <4>1. Fits(n) /\ n.pc \in {"idle", "complete"}
        BY <1>1, <2>3, <3>1, TrustedFits
      <4> QED BY <4>1
    <3>2. CASE n = [pc |-> "judge", op |-> o, rev |-> ops[o].rev, read |-> rows[o]]
      <4>1. n.pc = "judge" /\ n.op = o
        BY <3>2
      <4> QED BY <2>3, <4>1 DEF Fits
    <3> QED BY <2>4, <3>1, <3>2
  <2> QED BY <1>2, <1>3, <2>5, TickStep
<1> QED BY <1>4, <1>5

\* The rows that were read are judged.
LEMMA JudgeKeeps ==
  ASSUME LifecycleInv, Judge
  PROVE  LifecycleInv'
<1>1. HandlerTypeInv
  BY Zenon DEF LifecycleInv
<1>2. UNCHANGED <<installed, instance, ops, revs, rows, run, up, report, setting>>
  BY DEF Judge, agents, db
<1>3. PICK o, rev, on : o = tick.op /\ rev = tick.rev /\ on = {p \in Places : tick.read[p] /= NoRow}
  OBVIOUS
<1>4. o \in OpIds
  BY <1>1, <1>3 DEF Judge, HandlerTypeInv, Fits
<1>5. PICK n : n = tick'
  OBVIOUS
<1>6. PICK V : V = IF ops[o].kind \in {"upgrade", "rollback"}
                     THEN Verdicts(\A p \in on : Succeeded(p, tick.read[p]))
                     ELSE {\A p \in on : Succeeded(p, tick.read[p])}
  OBVIOUS
<1>7. V \in SUBSET BOOLEAN
  BY <1>6, Zenon DEF Verdicts
<1>8. n = Idle \/ \E v \in V, p \in on : n = Decided(o, rev, v, p[2], FALSE)
  BY <1>3, <1>5, <1>6, Zenon DEF Judge
<1>9. Fits(n) /\ n.pc \in {"idle", "superseded", "rows", "judge", "complete"}
  <2>1. CASE n = Idle
    BY <2>1, IdleFits
  <2>2. CASE \E v \in V, p \in on : n = Decided(o, rev, v, p[2], FALSE)
    <3>1. PICK v \in V, p \in on : n = Decided(o, rev, v, p[2], FALSE)
      BY <2>2, Zenon
    <3>2. v \in BOOLEAN
      BY <1>7, Zenon
    <3>3. PICK i : i = p[2]
      OBVIOUS
    <3>4. i \in Instances
      BY <1>3, <3>3 DEF Places
    <3>5. n = Decided(o, rev, v, i, FALSE)
      BY <3>1, <3>3, Zenon
    <3>6. Fits(n) /\ n.pc = "complete"
      BY <1>4, <3>2, <3>4, <3>5, DecidedFits, Zenon
    <3> QED BY <3>6
  <2> QED BY <1>8, <2>1, <2>2
<1> QED BY <1>2, <1>5, <1>9, TickStep

\* The handler of a report keeps the invariant.
LEMMA HandleReportKeeps ==
  ASSUME LifecycleInv, HandleReport
  PROVE  LifecycleInv'
<1>1. PICK w, n, x : w = report /\ n = report' /\ x = tick
  OBVIOUS
<1>2. CASE Load(report, report') /\ UNCHANGED tick
  <2>1. Handler(w, n, x) /\ Load(w, n)
    BY <1>1, <1>2, Zenon DEF Handler
  <2> QED BY <2>1, LoadKeeps
<1>3. CASE Commit(report, report') /\ UNCHANGED tick
  <2>1. Handler(w, n, x) /\ Commit(w, n)
    BY <1>1, <1>3, Zenon DEF Handler
  <2> QED BY <2>1, CommitKeeps
<1> QED BY <1>2, <1>3, ExpectedKeeps, ReconcileKeeps, Zenon DEF HandleReport

\* The recovery pass keeps the invariant.
LEMMA RecoverKeeps ==
  ASSUME LifecycleInv, Recover
  PROVE  LifecycleInv'
<1>1. PICK w, n, x : w = tick /\ n = tick' /\ x = report
  OBVIOUS
<1>2. CASE Load(tick, tick') /\ UNCHANGED report
  <2>1. Handler(w, n, x) /\ Load(w, n)
    BY <1>1, <1>2, Zenon DEF Handler
  <2> QED BY <2>1, LoadKeeps
<1>3. CASE Commit(tick, tick') /\ UNCHANGED report
  <2>1. Handler(w, n, x) /\ Commit(w, n)
    BY <1>1, <1>3, Zenon DEF Handler
  <2> QED BY <2>1, CommitKeeps
<1> QED BY <1>2, <1>3, TickKeeps, SupersededTargetKeeps, SupersededVerdictKeeps, ReadRowsKeeps,
           JudgeKeeps, Zenon DEF Recover

\* Operations that nothing names are given up, and the plan is not among them.
LEMMA FailOrphanedKeeps ==
  ASSUME LifecycleInv, FailOrphaned
  PROVE  LifecycleInv'
<1>1. PlanTypeInv /\ AgentTypeInv /\ HandlerTypeInv /\ PlanInv /\ StagedInv /\ CommitInv
  BY Zenon DEF LifecycleInv
<1>2. PICK O : O = Orphans
  OBVIOUS
<1>3. /\ ops' = [o \in OpIds |-> IF o \in O THEN [ops[o] EXCEPT !.status = "failed"] ELSE ops[o]]
      /\ rows' = [o \in OpIds |-> IF o \in O THEN WithoutPending(rows, o)[o] ELSE rows[o]]
      /\ UNCHANGED <<installed, instance, revs, run, up, tick, report, setting>>
  BY <1>2 DEF FailOrphaned, agents
<1>4. \A o \in O : o \in OpIds /\ Open(o) /\ (installed.found => installed.pend # o)
  BY <1>2, Zenon DEF Orphans
<1>5. ASSUME NEW o \in OpIds
      PROVE  /\ ops'[o] \in Operation /\ ops'[o].kind = ops[o].kind
             /\ ops[o] # NoOp => ops'[o] # NoOp
             /\ o \notin O => ops'[o] = ops[o]
  <2>1. ops[o] \in Operation
    BY <1>1, Zenon DEF PlanTypeInv
  <2>2. CASE o \in O
    <3>1. ops'[o] = [ops[o] EXCEPT !.status = "failed"]
      BY <1>3, <2>2
    <3> QED BY <2>1, <2>2, <3>1 DEF Operation, NoOp
  <2>3. CASE o \notin O
    BY <1>3, <2>1, <2>3
  <2> QED BY <2>2, <2>3
<1>6. ops' \in [OpIds -> Operation]
  BY <1>3, <1>5, Zenon
<1>7. PlanTypeInv'
  BY <1>1, <1>3, <1>6, Zenon DEF PlanTypeInv
<1>8. installed.found /\ installed.pend # 0 =>
        installed.pend \in OpIds /\ ops'[installed.pend] = ops[installed.pend]
  <2> SUFFICES ASSUME installed.found, installed.pend # 0
               PROVE  installed.pend \in OpIds /\ ops'[installed.pend] = ops[installed.pend]
    OBVIOUS
  <2>1. installed \in Plugin
    BY <1>1, PluginIs
  <2>2. installed.pend \in OpIds
    BY <2>1 DEF Plugin, Numbers
  <2> QED BY <1>4, <1>5, <2>2
<1>9. PlanInv'
  BY <1>1, <1>3, <1>8, Zenon DEF PlanInv, Open
<1>10. StagedInv'
  <2>1. Reclaims' => Reclaims
    BY <1>3 DEF Reclaims, Retains, Kinds
  <2>2. Kinds' = Kinds
    BY <1>3 DEF Kinds
  <2> QED BY <1>1, <1>3, <1>8, <2>1, <2>2, Zenon DEF StagedInv, Present
<1>11. PlanStays
  BY <1>3, <1>5, Zenon DEF PlanStays
<1>12. CommitInv'
  BY <1>1, <1>3, <1>11, CommitStays
<1>13. AgentTypeInv'
  <2>1. rows \in AnyRows
    BY <1>1, Zenon DEF AgentTypeInv, AnyRows
  <2>2. ASSUME NEW o \in OpIds
        PROVE  rows'[o] \in [Places -> Row]
    <3>1. WithoutPending(rows, o) \in AnyRows
      BY <2>1, WithoutPendingIs
    <3>2. rows'[o] \in {WithoutPending(rows, o)[o], rows[o]}
      BY <1>3
    <3> QED BY <2>1, <3>1, <3>2 DEF AnyRows
  <2>3. rows' = [o \in OpIds |-> rows'[o]]
    BY <1>3
  <2>4. rows' \in [OpIds -> [Places -> Row]]
    BY <2>2, <2>3, Zenon
  <2> QED BY <1>1, <1>3, <2>4, Zenon DEF AgentTypeInv
<1>14. HandlerTypeInv'
  BY <1>1, <1>3, Zenon DEF HandlerTypeInv, Fits
<1> QED BY <1>7, <1>9, <1>10, <1>12, <1>13, <1>14, Zenon DEF LifecycleInv

\* The invariant holds at the start.
LEMMA LifecycleInit ==
  ASSUME Init
  PROVE  LifecycleInv
<1>1. setting \in Setting
  BY BoundsAssumption DEF Init
<1>2. /\ First \in [Agents -> Revs] /\ 1 \in OpIds /\ MaxRevs \in Nat
      /\ 0 \in Numbers /\ 0 \in Revs /\ 0 \in AnyPackage
  BY <1>1, BoundsAssumption DEF Setting, First, OpIds, Revs, Numbers, AnyPackage
<1>3. /\ installed \in Plugin /\ installed.found
      /\ installed.pend = 0 /\ installed.pendRev = 0 /\ installed.staged = 0
  BY <1>2, BoundsAssumption DEF Init, Fresh, Plugin, Numbers
<1>4. instance \in [Instances -> {NoInstance} \union Instance] /\ Present(instance) = {}
  <2>1. \A i \in Instances : instance[i] = NoInstance
    BY DEF Init
  <2> QED BY <2>1 DEF Init, NoInstance, Present
<1>5. ops \in [OpIds -> Operation]
  <2>1. [kind |-> "install", status |-> "succeeded", rev |-> 0] \in Operation
    BY <1>2 DEF Operation
  <2>2. NoOp \in Operation
    BY <1>2 DEF Operation, NoOp
  <2> QED BY <2>1, <2>2 DEF Init
<1>6. rows \in [OpIds -> [Places -> Row]]
  <2>1. NoRow \in Row
    BY <1>2 DEF NoRow, Row
  <2> QED BY <2>1, Zenon DEF Init
<1>7. ASSUME NEW a \in Agents
      PROVE  revs[a] \in Seq(Revision) /\ Len(revs[a]) = First[a]
  <2>1. [op |-> 0, state |-> "applied", drain |-> "drained", gens |-> {}] \in Revision
    BY <1>2 DEF Revision
  <2>2. revs[a] = [r \in 1 .. First[a] |->
                     [op |-> 0, state |-> "applied", drain |-> "drained", gens |-> {}]]
    BY Zenon DEF Init
  <2>3. revs[a] \in [1 .. First[a] -> Revision]
    BY <2>1, <2>2
  <2>4. First[a] \in Nat
    BY <1>2 DEF Revs
  <2> QED BY <2>3, <2>4, SequenceIs
<1>8. revs \in [Agents -> Seq(Revision)]
  <2>1. revs = [a \in Agents |-> revs[a]]
    BY DEF Init
  <2> QED BY <1>7, <2>1, Zenon
<1>9. \A a \in Agents : Len(revs[a]) <= MaxRevs /\ run[a] \in 0 .. Len(revs[a])
  <2>1. run = First
    BY DEF Init
  <2> QED BY <1>2, <1>7, <2>1 DEF Revs
<1>10. up \in [Places -> {"active", "failed"}]
  BY DEF Init
<1>11. tick = Idle /\ report = Idle /\ setting \in Settings
  BY DEF Init
<1>12. PlanTypeInv
  BY <1>3, <1>4, <1>5, <1>11, Zenon DEF PlanTypeInv
<1>13. AgentTypeInv
  BY <1>6, <1>8, <1>9, <1>10, Zenon DEF AgentTypeInv
<1>14. tick.pc = "idle" /\ report.pc = "idle"
  BY <1>11 DEF Idle
<1>15. HandlerTypeInv
  BY <1>14 DEF HandlerTypeInv, Fits
<1>16. PlanInv
  BY <1>3 DEF PlanInv
<1>17. StagedInv
  BY <1>3, <1>4 DEF StagedInv
<1>18. CommitInv
  BY <1>14 DEF CommitInv, Committing
<1> QED BY <1>12, <1>13, <1>15, <1>16, <1>17, <1>18, Zenon DEF LifecycleInv

\* Every step keeps it.
LEMMA LifecycleStep ==
  ASSUME LifecycleInv, [Next]_vars
  PROVE  LifecycleInv'
<1>1. PlanTypeInv /\ setting.agents \subseteq Agents
  BY SettingIs DEF LifecycleInv
<1>2. CASE User
  BY <1>2, UserKeeps
<1>3. ASSUME NEW a \in setting.agents, Agent(a)
      PROVE  LifecycleInv'
  <2>1. a \in Agents
    BY <1>1
  <2>2. CASE Unrelated(a)
    BY <2>1, <2>2, UnrelatedKeeps
  <2>3. CASE Supersede(a)
    BY <2>1, <2>3, SupersedeKeeps
  <2>4. CASE Run(a)
    BY <2>1, <2>4, RunKeeps
  <2>5. CASE \E i \in Instances : Crash(a, i)
    BY <2>1, <2>5, CrashKeeps
  <2>6. CASE Applied(a) \/ Failed(a) \/ Drained(a)
    BY <2>1, <2>6, ReportsKeep
  <2>7. CASE \E i \in Instances : Status(a, i)
    BY <2>1, <2>7, StatusKeeps
  <2> QED BY <1>3, <2>2, <2>3, <2>4, <2>5, <2>6, <2>7, Zenon DEF Agent
<1>4. CASE HandleReport
  BY <1>4, HandleReportKeeps
<1>5. CASE Recover
  BY <1>5, RecoverKeeps
<1>6. CASE FailOrphaned
  BY <1>6, FailOrphanedKeeps
<1>7. CASE UNCHANGED vars
  <2>1. UNCHANGED <<installed, instance, ops, rows, revs, run, up, tick, report, setting>>
    BY <1>7 DEF vars
  <2>2. AgentTypeInv'
    BY <2>1, Zenon DEF LifecycleInv, AgentTypeInv
  <2>3. \A a \in Agents : Len(revs[a]) <= Len(revs'[a])
    BY <2>1 DEF LifecycleInv, AgentTypeInv
  <2> QED BY <2>1, <2>2, <2>3, HandlersUntouched
<1> QED BY <1>2, <1>3, <1>4, <1>5, <1>6, <1>7, Zenon DEF Next

(***************************************************************************)
(* Authority                                                               *)
(***************************************************************************)
\* The row is of an instance that its revision does not carry any more.
Leaving(q, p) ==
  /\ rows[q][p].state \in {"draining", "failed"}
  /\ rows[q][p].rev \in 1 .. Len(revs[p[1]])
  /\ \A g \in revs[p[1]][rows[q][p].rev].gens : g.inst # p[2]

\* The row of the plan names what the plan makes of the instance.
Planned(p) ==
  LET g == Generation(installed, instance[p[2]], p[2])
  IN  /\ instance[p[2]].found
      /\ rows[installed.pend][p].cfg = g.cfg /\ rows[installed.pend][p].pkg = g.pkg

\* What is staged for the plan is staged by an operation that stages, and a
\* configuration by one instance.
StagingInv ==
  /\ \A i \in Present(instance) : instance[i].pOp # 0 => ops[instance[i].pOp] # NoOp
  /\ installed.found /\ installed.pend # 0 =>
       \A i \in Present(instance) : instance[i].pOp = installed.pend =>
         /\ ops[installed.pend].kind \in {"configure", "upgrade", "rollback"}
         /\ ops[installed.pend].kind = "configure" =>
              \A j \in Present(instance) : instance[j].pOp = installed.pend => j = i

\* No row of the plan has authority, and one that may take it names what the plan
\* makes of its instance.
RowsInv ==
  /\ \A q \in OpIds, p \in Places : ops[q] = NoOp => rows[q][p] = NoRow
  /\ installed.found /\ installed.pend # 0 =>
       \A p \in Places :
         /\ rows[installed.pend][p].slot # "active"
         /\ rows[installed.pend][p].slot = "pending" => Planned(p) \/ Leaving(installed.pend, p)

\* A row gains nothing in a step.
RowStays(q, p) ==
  /\ rows'[q][p].slot = "active" => rows[q][p].slot = "active"
  /\ rows'[q][p].slot = "pending" =>
       /\ rows[q][p].slot = "pending"
       /\ rows'[q][p].cfg = rows[q][p].cfg /\ rows'[q][p].pkg = rows[q][p].pkg
       /\ Leaving(q, p) => Leaving(q, p)'
  /\ rows[q][p] = NoRow => rows'[q][p] = NoRow

RowsStay == \A q \in OpIds, p \in Places : RowStays(q, p)

\* No revision is taken back, and none carries something else.
RevsStay ==
  \A a \in Agents : \A n \in 1 .. Len(revs[a]) :
    n \in 1 .. Len(revs'[a]) /\ revs'[a][n].gens = revs[a][n].gens

\* No row gains anything in the step, and the plan stays or is over.
Quiet ==
  /\ RowsStay
  /\ instance' = instance
  /\ \A q \in OpIds : ops[q] # NoOp => ops'[q] # NoOp /\ ops'[q].kind = ops[q].kind
  /\ installed'.found /\ installed'.pend # 0 =>
       /\ installed.found /\ installed'.pend = installed.pend
       /\ installed'.staged = installed.staged /\ installed'.active = installed.active

\* Such a step gives authority to no row.
LEMMA QuietKeeps ==
  ASSUME LifecycleInv, StagingInv, RowsInv, Quiet
  PROVE  StagingInv' /\ RowsInv' /\ AuthorityTaken /\ PromotedForCause
<1>1. PlanTypeInv /\ PlanInv
  BY Zenon DEF LifecycleInv
<1>2. instance' = instance
  BY Zenon DEF Quiet
<1>3. \A q \in OpIds : ops[q] # NoOp => ops'[q] # NoOp /\ ops'[q].kind = ops[q].kind
  BY Zenon DEF Quiet
<1>4. ASSUME installed'.found, installed'.pend # 0
      PROVE  /\ installed.found /\ installed.pend # 0 /\ installed.pend \in OpIds
             /\ installed'.pend = installed.pend
             /\ installed'.staged = installed.staged /\ installed'.active = installed.active
             /\ ops'[installed.pend].kind = ops[installed.pend].kind
  <2>1. /\ installed.found /\ installed'.pend = installed.pend
        /\ installed'.staged = installed.staged /\ installed'.active = installed.active
    BY <1>4, Zenon DEF Quiet
  <2>2. installed \in Plugin
    BY <1>1, <2>1, PluginIs
  <2>3. installed.pend \in OpIds
    BY <1>4, <2>1, <2>2 DEF Plugin, Numbers
  <2>4. ops[installed.pend] # NoOp
    BY <1>1, <1>4, <2>1, OpenIs DEF PlanInv
  <2> QED BY <1>3, <1>4, <2>1, <2>3, <2>4
<1>5. StagingInv'
  <2>1. \A i \in Present(instance) : instance[i].pOp # 0 => ops'[instance[i].pOp] # NoOp
    <3> TAKE i \in Present(instance)
    <3> HAVE instance[i].pOp # 0
    <3>1. instance[i] \in Instance
      BY <1>1, InstanceIs DEF Present
    <3>2. instance[i].pOp \in OpIds
      BY <3>1 DEF Instance, Numbers
    <3> QED BY <1>3, <3>2, Zenon DEF StagingInv
  <2>2. installed'.found /\ installed'.pend # 0 =>
          \A i \in Present(instance) : instance[i].pOp = installed'.pend =>
            /\ ops'[installed'.pend].kind \in {"configure", "upgrade", "rollback"}
            /\ ops'[installed'.pend].kind = "configure" =>
                 \A j \in Present(instance) : instance[j].pOp = installed'.pend => j = i
    <3> HAVE installed'.found /\ installed'.pend # 0
    <3> QED BY <1>4, Zenon DEF StagingInv
  <2> QED BY <1>2, <2>1, <2>2, Zenon DEF StagingInv, Present
<1>6. RowsInv'
  <2>1. ASSUME NEW q \in OpIds, NEW p \in Places, ops'[q] = NoOp
        PROVE  rows'[q][p] = NoRow
    <3>1. ops[q] = NoOp
      BY <1>3, <2>1
    <3>2. rows[q][p] = NoRow
      BY <3>1, Zenon DEF RowsInv
    <3> QED BY <3>2, Zenon DEF Quiet, RowsStay, RowStays
  <2>2. ASSUME installed'.found, installed'.pend # 0, NEW p \in Places
        PROVE  /\ rows'[installed'.pend][p].slot # "active"
               /\ rows'[installed'.pend][p].slot = "pending" => Planned(p)' \/ Leaving(installed.pend, p)'
    <3>1. /\ installed.found /\ installed.pend # 0 /\ installed.pend \in OpIds
          /\ installed'.pend = installed.pend
          /\ installed'.staged = installed.staged /\ installed'.active = installed.active
      BY <1>4, <2>2
    <3>2. PICK o \in OpIds : o = installed.pend
      BY <3>1
    <3>3. RowStays(o, p)
      BY <3>2, Zenon DEF Quiet, RowsStay
    <3>4. /\ rows[o][p].slot # "active"
          /\ rows[o][p].slot = "pending" => Planned(p) \/ Leaving(o, p)
      BY <2>2, <3>1, <3>2, Zenon DEF RowsInv
    <3>5. rows'[o][p].slot # "active"
      BY <3>3, <3>4, Zenon DEF RowStays
    <3>6. ASSUME rows'[o][p].slot = "pending"
          PROVE  Planned(p)' \/ Leaving(o, p)'
      <4>1. /\ rows[o][p].slot = "pending"
            /\ rows'[o][p].cfg = rows[o][p].cfg /\ rows'[o][p].pkg = rows[o][p].pkg
            /\ Leaving(o, p) => Leaving(o, p)'
        BY <3>3, <3>6, Zenon DEF RowStays
      <4>2. CASE Planned(p)
        <5>1. PICK i, g : i = p[2] /\ g = Generation(installed, instance[i], i)
          OBVIOUS
        <5>2. PICK h : h = Generation(installed', instance[i], i)
          OBVIOUS
        <5>3. h.cfg = g.cfg /\ h.pkg = g.pkg
          BY <3>1, <5>1, <5>2 DEF Generation, Staged
        <5>4. instance[i].found /\ rows[o][p].cfg = g.cfg /\ rows[o][p].pkg = g.pkg
          BY <3>2, <4>2, <5>1, Zenon DEF Planned
        <5> QED BY <1>2, <3>1, <3>2, <4>1, <5>1, <5>2, <5>3, <5>4, Zenon DEF Planned
      <4> QED BY <3>4, <4>1, <4>2
    <3> QED BY <3>1, <3>2, <3>5, <3>6, Zenon
  <2>3. ASSUME installed'.found, installed'.pend # 0
        PROVE  installed'.pend = installed.pend
    BY <1>4, <2>3
  <2> QED BY <2>1, <2>2, <2>3, Zenon DEF RowsInv, Leaving
<1>7. AuthorityTaken
  BY Zenon DEF AuthorityTaken, Quiet, RowsStay, RowStays
<1>8. PromotedForCause
  BY <1>2, Zenon DEF PromotedForCause
<1> QED BY <1>5, <1>6, <1>7, <1>8

\* How a quiet step may change a row: it is retired, or fails.
RowFollows(q, p) ==
  \/ rows'[q][p] = rows[q][p]
  \/ rows'[q][p].slot = "retired" /\ rows[q][p].slot # "none"
  \/ /\ rows[q][p].slot # "none" /\ rows'[q][p].slot = rows[q][p].slot
     /\ rows'[q][p].cfg = rows[q][p].cfg /\ rows'[q][p].pkg = rows[q][p].pkg
     /\ rows'[q][p].rev = rows[q][p].rev /\ rows'[q][p].state = "failed"

\* A row that is left to its revision stays so.
LEMMA LeavingStays ==
  ASSUME RevsStay, NEW q \in OpIds, NEW p \in Places, Leaving(q, p),
         rows'[q][p].state \in {"draining", "failed"}, rows'[q][p].rev = rows[q][p].rev
  PROVE  Leaving(q, p)'
<1>1. p[1] \in Agents
  BY DEF Places
<1>2. PICK a, n : a = p[1] /\ n = rows[q][p].rev
  OBVIOUS
<1>3. n \in 1 .. Len(revs[a]) /\ \A g \in revs[a][n].gens : g.inst # p[2]
  BY <1>2, Zenon DEF Leaving
<1>4. n \in 1 .. Len(revs'[a]) /\ revs'[a][n].gens = revs[a][n].gens
  BY <1>1, <1>2, <1>3, Zenon DEF RevsStay
<1> QED BY <1>2, <1>3, <1>4, Zenon DEF Leaving

\* A row that is retired or fails gains nothing.
LEMMA FollowingStays ==
  ASSUME RevsStay, NEW q \in OpIds, NEW p \in Places, RowFollows(q, p)
  PROVE  RowStays(q, p)
<1>1. CASE rows'[q][p] = rows[q][p]
  <2>1. Leaving(q, p) => Leaving(q, p)'
    <3> HAVE Leaving(q, p)
    <3>1. rows[q][p].state \in {"draining", "failed"}
      BY Zenon DEF Leaving
    <3> QED BY <1>1, <3>1, LeavingStays
  <2> QED BY <1>1, <2>1, Zenon DEF RowStays
<1>2. CASE rows'[q][p].slot = "retired" /\ rows[q][p].slot # "none"
  BY <1>2 DEF RowStays, NoRow
<1>3. CASE /\ rows[q][p].slot # "none" /\ rows'[q][p].slot = rows[q][p].slot
           /\ rows'[q][p].cfg = rows[q][p].cfg /\ rows'[q][p].pkg = rows[q][p].pkg
           /\ rows'[q][p].rev = rows[q][p].rev /\ rows'[q][p].state = "failed"
  <2>1. Leaving(q, p) => Leaving(q, p)'
    BY <1>3, LeavingStays
  <2>2. rows[q][p] # NoRow
    BY <1>3 DEF NoRow
  <2> QED BY <1>3, <2>1, <2>2, Zenon DEF RowStays
<1> QED BY <1>1, <1>2, <1>3, Zenon DEF RowFollows

\* So do all of them.
LEMMA AllFollowing ==
  ASSUME RevsStay, \A q \in OpIds, p \in Places : RowFollows(q, p)
  PROVE  RowsStay
BY FollowingStays, Zenon DEF RowsStay

\* A step that leaves the plan alone, and the rows or only retires them.
LEMMA RowsFollow ==
  ASSUME LifecycleInv, UNCHANGED <<installed, instance, ops>>, RevsStay,
         \A q \in OpIds, p \in Places : RowFollows(q, p)
  PROVE  Quiet
<1>1. RowsStay
  BY AllFollowing
<1> QED BY <1>1, Zenon DEF Quiet

\* Revisions that do not change stay.
LEMMA SameRevs ==
  ASSUME UNCHANGED revs
  PROVE  RevsStay
BY Zenon DEF RevsStay

\* A step of an agent or of a handler that changes no table is quiet.
LEMMA TablesUntouched ==
  ASSUME LifecycleInv, UNCHANGED <<installed, instance, ops, rows, revs>>
  PROVE  Quiet
<1>1. RevsStay
  BY SameRevs
<1>2. \A q \in OpIds, p \in Places : RowFollows(q, p)
  BY Zenon DEF RowFollows
<1> QED BY <1>1, <1>2, RowsFollow

\* A step that changes only what is said of a revision is quiet.
LEMMA RevisionsMarked ==
  ASSUME LifecycleInv, UNCHANGED <<installed, instance, ops, rows>>, RevsStay
  PROVE  Quiet
<1>1. \A q \in OpIds, p \in Places : RowFollows(q, p)
  BY Zenon DEF RowFollows
<1> QED BY <1>1, RowsFollow

\* One revision gets another state.
LEMMA OneMarked ==
  ASSUME AgentTypeInv, NEW a \in Agents, NEW r \in 1 .. Len(revs[a]), NEW x \in Revision,
         x.gens = revs[a][r].gens, revs' = [revs EXCEPT ![a][r] = x]
  PROVE  RevsStay
<1>1. revs \in [Agents -> Seq(Revision)]
  BY Zenon DEF AgentTypeInv
<1>2. PICK s : s = [revs[a] EXCEPT ![r] = x]
  OBVIOUS
<1>3. s \in Seq(Revision) /\ Len(s) = Len(revs[a])
  BY <1>1, <1>2, ExceptSeq
<1>4. revs' = [revs EXCEPT ![a] = s]
  BY <1>2
<1>5. ASSUME NEW b \in Agents, NEW n \in 1 .. Len(revs[b])
      PROVE  n \in 1 .. Len(revs'[b]) /\ revs'[b][n].gens = revs[b][n].gens
  <2>1. CASE b # a
    <3>1. revs'[b] = revs[b]
      BY <1>1, <1>4, <2>1
    <3> QED BY <3>1
  <2>2. CASE b = a
    <3>1. revs'[b] = s
      BY <1>1, <1>4, <2>2
    <3>2. revs[a] \in Seq(Revision)
      BY <1>1
    <3>3. s[n] = IF n = r THEN x ELSE revs[a][n]
      BY <1>2, <2>2, <3>2
    <3> QED BY <1>3, <2>2, <3>1, <3>3
  <2> QED BY <2>1, <2>2
<1> QED BY <1>5, Zenon DEF RevsStay

\* The revisions that are overtaken are superseded: a quiet step.
LEMMA SupersedeIsQuiet ==
  ASSUME LifecycleInv, NEW a \in Agents, Supersede(a)
  PROVE  Quiet
<1>1. revs \in [Agents -> Seq(Revision)]
  BY Zenon DEF LifecycleInv, AgentTypeInv
<1>2. PICK s : s = [r \in DOMAIN revs[a] |->
                      IF r \in Overtaken(a) THEN [revs[a][r] EXCEPT !.state = "superseded"]
                                            ELSE revs[a][r]]
  OBVIOUS
<1>3. /\ revs' = [revs EXCEPT ![a] = s]
      /\ UNCHANGED <<installed, instance, ops, rows>>
  BY <1>2, Zenon DEF Supersede
<1>4. revs[a] \in Seq(Revision) /\ Len(revs[a]) \in Nat /\ DOMAIN revs[a] = 1 .. Len(revs[a])
  BY <1>1, LenProperties
<1>5. ASSUME NEW r \in 1 .. Len(revs[a])
      PROVE  s[r] \in Revision /\ s[r].gens = revs[a][r].gens
  <2>1. revs[a][r] \in Revision
    BY <1>4
  <2>2. s[r] = revs[a][r] \/ s[r] = [revs[a][r] EXCEPT !.state = "superseded"]
    BY <1>2, <1>4
  <2>3. CASE s[r] = revs[a][r]
    BY <2>1, <2>3
  <2>4. CASE s[r] = [revs[a][r] EXCEPT !.state = "superseded"]
    BY <2>1, <2>4 DEF Revision
  <2> QED BY <2>2, <2>3, <2>4
<1>6. s \in [1 .. Len(revs[a]) -> Revision]
  BY <1>2, <1>4, <1>5
<1>7. Len(s) = Len(revs[a])
  BY <1>4, <1>6, SequenceIs
<1>8. ASSUME NEW b \in Agents, NEW n \in 1 .. Len(revs[b])
      PROVE  n \in 1 .. Len(revs'[b]) /\ revs'[b][n].gens = revs[b][n].gens
  <2>1. CASE b # a
    <3>1. revs'[b] = revs[b]
      BY <1>1, <1>3, <2>1
    <3> QED BY <3>1
  <2>2. CASE b = a
    <3>1. revs'[b] = s
      BY <1>1, <1>3, <2>2
    <3> QED BY <1>5, <1>7, <2>2, <3>1
  <2> QED BY <2>1, <2>2
<1>9. RevsStay
  BY <1>8, Zenon DEF RevsStay
<1> QED BY <1>3, <1>9, RevisionsMarked

\* So are the reports of a revision.
LEMMA ReportsAreQuiet ==
  ASSUME LifecycleInv, NEW a \in Agents, Applied(a) \/ Failed(a) \/ Drained(a)
  PROVE  Quiet
<1>1. AgentTypeInv
  BY Zenon DEF LifecycleInv
<1>2. revs[a] \in Seq(Revision) /\ Len(revs[a]) \in Nat /\ run[a] \in 0 .. Len(revs[a])
  BY <1>1 DEF AgentTypeInv
<1>3. CASE Applied(a)
  <2>1. PICK r : r = run[a]
    OBVIOUS
  <2>2. PICK d : d = IF {q \in 1 .. run[a] - 1 : revs[a][q].state = "applied"} = {}
                       THEN "drained" ELSE "draining"
    OBVIOUS
  <2>3. PICK x : x = [revs[a][r] EXCEPT !.state = "applied", !.drain = d]
    OBVIOUS
  <2>4. /\ run[a] > 0 /\ revs' = [revs EXCEPT ![a][r] = x]
        /\ UNCHANGED <<installed, instance, ops, rows>>
    BY <1>3, <2>1, <2>2, <2>3 DEF Applied
  <2>5. r \in 1 .. Len(revs[a])
    BY <1>2, <2>1, <2>4
  <2>6. revs[a][r] \in Revision
    BY <1>2, <2>5
  <2>7. d \in {"none", "draining", "drained"}
    BY <2>2
  <2>8. x \in Revision /\ x.gens = revs[a][r].gens
    BY <2>3, <2>6, <2>7 DEF Revision
  <2>9. RevsStay
    BY <1>1, <2>4, <2>5, <2>8, OneMarked
  <2> QED BY <2>4, <2>9, RevisionsMarked
<1>4. CASE Failed(a)
  <2>1. PICK r : r = Desired(a)
    OBVIOUS
  <2>2. PICK x : x = [revs[a][r] EXCEPT !.state = "failed"]
    OBVIOUS
  <2>3. /\ r > run[a] /\ revs' = [revs EXCEPT ![a][r] = x]
        /\ UNCHANGED <<installed, instance, ops, rows>>
    BY <1>4, <2>1, <2>2 DEF Failed
  <2>4. r \in 1 .. Len(revs[a])
    BY <1>2, <2>1, <2>3 DEF Desired
  <2>5. revs[a][r] \in Revision
    BY <1>2, <2>4
  <2>6. x \in Revision /\ x.gens = revs[a][r].gens
    BY <2>2, <2>5 DEF Revision
  <2>7. RevsStay
    BY <1>1, <2>3, <2>4, <2>6, OneMarked
  <2> QED BY <2>3, <2>7, RevisionsMarked
<1>5. CASE Drained(a)
  <2>1. PICK r : r = run[a]
    OBVIOUS
  <2>2. PICK x : x = [revs[a][r] EXCEPT !.drain = "drained"]
    OBVIOUS
  <2>3. /\ run[a] > 0 /\ revs' = [revs EXCEPT ![a][r] = x]
        /\ UNCHANGED <<installed, instance, ops, rows>>
    BY <1>5, <2>1, <2>2 DEF Drained
  <2>4. r \in 1 .. Len(revs[a])
    BY <1>2, <2>1, <2>3
  <2>5. revs[a][r] \in Revision
    BY <1>2, <2>4
  <2>6. x \in Revision /\ x.gens = revs[a][r].gens
    BY <2>2, <2>5 DEF Revision
  <2>7. RevsStay
    BY <1>1, <2>3, <2>4, <2>6, OneMarked
  <2> QED BY <2>3, <2>7, RevisionsMarked
<1> QED BY <1>3, <1>4, <1>5

\* A row that is pending is retired with its operation.
LEMMA RetiredFollows ==
  ASSUME NEW q \in OpIds, NEW p \in Places, rows \in AnyRows,
         rows'[q][p] = Retire(rows[q][p]), rows[q][p].slot \in {"pending", "active"}
  PROVE  RowFollows(q, p)
<1>1. rows[q][p] \in Row
  BY Zenon DEF AnyRows
<1>2. rows'[q][p].slot = "retired" /\ rows[q][p].slot # "none"
  BY <1>1 DEF Retire, Row
<1> QED BY <1>2, Zenon DEF RowFollows

\* The rows of an operation that is superseded follow.
LEMMA SupersededFollows ==
  ASSUME rows \in AnyRows, NEW o \in OpIds, NEW p \in Places,
         rows'[o][p] = WithoutPending(rows, o)[o][p]
  PROVE  RowFollows(o, p)
<1>1. WithoutPending(rows, o)[o][p] = IF rows[o][p].slot = "pending" THEN Retire(rows[o][p]) ELSE rows[o][p]
  BY DEF WithoutPending, AnyRows
<1>2. CASE rows[o][p].slot = "pending"
  BY <1>1, <1>2, RetiredFollows
<1>3. CASE rows[o][p].slot # "pending"
  BY <1>1, <1>3, Zenon DEF RowFollows
<1> QED BY <1>2, <1>3

\* An operation that is given up leaves the plan, and gives authority to no row.
LEMMA LoadIsQuiet ==
  ASSUME LifecycleInv, NEW w, NEW n, NEW x, Handler(w, n, x), Load(w, n)
  PROVE  Quiet
<1>1. PlanTypeInv /\ AgentTypeInv /\ HandlerTypeInv /\ CommitInv
  BY Zenon DEF LifecycleInv
<1>2. w.pc = "complete" /\ UNCHANGED <<installed, instance, revs>>
  BY DEF Load
<1>3. w.op \in OpIds
  BY <1>1, <1>2, HandlerIs DEF Fits
<1>4. CASE UNCHANGED <<ops, rows>>
  BY <1>2, <1>4, TablesUntouched
<1>5. CASE Open(w.op) /\ ops' = [ops EXCEPT ![w.op].status = "failed"] /\ rows' = WithoutPending(rows, w.op)
  <2>1. rows \in AnyRows
    BY <1>1, Zenon DEF AgentTypeInv, AnyRows
  <2>2. PICK o \in OpIds : o = w.op
    BY <1>3
  <2>3. ASSUME NEW q \in OpIds, NEW p \in Places
        PROVE  RowFollows(q, p)
    <3>1. CASE q = o
      BY <1>5, <2>1, <2>2, <3>1, SupersededFollows
    <3>2. CASE q # o
      <4>1. rows'[q] = rows[q]
        BY <1>5, <2>1, <2>2, <3>2 DEF WithoutPending, AnyRows
      <4> QED BY <4>1, Zenon DEF RowFollows
    <3> QED BY <3>1, <3>2
  <2>4. RowsStay
    BY <1>2, <2>3, SameRevs, AllFollowing
  <2>5. \A q \in OpIds : ops'[q].kind = ops[q].kind /\ (ops[q] # NoOp => ops'[q] # NoOp)
    <3>1. ops' = Ended(o, "failed")
      BY <1>5, <2>2, Zenon DEF Ended
    <3>2. Open(o)
      BY <1>5, <2>2
    <3> QED BY <1>1, <3>1, <3>2, OperationEnds
  <2> QED BY <1>2, <2>4, <2>5, Zenon DEF Quiet
<1> QED BY <1>4, <1>5, Zenon DEF Load

\* Operations that nothing names are given up.
LEMMA FailOrphanedIsQuiet ==
  ASSUME LifecycleInv, FailOrphaned
  PROVE  Quiet
<1>1. PlanTypeInv /\ AgentTypeInv
  BY Zenon DEF LifecycleInv
<1>2. PICK O : O = Orphans
  OBVIOUS
<1>3. /\ ops' = [o \in OpIds |-> IF o \in O THEN [ops[o] EXCEPT !.status = "failed"] ELSE ops[o]]
      /\ rows' = [o \in OpIds |-> IF o \in O THEN WithoutPending(rows, o)[o] ELSE rows[o]]
      /\ UNCHANGED <<installed, instance, revs>>
  BY <1>2 DEF FailOrphaned
<1>4. \A o \in O : o \in OpIds /\ Open(o)
  BY <1>2, Zenon DEF Orphans
<1>5. rows \in AnyRows
  BY <1>1, Zenon DEF AgentTypeInv, AnyRows
<1>6. ASSUME NEW q \in OpIds, NEW p \in Places
      PROVE  RowFollows(q, p)
  <2>1. CASE q \in O
    <3>1. rows'[q][p] = WithoutPending(rows, q)[q][p]
      BY <1>3, <2>1
    <3> QED BY <1>5, <3>1, SupersededFollows
  <2>2. CASE q \notin O
    <3>1. rows'[q][p] = rows[q][p]
      BY <1>3, <2>2
    <3> QED BY <3>1, Zenon DEF RowFollows
  <2> QED BY <2>1, <2>2
<1>7. RowsStay
  BY <1>3, <1>6, SameRevs, AllFollowing
<1>8. ASSUME NEW q \in OpIds, ops[q] # NoOp
      PROVE  ops'[q] # NoOp /\ ops'[q].kind = ops[q].kind
  <2>1. ops[q] \in Operation
    BY <1>1, Zenon DEF PlanTypeInv
  <2>2. CASE q \in O
    <3>1. ops'[q] = [ops[q] EXCEPT !.status = "failed"]
      BY <1>3, <2>2
    <3> QED BY <2>1, <3>1 DEF Operation, NoOp
  <2>3. CASE q \notin O
    <3>1. ops'[q] = ops[q]
      BY <1>3, <2>3
    <3> QED BY <1>8, <3>1
  <2> QED BY <2>2, <2>3
<1> QED BY <1>3, <1>7, <1>8, Zenon DEF Quiet

\* An installation plans nothing.
LEMMA InstallIsQuiet ==
  ASSUME LifecycleInv, Install
  PROVE  Quiet
<1>1. PlanTypeInv
  BY Zenon DEF LifecycleInv
<1>2. PICK o : o = NextOp
  OBVIOUS
<1>3. /\ Unused # {} /\ UNCHANGED <<instance, rows, revs>>
      /\ installed' = Fresh(o)
      /\ ops' = [ops EXCEPT ![o] = [kind |-> "install", status |-> "succeeded", rev |-> 0]]
  BY <1>2, Zenon DEF Install
<1>4. o \in OpIds /\ ops[o] = NoOp
  BY <1>2, <1>3, NextOpIs
<1>5. installed'.pend = 0
  BY <1>3 DEF Fresh
<1>6. \A q \in OpIds : ops[q] # NoOp => ops'[q] # NoOp /\ ops'[q].kind = ops[q].kind
  BY <1>1, <1>3, <1>4 DEF PlanTypeInv
<1>7. RowsStay
  <2>1. \A q \in OpIds, p \in Places : RowFollows(q, p)
    BY <1>3, Zenon DEF RowFollows
  <2> QED BY <1>3, <2>1, SameRevs, AllFollowing
<1> QED BY <1>3, <1>5, <1>6, <1>7, Zenon DEF Quiet

\* The handler of a report takes the rows of the revision: they fail, are drained
\* or are retired.
LEMMA ExpectedIsQuiet ==
  ASSUME LifecycleInv, Expected
  PROVE  Quiet
<1>1. AgentTypeInv
  BY Zenon DEF LifecycleInv
<1>2. PICK a, o, said : a = report.agent /\ o = revs[a][report.rev].op /\ said = report.said
  OBVIOUS
<1>3. PICK mine : mine = {i \in Instances : o /= 0 /\ rows[o][<<a, i>>].rev = report.rev}
  OBVIOUS
<1>4. UNCHANGED <<installed, instance, ops, revs>>
  BY DEF Expected
<1>5. rows \in AnyRows
  BY <1>1, Zenon DEF AgentTypeInv, AnyRows
<1>6. CASE UNCHANGED rows
  BY <1>4, <1>6, TablesUntouched
<1>7. CASE mine /= {} /\ report.said /= "applied" /\ ~UNCHANGED rows
  <2>1. PICK drains \in [Instances -> BOOLEAN] :
          drains = [k \in Instances |-> /\ k \in mine /\ said = "drained" /\ Listens(rows[o][<<a, k>>])
                                        /\ rows[o][<<a, k>>].state = "draining"]
    OBVIOUS
  <2>2. rows' = [q \in OpIds |-> [p \in Places |->
                 CASE p[1] = a /\ p[2] \in mine /\ q = o -> Recorded(rows[q][p], said)
                   [] p[1] = a /\ drains[p[2]] /\ q /= o /\ rows[q][p].slot = "active" ->
                        Retire(rows[q][p])
                   [] OTHER -> rows[q][p]]]
    BY <1>2, <1>3, <1>7, <2>1, ZenonT(60) DEF Expected, Places
  <2>3. ASSUME NEW q \in OpIds, NEW p \in Places
        PROVE  RowFollows(q, p)
    <3>1. rows[q][p] \in Row
      BY <1>5, Zenon DEF AnyRows
    <3>2. \/ rows'[q][p] = rows[q][p]
          \/ rows'[q][p] = Retire(rows[q][p]) /\ rows[q][p].slot = "active"
          \/ rows'[q][p] = Recorded(rows[q][p], said)
      BY <2>2
    <3>3. CASE rows'[q][p] = rows[q][p]
      BY <3>3, Zenon DEF RowFollows
    <3>4. CASE rows'[q][p] = Retire(rows[q][p]) /\ rows[q][p].slot = "active"
      BY <1>5, <3>4, RetiredFollows
    <3>5. CASE rows'[q][p] = Recorded(rows[q][p], said)
      <4>1. CASE said = "failed" /\ Listens(rows[q][p]) /\ ~Reported(rows[q][p])
        <5>1. rows'[q][p] = [rows[q][p] EXCEPT !.state = "failed"]
          BY <3>5, <4>1 DEF Recorded
        <5>2. rows[q][p].slot # "none"
          BY <4>1 DEF Listens
        <5> QED BY <3>1, <5>1, <5>2 DEF RowFollows, Row
      <4>2. CASE said = "drained" /\ Listens(rows[q][p]) /\ rows[q][p].state = "draining"
        <5>1. rows'[q][p] = [rows[q][p] EXCEPT !.state = "drained", !.slot = "retired"]
          BY <3>5, <4>2 DEF Recorded
        <5>2. rows[q][p].slot # "none"
          BY <4>2 DEF Listens
        <5> QED BY <3>1, <5>1, <5>2 DEF RowFollows, Row
      <4>3. CASE /\ ~(said = "failed" /\ Listens(rows[q][p]) /\ ~Reported(rows[q][p]))
                 /\ ~(said = "drained" /\ Listens(rows[q][p]) /\ rows[q][p].state = "draining")
        <5>1. rows'[q][p] = rows[q][p]
          BY <3>5, <4>3 DEF Recorded
        <5> QED BY <5>1, Zenon DEF RowFollows
      <4> QED BY <4>1, <4>2, <4>3
    <3> QED BY <3>2, <3>3, <3>4, <3>5
  <2> QED BY <1>4, <2>3, SameRevs, RowsFollow
<1> QED BY <1>2, <1>3, <1>6, <1>7, Zenon DEF Expected

\* A status is of an instance that the agent's revision carries.
LEMMA StatusIsQuiet ==
  ASSUME LifecycleInv, NEW a \in Agents, NEW i \in Instances, Status(a, i)
  PROVE  Quiet
<1>1. AgentTypeInv
  BY Zenon DEF LifecycleInv
<1>2. PICK g \in revs[a][run[a]].gens :
        /\ rows' = [rows EXCEPT ![g.op][<<a, i>>].state = up[<<a, i>>]]
        /\ g.inst = i
        /\ Listens(rows[g.op][<<a, i>>])
        /\ <<rows[g.op][<<a, i>>].rev, rows[g.op][<<a, i>>].cfg, rows[g.op][<<a, i>>].pkg>>
             = <<run[a], g.cfg, g.pkg>>
  BY Zenon DEF Status
<1>3. run[a] > 0 /\ UNCHANGED <<installed, instance, ops, revs>>
  BY DEF Status
<1>4. g \in Gen
  <2>1. revs[a] \in Seq(Revision) /\ run[a] \in 1 .. Len(revs[a])
    BY <1>1, <1>3 DEF AgentTypeInv
  <2>2. revs[a][run[a]] \in Revision
    BY <2>1
  <2> QED BY <1>2, <2>2 DEF Revision
<1>5. PICK o \in OpIds : o = g.op
  BY <1>4 DEF Gen
<1>6. PICK p \in Places : p = <<a, i>>
  BY DEF Places
<1>7. rows \in AnyRows
  BY <1>1, Zenon DEF AgentTypeInv, AnyRows
<1>8. rows[o][p] \in Row
  BY <1>7, Zenon DEF AnyRows
<1>9. PICK s : s = up[p]
  OBVIOUS
<1>10. /\ rows'[o][p] = [rows[o][p] EXCEPT !.state = s]
       /\ \A q \in OpIds, u \in Places : (q # o \/ u # p) => rows'[q][u] = rows[q][u]
  BY <1>2, <1>5, <1>6, <1>7, <1>9 DEF AnyRows
<1>11. rows[o][p].rev = run[a] /\ Listens(rows[o][p])
  BY <1>2, <1>5, <1>6
<1>12. ~Leaving(o, p)
  <2>1. p[1] = a /\ p[2] = i
    BY <1>6
  <2> QED BY <1>2, <1>11, <2>1, Zenon DEF Leaving
<1>13. RowStays(o, p)
  <2>1. rows[o][p] # NoRow
    BY <1>11 DEF Listens, NoRow
  <2>2. /\ rows'[o][p].slot = rows[o][p].slot
        /\ rows'[o][p].cfg = rows[o][p].cfg /\ rows'[o][p].pkg = rows[o][p].pkg
    BY <1>8, <1>10 DEF Row
  <2> QED BY <1>12, <2>1, <2>2, Zenon DEF RowStays
<1>14. ASSUME NEW q \in OpIds, NEW u \in Places, q # o \/ u # p
       PROVE  RowStays(q, u)
  <2>1. rows'[q][u] = rows[q][u]
    BY <1>10, <1>14
  <2>2. Leaving(q, u) => Leaving(q, u)'
    <3> HAVE Leaving(q, u)
    <3>1. rows[q][u].state \in {"draining", "failed"}
      BY Zenon DEF Leaving
    <3> QED BY <1>3, <2>1, <3>1, SameRevs, LeavingStays
  <2> QED BY <2>1, <2>2, Zenon DEF RowStays
<1>15. RowsStay
  BY <1>13, <1>14, Zenon DEF RowsStay
<1> QED BY <1>3, <1>15, Zenon DEF Quiet

\* A rebase moves rows that run: they gain nothing, and the plan stays.
LEMMA RebaseIsQuiet ==
  ASSUME LifecycleInv, NEW T \in SUBSET Agents, NEW r, NEW gens, Rebase(T, r, gens),
         \A a \in T : r[a] \in Revs,
         \A a \in T : ~Conflict(a, r[a], gens[a]),
         UNCHANGED <<instance, setting>>, RevsStay
  PROVE  Quiet
<1>1. PlanTypeInv /\ AgentTypeInv
  BY Zenon DEF LifecycleInv
<1>2. rows \in AnyRows
  BY <1>1, Zenon DEF AgentTypeInv, AnyRows
<1>3. PlanStays
  BY RebaseKeeps
<1>4. ASSUME NEW q \in OpIds, NEW p \in Places
      PROVE  RowStays(q, p)
  <2>1. rows' = Rebased(T, r, gens)
    BY RebaseIs
  <2>2. CASE ~Moves(T, r, gens, q, p)
    <3>1. rows'[q][p] = rows[q][p]
      BY <2>1, <2>2, Zenon DEF Rebased
    <3>2. Leaving(q, p) => Leaving(q, p)'
      <4> HAVE Leaving(q, p)
      <4>1. rows[q][p].state \in {"draining", "failed"}
        BY Zenon DEF Leaving
      <4> QED BY <3>1, <4>1, LeavingStays
    <3> QED BY <3>1, <3>2, Zenon DEF RowStays
  <2>3. CASE Moves(T, r, gens, q, p)
    <3>1. PICK g \in gens[p[1]] : g.op = q /\ g.inst = p[2] /\ Inherits(p[1], r[p[1]], g)
      BY <2>3, Zenon DEF Moves
    <3>2. PICK a, i : a = p[1] /\ i = p[2]
      OBVIOUS
    <3>3. p = <<a, i>>
      BY <3>2 DEF Places
    <3>4. rows[q][p].slot = "pending" /\ rows[q][p].state = "applying"
      BY <3>1, <3>2, <3>3, Zenon DEF Inherits
    <3>5. PICK m : m = r[p[1]]
      OBVIOUS
    <3>6. rows'[q][p] = [rows[q][p] EXCEPT !.rev = m]
      BY <2>1, <2>3, <3>5, Zenon DEF Rebased
    <3>7. rows[q][p] \in Row
      BY <1>2, Zenon DEF AnyRows
    <3>8. ~Leaving(q, p) /\ rows[q][p] # NoRow
      BY <3>4 DEF Leaving, NoRow
    <3>9. /\ rows'[q][p].slot = rows[q][p].slot
          /\ rows'[q][p].cfg = rows[q][p].cfg /\ rows'[q][p].pkg = rows[q][p].pkg
      BY <3>6, <3>7 DEF Row
    <3> QED BY <3>8, <3>9, Zenon DEF RowStays
  <2> QED BY <2>2, <2>3
<1>5. RowsStay
  BY <1>4, Zenon DEF RowsStay
<1>6. installed'.found /\ installed'.pend # 0 =>
        /\ installed.found /\ installed'.pend = installed.pend
        /\ installed'.staged = installed.staged /\ installed'.active = installed.active
  <2>1. CASE Moved(T, r, gens) = {}
    <3>1. installed' = installed
      BY <2>1, RebaseIs
    <3> QED BY <3>1
  <2>2. CASE Moved(T, r, gens) # {}
    <3>1. installed.found
      BY <2>2, MovedIsPlanned
    <3>2. installed \in Plugin
      BY <1>1, <3>1, PluginIs
    <3>3. PICK n : n = IF High(T, r, gens) > installed.pendRev THEN High(T, r, gens) ELSE installed.pendRev
      OBVIOUS
    <3>4. installed' = [installed EXCEPT !.pendRev = n]
      BY <2>2, <3>3, RebaseIs DEF Refenced
    <3> QED BY <3>1, <3>2, <3>4 DEF Plugin
  <2> QED BY <2>1, <2>2
<1> QED BY <1>3, <1>5, <1>6, Zenon DEF Quiet, PlanStays

\* A revision is appended for one agent.
LEMMA OneAppended ==
  ASSUME AgentTypeInv, NEW a \in Agents, NEW gens \in SUBSET Gen,
         revs' = [revs EXCEPT ![a] = Append(@, NewRevision(0, gens))]
  PROVE  RevsStay
<1>1. revs \in [Agents -> Seq(Revision)]
  BY Zenon DEF AgentTypeInv
<1>2. PICK x : x = NewRevision(0, gens)
  OBVIOUS
<1>3. x \in Revision
  BY <1>2 DEF NewRevision, Revision, Numbers
<1>4. PICK s : s = Append(revs[a], x)
  OBVIOUS
<1>5. revs' = [revs EXCEPT ![a] = s]
  BY <1>2, <1>4, Zenon
<1>6. revs[a] \in Seq(Revision)
  BY <1>1
<1>7. Len(s) = Len(revs[a]) + 1 /\ \A n \in 1 .. Len(revs[a]) : s[n] = revs[a][n]
  BY <1>3, <1>4, <1>6
<1>8. ASSUME NEW b \in Agents, NEW n \in 1 .. Len(revs[b])
      PROVE  n \in 1 .. Len(revs'[b]) /\ revs'[b][n].gens = revs[b][n].gens
  <2>1. CASE b # a
    <3>1. revs'[b] = revs[b]
      BY <1>1, <1>5, <2>1
    <3> QED BY <3>1
  <2>2. CASE b = a
    <3>1. revs'[b] = s /\ Len(revs[a]) \in Nat
      BY <1>1, <1>5, <1>6, <2>2
    <3>2. n \in 1 .. Len(s)
      BY <1>7, <2>2, <3>1
    <3> QED BY <1>7, <2>2, <3>1, <3>2
  <2> QED BY <2>1, <2>2
<1> QED BY <1>8, Zenon DEF RevsStay

\* Another mutation, or a heartbeat.
LEMMA UnrelatedIsQuiet ==
  ASSUME LifecycleInv, NEW a \in Agents, Unrelated(a)
  PROVE  Quiet
<1>1. PICK gens : gens = Built(installed, instance, a)
  OBVIOUS
<1>2. PICK r : r = [b \in Agents |-> Desired(b) + 1]
  OBVIOUS
<1>3. PICK all : all = [b \in Agents |-> gens]
  OBVIOUS
<1>4. /\ Desired(a) < setting.revs
      /\ ~Conflict(a, r[a], all[a])
      /\ Rebase({a}, r, all)
      /\ revs' = [revs EXCEPT ![a] = Append(@, NewRevision(0, gens))]
      /\ UNCHANGED <<instance, setting>>
  BY <1>1, <1>2, <1>3, Zenon DEF Unrelated
<1>5. PlanTypeInv /\ AgentTypeInv
  BY Zenon DEF LifecycleInv
<1>6. gens \in SUBSET Gen
  <2>1. instance \in AnyInstances /\ (installed = NoPlugin \/ installed \in Plugin)
    BY <1>5, Zenon DEF PlanTypeInv, AnyInstances
  <2> QED BY <1>1, <2>1, BuiltIs
<1>7. Desired(a) + 1 \in 0 .. MaxRevs
  BY <1>4, <1>5, SettingIs DEF AgentTypeInv, Desired
<1>8. RevsStay
  BY <1>4, <1>5, <1>6, OneAppended
<1>9. {a} \in SUBSET Agents /\ \A b \in {a} : r[b] \in Revs
  BY <1>2, <1>7 DEF Revs
<1>10. \A b \in {a} : ~Conflict(b, r[b], all[b])
  BY <1>4
<1> QED BY <1>4, <1>8, <1>9, <1>10, RebaseIsQuiet

\* A target of the pending configuration that has moved on.
LEMMA SupersededTargetIsQuiet ==
  ASSUME LifecycleInv, NEW a \in Agents, SupersededTarget(a)
  PROVE  Quiet
<1>1. UNCHANGED <<instance, revs, setting>> /\ AgentTypeInv
  BY DEF SupersededTarget, LifecycleInv
<1>2. CASE UNCHANGED <<installed, ops, rows>>
  BY <1>1, <1>2, TablesUntouched
<1>3. CASE \E r, gens : /\ ~Conflict(a, r, gens) /\ r = Desired(a)
                        /\ Rebase({a}, [b \in Agents |-> r], [b \in Agents |-> gens])
  <2>1. PICK r, gens : /\ ~Conflict(a, r, gens) /\ r = Desired(a)
                       /\ Rebase({a}, [b \in Agents |-> r], [b \in Agents |-> gens])
    BY <1>3
  <2>2. PICK rs, gs : rs = [b \in Agents |-> r] /\ gs = [b \in Agents |-> gens]
    OBVIOUS
  <2>3. r \in Revs
    BY <1>1, <2>1, BoundsAssumption DEF AgentTypeInv, Desired, Revs
  <2>4. {a} \in SUBSET Agents /\ \A b \in {a} : rs[b] \in Revs
    BY <2>2, <2>3
  <2>5. \A b \in {a} : ~Conflict(b, rs[b], gs[b])
    BY <2>1, <2>2
  <2>6. Rebase({a}, rs, gs)
    BY <2>1, <2>2, Zenon
  <2> QED BY <1>1, <2>4, <2>5, <2>6, SameRevs, RebaseIsQuiet
<1> QED BY <1>2, <1>3, Zenon DEF SupersededTarget

\* An uninstallation leaves no plan.
LEMMA UninstallGrants ==
  ASSUME LifecycleInv, StagingInv, RowsInv, Uninstall
  PROVE  StagingInv' /\ RowsInv' /\ AuthorityTaken /\ PromotedForCause
<1>1. PlanTypeInv
  BY Zenon DEF LifecycleInv
<1>2. PICK o : o = NextOp
  OBVIOUS
<1>3. /\ Unused # {} /\ UNCHANGED <<rows, revs>>
      /\ installed' = NoPlugin
      /\ ops' = [ops EXCEPT ![o] = [kind |-> "uninstall", status |-> "succeeded", rev |-> 0]]
      /\ instance' = IF Retains THEN instance ELSE [i \in Instances |-> NoInstance]
  BY <1>2, Zenon DEF Uninstall, May
<1>4. o \in OpIds /\ ops[o] = NoOp
  BY <1>2, <1>3, NextOpIs
<1>5. ~installed'.found
  BY <1>3 DEF NoPlugin
<1>6. \A q \in OpIds : ops[q] # NoOp => ops'[q] # NoOp /\ ops'[q].kind = ops[q].kind
  BY <1>1, <1>3, <1>4 DEF PlanTypeInv
<1>7. RowsStay
  <2>1. \A q \in OpIds, p \in Places : RowFollows(q, p)
    BY <1>3, Zenon DEF RowFollows
  <2> QED BY <1>3, <2>1, SameRevs, AllFollowing
<1>8. CASE Retains
  <2>1. instance' = instance
    BY <1>3, <1>8
  <2>2. Quiet
    BY <1>5, <1>6, <1>7, <2>1, Zenon DEF Quiet
  <2> QED BY <2>2, QuietKeeps
<1>9. CASE ~Retains
  <2>1. \A i \in Instances : ~instance'[i].found
    BY <1>3, <1>9 DEF NoInstance
  <2>2. StagingInv'
    BY <1>5, <2>1, Zenon DEF StagingInv, Present
  <2>3. RowsInv'
    <3>1. \A q \in OpIds : ops'[q] = NoOp => ops[q] = NoOp
      BY <1>6
    <3> QED BY <1>3, <1>5, <3>1, Zenon DEF RowsInv
  <2>4. AuthorityTaken
    BY <1>3, Zenon DEF AuthorityTaken
  <2>5. PromotedForCause
    BY <2>1, Zenon DEF PromotedForCause
  <2> QED BY <2>2, <2>3, <2>4, <2>5
<1> QED BY <1>8, <1>9

\* The package of the plugin once its plan is over.
LEMMA CompletedActiveIs ==
  ASSUME installed \in Plugin, NEW o \in OpIds, NEW ok \in BOOLEAN, ops[o].kind \in Kept
  PROVE  CompletedPlugin(o, ok).active =
           IF ok /\ ops[o].kind \in {"upgrade", "rollback"} THEN installed.staged ELSE installed.active
<1>1. PICK v \in Nat : v = installed.v + 1
  <2>1. installed.v \in Nat
    BY DEF Plugin
  <2> QED BY <2>1
<1>2. PICK base : base = [installed EXCEPT !.v = v, !.pend = 0, !.pendRev = 0, !.last = o]
  OBVIOUS
<1>3. base.active = installed.active /\ base.staged = installed.staged
  BY <1>2 DEF Plugin
<1>4. PICK row : row = CompletedPlugin(o, ok)
  OBVIOUS
<1>5. CASE ops[o].kind = "configure"
  <2>1. row = base
    BY <1>1, <1>2, <1>4, <1>5, Zenon DEF CompletedPlugin
  <2> QED BY <1>3, <1>4, <1>5, <2>1
<1>6. CASE ops[o].kind \in {"enable", "disable"}
  <2>1. PICK d : d = IF ok THEN Settled(installed.desired) ELSE "degraded"
    OBVIOUS
  <2>2. row = [base EXCEPT !.current = d]
    <3>1. ops[o].kind # "configure"
      BY <1>6
    <3> QED BY <1>1, <1>2, <1>4, <1>6, <2>1, <3>1, Zenon DEF CompletedPlugin
  <2>3. row.active = base.active
    BY <1>2, <2>2 DEF Plugin
  <2> QED BY <1>3, <1>4, <1>6, <2>3
<1>7. CASE ops[o].kind \in {"upgrade", "rollback"}
  <2>1. PICK a, b : a = (IF ok THEN base.staged ELSE base.active) /\ b = (IF ok THEN base.active ELSE base.rollback)
    OBVIOUS
  <2>2. PICK c : c = Settled(installed.desired)
    OBVIOUS
  <2>3. row = [Promoted(base, ok) EXCEPT !.current = c]
    <3>1. ops[o].kind # "configure" /\ ops[o].kind \notin {"enable", "disable"}
      BY <1>7
    <3> QED BY <1>1, <1>2, <1>4, <2>2, <3>1, Zenon DEF CompletedPlugin
  <2>4. Promoted(base, ok) = [base EXCEPT !.staged = 0, !.active = a, !.rollback = b]
    BY <1>2, <2>1 DEF Promoted, Plugin
  <2>5. PICK y : y = [base EXCEPT !.staged = 0, !.active = a, !.rollback = b]
    OBVIOUS
  <2>6. y.active = a
    BY <1>2, <2>5 DEF Plugin
  <2>7. row = [y EXCEPT !.current = c]
    BY <2>3, <2>4, <2>5
  <2>8. row.active = y.active
    BY <1>2, <2>5, <2>7 DEF Plugin
  <2> QED BY <1>3, <1>4, <1>7, <2>1, <2>6, <2>8
<1> QED BY <1>5, <1>6, <1>7 DEF Kept

\* The configuration of an instance once the plan is over.
LEMMA CompletedConfigIs ==
  ASSUME PlanTypeInv, NEW o \in OpIds, NEW ok \in BOOLEAN, NEW i \in Instances,
         NEW j \in Instances, ops[o].kind \in Kept, instance[j].found,
         NEW y, y = CompletedInstance(o, ok, i, j)
  PROVE  /\ y.found
         /\ y.cfg = IF ok /\ (ops[o].kind \in {"upgrade", "rollback"} \/ (ops[o].kind = "configure" /\ j = i))
                      THEN instance[j].pCfg ELSE instance[j].cfg
<1>1. PICK x : x = instance[j]
  OBVIOUS
<1>2. x \in Instance /\ x.found
  BY <1>1, InstanceIs
<1>3. \A z \in Instance : Cleared(z).cfg = z.cfg /\ Cleared(z).found
  BY DEF Cleared, Instance
<1>4. CASE ops[o].kind = "configure"
  <2>1. CASE j # i
    <3>1. y = x
      BY <1>1, <1>2, <1>4, <2>1, Zenon DEF CompletedInstance
    <3> QED BY <1>1, <1>2, <1>4, <2>1, <3>1
  <2>2. CASE j = i
    <3>1. CASE ok
      <4>1. PICK z : z = [x EXCEPT !.cfg = x.pCfg, !.targets = x.pTargets]
        OBVIOUS
      <4>2. y = Cleared(z)
        BY <1>1, <1>2, <1>4, <2>2, <3>1, <4>1, Zenon DEF CompletedInstance
      <4>3. z \in Instance /\ z.cfg = x.pCfg
        BY <1>2, <4>1 DEF Instance
      <4> QED BY <1>1, <1>3, <1>4, <2>2, <3>1, <4>2, <4>3
    <3>2. CASE ~ok
      <4>1. y = Cleared(x)
        BY <1>1, <1>2, <1>4, <2>2, <3>2, Zenon DEF CompletedInstance
      <4> QED BY <1>1, <1>2, <1>3, <3>2, <4>1
    <3> QED BY <3>1, <3>2
  <2> QED BY <2>1, <2>2
<1>5. CASE ops[o].kind \in {"upgrade", "rollback"}
  <2>1. PICK z : z = IF ok THEN [x EXCEPT !.rbCfg = x.cfg, !.cfg = x.pCfg] ELSE x
    OBVIOUS
  <2>2. ops[o].kind # "configure"
    BY <1>5
  <2>3. y = Cleared(z)
    BY <1>1, <1>2, <1>5, <2>1, <2>2, Zenon DEF CompletedInstance
  <2>4. z \in Instance /\ z.cfg = IF ok THEN x.pCfg ELSE x.cfg
    BY <1>2, <2>1 DEF Instance
  <2> QED BY <1>1, <1>3, <1>5, <2>3, <2>4
<1>6. CASE ops[o].kind \in {"enable", "disable"}
  <2>1. PICK e : e = IF ok THEN installed.desired = "enabled" ELSE x.enabled
    OBVIOUS
  <2>2. ops[o].kind # "configure" /\ ops[o].kind \notin {"upgrade", "rollback"}
    BY <1>6
  <2>3. y = [x EXCEPT !.enabled = e]
    BY <1>1, <1>2, <2>1, <2>2, Zenon DEF CompletedInstance
  <2>4. y.cfg = x.cfg /\ y.found = x.found
    BY <1>2, <2>3 DEF Instance
  <2> QED BY <1>1, <1>2, <2>2, <2>4
<1> QED BY <1>4, <1>5, <1>6 DEF Kept

\* The completion makes of every instance what its plan does.
AsPlanned(o, ok, i) ==
  ok => \A j \in Instances : instance[j].found =>
          /\ Generation(installed, instance[j], j).cfg = CompletedInstance(o, ok, i, j).cfg
          /\ Generation(installed, instance[j], j).pkg = CompletedPlugin(o, ok).active

\* What is staged is what is committed, for every instance.
LEMMA CompletedAsPlanned ==
  ASSUME LifecycleInv, StagingInv, NEW o \in OpIds, installed.found, installed.pend = o,
         NEW i \in Instances, StagedFor(o, i), NEW ok \in BOOLEAN
  PROVE  AsPlanned(o, ok, i)
<1>1. ASSUME NEW j \in Instances, instance[j].found,
             NEW g, g = Generation(installed, instance[j], j),
             NEW y, y = CompletedInstance(o, ok, i, j), NEW c, c = CompletedPlugin(o, ok).active
      PROVE  ok => g.cfg = y.cfg /\ g.pkg = c
  <2>1. PlanTypeInv /\ PlanInv /\ installed \in Plugin
    BY PluginIs DEF LifecycleInv
  <2>2. o # 0
    BY BoundsAssumption DEF OpIds
  <2>3. /\ ops[o].kind \in Kept
        /\ installed.staged # 0 <=> ops[o].kind \in {"upgrade", "rollback"}
    BY <2>1, <2>2, Zenon DEF PlanInv
  <2>4. y.cfg = IF ok /\ (ops[o].kind \in {"upgrade", "rollback"} \/ (ops[o].kind = "configure" /\ j = i))
                  THEN instance[j].pCfg ELSE instance[j].cfg
    BY <1>1, <2>1, <2>3, CompletedConfigIs
  <2>5. ok => y.cfg = IF ops[o].kind \in {"upgrade", "rollback"} \/ (ops[o].kind = "configure" /\ j = i)
                        THEN instance[j].pCfg ELSE instance[j].cfg
    BY <2>4
  <2>6. g.cfg = IF instance[j].pOp = o THEN instance[j].pCfg ELSE instance[j].cfg
    BY <1>1, <2>2 DEF Generation, Staged
  <2>7. j \in Present(instance)
    BY <1>1 DEF Present
  <2>8. ok => g.cfg = y.cfg
    <3>1. CASE ops[o].kind \in {"upgrade", "rollback"}
      <4>1. instance[j].pOp = o
        BY <2>7, <3>1, Zenon DEF StagedFor
      <4> QED BY <2>5, <2>6, <3>1, <4>1
    <3>2. CASE ops[o].kind = "configure"
      <4>1. i \in Present(instance) /\ instance[i].pOp = o
        BY <3>2, Zenon DEF StagedFor, Present
      <4>2. instance[j].pOp = o <=> j = i
        BY <2>2, <2>7, <3>2, <4>1, Zenon DEF StagingInv
      <4>3. ops[o].kind \notin {"upgrade", "rollback"}
        BY <3>2
      <4> QED BY <2>5, <2>6, <3>2, <4>2, <4>3, Zenon
    <3>3. CASE ops[o].kind \in {"enable", "disable"}
      <4>1. ops[o].kind \notin {"configure", "upgrade", "rollback"}
        BY <3>3
      <4>2. instance[j].pOp # o
        BY <2>2, <2>7, <4>1, Zenon DEF StagingInv
      <4> QED BY <2>5, <2>6, <4>1, <4>2
    <3> QED BY <2>3, <3>1, <3>2, <3>3 DEF Kept
  <2>9. ok => g.pkg = c
    <3>1. c = IF ok /\ ops[o].kind \in {"upgrade", "rollback"} THEN installed.staged ELSE installed.active
      BY <1>1, <2>1, <2>3, CompletedActiveIs
    <3>2. g.pkg = IF installed.staged # 0 THEN installed.staged ELSE installed.active
      BY <1>1, <2>2 DEF Generation
    <3> QED BY <2>3, <3>1, <3>2
  <2> QED BY <2>8, <2>9
<1>2. ASSUME NEW j \in Instances, instance[j].found
      PROVE  ok => /\ Generation(installed, instance[j], j).cfg = CompletedInstance(o, ok, i, j).cfg
                   /\ Generation(installed, instance[j], j).pkg = CompletedPlugin(o, ok).active
  BY <1>1, <1>2, Zenon
<1> QED BY <1>2, Zenon DEF AsPlanned

\* A completion gives authority to what it commits.
LEMMA CommitGrants ==
  ASSUME LifecycleInv, StagingInv, RowsInv,
         NEW w, NEW n, NEW x, Handler(w, n, x), Commit(w, n)
  PROVE  StagingInv' /\ RowsInv' /\ AuthorityTaken /\ PromotedForCause
<1>1. PlanTypeInv /\ AgentTypeInv /\ HandlerTypeInv /\ PlanInv /\ CommitInv
  BY Zenon DEF LifecycleInv
<1>2. w.pc = "commit" /\ UNCHANGED revs
  BY DEF Commit
<1>3. CASE ~Unchanged(w)
  <2>1. UNCHANGED <<installed, instance, ops, rows>>
    BY <1>3, Zenon DEF Commit
  <2>2. Quiet
    BY <1>2, <2>1, TablesUntouched
  <2> QED BY <2>2, QuietKeeps
<1>4. CASE Unchanged(w)
  <2>1. PICK o, ok, i : o = w.op /\ ok = w.ok /\ i = w.inst
    OBVIOUS
  <2>2. o \in OpIds /\ ok \in BOOLEAN /\ i \in Instances /\ o # 0
    BY <1>1, <1>2, <2>1, HandlerIs, BoundsAssumption DEF Fits, OpIds
  <2>3. installed.found /\ installed.pend = o /\ Open(o)
    BY <1>4, <2>1 DEF Unchanged
  <2>4. PICK status : status = IF ok THEN "succeeded" ELSE "failed"
    OBVIOUS
  <2>5. /\ installed' = CompletedPlugin(o, ok)
        /\ instance' = [j \in Instances |-> CompletedInstance(o, ok, i, j)]
        /\ ops' = [ops EXCEPT ![o].status = status]
        /\ rows' = Authority(o, ok)
    BY <1>4, <2>1, <2>4, Zenon DEF Commit
  <2>6. /\ ops[o].kind \in Kept
        /\ installed.staged # 0 <=> ops[o].kind \in {"upgrade", "rollback"}
    BY <1>1, <2>2, <2>3, Zenon DEF PlanInv
  <2>7. installed \in Plugin
    BY <1>1, <2>3, PluginIs
  <2>8. installed'.found /\ installed'.pend = 0
    <3>1. PICK row : row = CompletedPlugin(o, ok)
      OBVIOUS
    <3>2. row.found /\ row.pend = 0
      BY <2>2, <2>6, <2>7, <3>1, CompletedPluginIs
    <3> QED BY <2>5, <3>1, <3>2, Zenon
  <2>9. StagedFor(o, i)
    <3>1. Committing(w)
      BY <1>1, HandlerIs
    <3> QED BY <1>2, <2>1, <2>3, <3>1, Zenon DEF Committing
  <2>10. ASSUME NEW j \in Instances, instance[j].found
         PROVE  /\ instance'[j].found
                /\ instance'[j].cfg = CompletedInstance(o, ok, i, j).cfg
                /\ instance'[j].cfg =
                     IF ok /\ (ops[o].kind \in {"upgrade", "rollback"} \/ (ops[o].kind = "configure" /\ j = i))
                       THEN instance[j].pCfg ELSE instance[j].cfg
    <3>1. PICK y : y = CompletedInstance(o, ok, i, j)
      OBVIOUS
    <3>2. instance'[j] = y
      BY <2>5, <3>1, Zenon
    <3>3. /\ y.found
          /\ y.cfg = IF ok /\ (ops[o].kind \in {"upgrade", "rollback"} \/ (ops[o].kind = "configure" /\ j = i))
                       THEN instance[j].pCfg ELSE instance[j].cfg
      BY <1>1, <2>2, <2>6, <2>10, <3>1, CompletedConfigIs
    <3> QED BY <3>1, <3>2, <3>3, Zenon
  <2>11. /\ \A q \in OpIds : ops[q] # NoOp => ops'[q] # NoOp
         /\ ops'[o].status = status
    <3>1. status \in {"succeeded", "failed"}
      BY <2>4
    <3>2. ops' = Ended(o, status)
      BY <2>5, Zenon DEF Ended
    <3>3. \A q \in OpIds : ops[q] # NoOp => ops'[q] # NoOp
      BY <1>1, <2>2, <2>3, <3>1, <3>2, OperationEnds
    <3>4. ops[o] \in Operation
      BY <1>1, <2>2, Zenon DEF PlanTypeInv
    <3>5. ops'[o].status = status
      BY <1>1, <2>2, <2>5, <3>4 DEF PlanTypeInv, Operation
    <3> QED BY <3>3, <3>5
  <2>12. rows \in AnyRows
    BY <1>1, Zenon DEF AgentTypeInv, AnyRows
  <2>13. StagingInv'
    <3>1. ASSUME NEW j \in Instances, instance'[j].found, instance'[j].pOp # 0
          PROVE  ops'[instance'[j].pOp] # NoOp
      <4>1. PICK y : y = CompletedInstance(o, ok, i, j)
        OBVIOUS
      <4>2. instance'[j] = y
        BY <2>5, <4>1, Zenon
      <4>3. /\ y.found => instance[j].found
            /\ y.found =>
                 IF ops[o].kind \in {"upgrade", "rollback"} \/ (ops[o].kind = "configure" /\ j = i)
                   THEN y.pOp = 0 ELSE y.pOp = instance[j].pOp
        BY <1>1, <2>2, <2>6, <4>1, CompletedInstanceIs
      <4>4. instance[j].found /\ instance[j].pOp = y.pOp /\ y.pOp # 0
        BY <3>1, <4>2, <4>3
      <4>5. j \in Present(instance)
        BY <4>4 DEF Present
      <4>6. instance[j] \in Instance
        BY <1>1, <4>4, InstanceIs
      <4>7. y.pOp \in OpIds
        BY <4>4, <4>6 DEF Instance, Numbers
      <4>8. ops[y.pOp] # NoOp
        BY <4>4, <4>5, Zenon DEF StagingInv
      <4> QED BY <2>11, <4>2, <4>7, <4>8, Zenon
    <3> QED BY <2>8, <3>1, Zenon DEF StagingInv, Present
  <2>14. ASSUME NEW q \in OpIds, NEW p \in Places
         PROVE  /\ rows'[q][p].slot = "active" /\ rows[q][p].slot # "active" => q = o /\ p \in Winners(o, ok)
                /\ q # o /\ p \in Winners(o, ok) => rows'[q][p].slot # "active"
                /\ q = o /\ p \in Winners(o, ok) => rows'[q][p].cfg = rows[q][p].cfg /\ rows'[q][p].pkg = rows[q][p].pkg
                /\ q # o /\ rows[q][p] = NoRow => rows'[q][p] = NoRow
    <3>1. rows[q][p] \in Row
      BY <2>12, Zenon DEF AnyRows
    <3>2. Retire(rows[q][p]).slot = "retired"
      BY <3>1 DEF Retire, Row
    <3>3. CASE q = o /\ p \in Winners(o, ok)
      <4>1. rows'[q][p] = [rows[q][p] EXCEPT !.slot = "active"]
        BY <2>5, <3>3 DEF Authority
      <4> QED BY <3>1, <3>3, <4>1 DEF Row
    <3>4. CASE q = o /\ p \notin Winners(o, ok)
      <4>1. rows'[q][p] = Closed(rows[q][p], ok)
        BY <2>5, <3>4 DEF Authority
      <4>2. rows'[q][p] = rows[q][p] \/ rows'[q][p] = Retire(rows[q][p])
        BY <4>1 DEF Closed
      <4> QED BY <3>2, <3>4, <4>2
    <3>5. CASE q # o
      <4>1. rows'[q][p] = IF p \in Winners(o, ok) /\ rows[q][p].slot = "active"
                            THEN Retire(rows[q][p]) ELSE rows[q][p]
        BY <2>5, <3>5 DEF Authority
      <4>2. NoRow.slot # "active"
        BY DEF NoRow
      <4> QED BY <3>2, <3>5, <4>1, <4>2
    <3> QED BY <3>3, <3>4, <3>5
  <2>15. RowsInv'
    <3>1. ASSUME NEW q \in OpIds, NEW p \in Places, ops'[q] = NoOp
          PROVE  rows'[q][p] = NoRow
      <4>1. ops[q] = NoOp
        BY <2>11, <3>1
      <4>2. q # o
        BY <2>3, <4>1, OpenIs
      <4>3. rows[q][p] = NoRow
        BY <4>1, Zenon DEF RowsInv
      <4> QED BY <2>14, <4>2, <4>3
    <3> QED BY <2>8, <3>1, Zenon DEF RowsInv
  <2>16. AuthorityTaken
    <3> SUFFICES ASSUME NEW q \in OpIds, NEW p \in Places,
                        rows[q][p].slot # "active", rows'[q][p].slot = "active"
                 PROVE  /\ installed'.found /\ instance'[p[2]].found
                        /\ Committed(q, p)'
                        /\ \A u \in OpIds \ {q} : rows'[u][p].slot # "active"
      BY Zenon DEF AuthorityTaken
    <3>1. q = o /\ p \in Winners(o, ok)
      BY <2>14
    <3>2. ok /\ rows[o][p].slot \in {"pending", "active"} /\ rows[o][p].state = "active"
      BY <3>1, Zenon DEF Winners
    <3>3. rows[o][p].slot = "pending" /\ ~Leaving(o, p)
      BY <3>1, <3>2 DEF Leaving
    <3>4. Planned(p)
      BY <2>2, <2>3, <3>3, Zenon DEF RowsInv
    <3>5. PICK j \in Instances : j = p[2]
      BY DEF Places
    <3>6. PICK g : g = Generation(installed, instance[j], j)
      OBVIOUS
    <3>7. instance[j].found /\ rows[o][p].cfg = g.cfg /\ rows[o][p].pkg = g.pkg
      BY <2>3, <3>4, <3>5, <3>6, Zenon DEF Planned
    <3>8. o \in OpIds /\ i \in Instances /\ ok \in BOOLEAN /\ ok
      BY <2>2, <3>2
    <3>9. AsPlanned(o, ok, i)
      BY <2>2, <2>3, <2>9, CompletedAsPlanned
    <3>10. g.cfg = CompletedInstance(o, ok, i, j).cfg /\ g.pkg = CompletedPlugin(o, ok).active
      BY <3>6, <3>7, <3>8, <3>9, Zenon DEF AsPlanned
    <3>11. instance'[j].found /\ instance'[j].cfg = g.cfg
      BY <2>10, <3>7, <3>8, <3>9, <3>10
    <3>12. installed'.active = g.pkg
      BY <2>5, <3>8, <3>9, <3>10, Zenon
    <3>13. rows'[o][p].cfg = g.cfg /\ rows'[o][p].pkg = g.pkg
      BY <2>2, <2>14, <3>1, <3>7
    <3>14. Committed(q, p)'
      BY <3>1, <3>5, <3>11, <3>12, <3>13, Zenon DEF Committed
    <3>15. \A u \in OpIds \ {q} : rows'[u][p].slot # "active"
      BY <2>14, <3>1
    <3> QED BY <2>8, <3>5, <3>11, <3>14, <3>15, Zenon
  <2>17. PromotedForCause
    <3> SUFFICES ASSUME NEW j \in Instances, instance[j].found, instance'[j].found,
                        instance'[j].cfg # instance[j].cfg
                 PROVE  /\ installed.pend # 0 /\ instance[j].pOp = installed.pend
                        /\ instance'[j].cfg = instance[j].pCfg
                        /\ ops'[installed.pend].status = "succeeded"
      BY Zenon DEF PromotedForCause
    <3>1. /\ ok /\ (ops[o].kind \in {"upgrade", "rollback"} \/ (ops[o].kind = "configure" /\ j = i))
          /\ instance'[j].cfg = instance[j].pCfg
      BY <2>10
    <3>2. instance[j].pOp = o
      <4>1. j \in Present(instance)
        BY DEF Present
      <4> QED BY <2>9, <3>1, <4>1, Zenon DEF StagedFor
    <3> QED BY <2>2, <2>3, <2>4, <2>11, <3>1, <3>2
  <2> QED BY <2>13, <2>15, <2>16, <2>17
<1> QED BY <1>3, <1>4

\* The agents of T get a revision of o that carries their generations of `after`.
Publishes(T, o, after) ==
  revs' = [a \in Agents |->
             IF a \in T THEN Append(revs[a], NewRevision(o, after[a])) ELSE revs[a]]

Carry(T, after) ==
  \A a \in T : /\ Desired(a) + 1 \in 1 .. Len(revs'[a])
               /\ revs'[a][Desired(a) + 1].gens = after[a]

\* A mutation appends a revision for the agents it addresses.
LEMMA Published ==
  ASSUME AgentTypeInv, NEW T \in SUBSET Agents, NEW o \in OpIds,
         NEW after \in [Agents -> SUBSET Gen], Publishes(T, o, after)
  PROVE  RevsStay /\ Carry(T, after)
<1>0. revs' = [a \in Agents |->
                IF a \in T THEN Append(revs[a], NewRevision(o, after[a])) ELSE revs[a]]
  BY Zenon DEF Publishes
<1>1. ASSUME NEW a \in Agents, a \in T
      PROVE  /\ Desired(a) + 1 \in 1 .. Len(revs'[a])
             /\ revs'[a][Desired(a) + 1].gens = after[a]
             /\ \A n \in 1 .. Len(revs[a]) : n \in 1 .. Len(revs'[a]) /\ revs'[a][n] = revs[a][n]
  <2>1. PICK x : x = NewRevision(o, after[a])
    OBVIOUS
  <2>2. x \in Revision /\ x.gens = after[a]
    BY <2>1 DEF NewRevision, Revision, Numbers
  <2>3. revs[a] \in Seq(Revision)
    BY DEF AgentTypeInv
  <2>4. PICK s : s = Append(revs[a], x)
    OBVIOUS
  <2>5. revs'[a] = s
    BY <1>0, <1>1, <2>1, <2>4
  <2>6. /\ Len(s) = Len(revs[a]) + 1 /\ Len(revs[a]) \in Nat /\ s[Len(revs[a]) + 1] = x
        /\ \A n \in 1 .. Len(revs[a]) : s[n] = revs[a][n]
    BY <2>2, <2>3, <2>4
  <2>7. \A n \in 1 .. Len(revs[a]) : n \in 1 .. Len(s)
    BY <2>6
  <2> QED BY <2>2, <2>5, <2>6, <2>7 DEF Desired
<1>2. ASSUME NEW a \in Agents, a \notin T
      PROVE  revs'[a] = revs[a]
  BY <1>0, <1>2
<1>3. RevsStay
  BY <1>1, <1>2, Zenon DEF RevsStay
<1>4. Carry(T, after)
  BY <1>1 DEF Carry
<1> QED BY <1>3, <1>4

\* What an instance has is what its generation names.
LEMMA BuiltNames ==
  ASSUME NEW plugin, NEW insts \in AnyInstances, NEW a, NEW g \in Built(plugin, insts, a)
  PROVE  /\ g.inst \in Instances /\ insts[g.inst].found
         /\ g = Generation(plugin, insts[g.inst], g.inst)
<1>1. PICK i \in Instances : Runs(plugin, insts[i], a) /\ g = Generation(plugin, insts[i], i)
  BY Zenon DEF Built
<1>2. g.inst = i
  BY <1>1 DEF Generation
<1>3. insts[i].found
  BY <1>1, Zenon DEF Runs
<1> QED BY <1>1, <1>2, <1>3, Zenon

\* The row of an instance, by what the revision carries of it.
LEMMA EntryNames ==
  ASSUME NEW rev, NEW now, NEW was, NEW e, e = EntryFor(rev, now, was)
  PROVE  \/ e = NoRow
         \/ /\ e.slot = "pending" /\ e.state = "applying"
            /\ \E g \in now : e.cfg = g.cfg /\ e.pkg = g.pkg
         \/ /\ e.slot = "pending" /\ e.state = "draining" /\ e.rev = rev /\ now = {}
<1>1. PICK g : g = CHOOSE h \in now : TRUE
  OBVIOUS
<1>2. PICK k : k = CHOOSE h \in was : TRUE
  OBVIOUS
<1>3. CASE now # {}
  <2>1. g \in now
    BY <1>1, <1>3, SomeIs, Zenon
  <2>2. e = [slot |-> "pending", state |-> "applying", rev |-> rev, cfg |-> g.cfg, pkg |-> g.pkg]
    BY <1>1, <1>3, Zenon DEF EntryFor
  <2> QED BY <2>1, <2>2
<1>4. CASE now = {} /\ was # {}
  <2>1. e = [slot |-> "pending", state |-> "draining", rev |-> rev, cfg |-> k.cfg, pkg |-> k.pkg]
    BY <1>2, <1>4, Zenon DEF EntryFor
  <2> QED BY <1>4, <2>1
<1>5. CASE now = {} /\ was = {}
  <2>1. e = NoRow
    BY <1>5, SMT DEF EntryFor
  <2> QED BY <2>1
<1> QED BY <1>3, <1>4, <1>5

\* The rows of the other operations stay, or are retired; those of o are staged.
Restaged(o, T, staged) ==
  /\ \A q \in OpIds \ {o}, p \in Places : RowFollows(q, p)
  /\ \A p \in Places : rows[o][p] = NoRow =>
       rows'[o][p] = IF p[1] \in T THEN staged[p] ELSE NoRow

\* What a mutation makes of the rows.
LEMMA OthersFollow ==
  ASSUME rows \in AnyRows, NEW over, NEW o \in OpIds, NEW T, NEW staged,
         NEW table, table = IF over = 0 THEN rows ELSE WithoutPending(rows, over),
         rows' = WithStaged(table, o, T, staged)
  PROVE  Restaged(o, T, staged)
<1>1. ASSUME NEW q \in OpIds, NEW p \in Places
      PROVE  \/ table[q][p] = rows[q][p]
             \/ table[q][p] = Retire(rows[q][p]) /\ rows[q][p].slot = "pending"
  <2>1. CASE over = 0
    BY <2>1
  <2>2. CASE over # 0
    <3>1. table = WithoutPending(rows, over)
      BY <2>2
    <3>2. CASE q = over
      BY <3>1, <3>2 DEF WithoutPending, AnyRows
    <3>3. CASE q # over
      BY <3>1, <3>3 DEF WithoutPending, AnyRows
    <3> QED BY <3>2, <3>3
  <2> QED BY <2>1, <2>2
<1>2. ASSUME NEW q \in OpIds \ {o}, NEW p \in Places
      PROVE  RowFollows(q, p)
  <2>1. rows[q][p] \in Row
    BY Zenon DEF AnyRows
  <2>2. \/ rows'[q][p] = table[q][p]
        \/ rows'[q][p] = Retire(table[q][p]) /\ table[q][p].slot = "pending"
    BY DEF WithStaged
  <2>3. CASE table[q][p] = rows[q][p]
    <3>1. CASE rows'[q][p] = rows[q][p]
      BY <3>1, Zenon DEF RowFollows
    <3>2. CASE rows'[q][p] = Retire(rows[q][p]) /\ rows[q][p].slot = "pending"
      BY <3>2, RetiredFollows
    <3> QED BY <2>2, <2>3, <3>1, <3>2
  <2>4. CASE table[q][p] = Retire(rows[q][p]) /\ rows[q][p].slot = "pending"
    <3>1. table[q][p].slot = "retired"
      BY <2>1, <2>4 DEF Retire, Row
    <3>2. rows'[q][p] = Retire(rows[q][p])
      BY <2>2, <2>4, <3>1
    <3> QED BY <2>4, <3>2, RetiredFollows
  <2> QED BY <1>1, <2>3, <2>4
<1>3. ASSUME NEW p \in Places, rows[o][p] = NoRow
      PROVE  rows'[o][p] = IF p[1] \in T THEN staged[p] ELSE NoRow
  <2>1. NoRow.slot # "pending"
    BY DEF NoRow
  <2>2. table[o][p] = NoRow
    BY <1>1, <1>3, <2>1
  <2>3. CASE p[1] \notin T
    <3>1. rows'[o][p] = table[o][p]
      BY <2>3 DEF WithStaged
    <3> QED BY <2>2, <2>3, <3>1
  <2>4. CASE p[1] \in T /\ staged[p] = NoRow
    <3>1. rows'[o][p] = table[o][p]
      BY <2>4 DEF WithStaged
    <3> QED BY <2>2, <2>4, <3>1
  <2>5. CASE p[1] \in T /\ staged[p] # NoRow
    <3>1. rows'[o][p] = staged[p]
      BY <2>5 DEF WithStaged
    <3> QED BY <2>5, <3>1
  <2> QED BY <2>3, <2>4, <2>5
<1> QED BY <1>2, <1>3, Zenon DEF Restaged

\* The row of the plan names what it plans, or is of an instance that leaves.
Names(o, p) == rows'[o][p].slot = "pending" => Planned(p)' \/ Leaving(o, p)'

\* Operation o stages the row at p for revision r, which goes from the generations
\* `before` to the generations `after` that it builds of the plugin and its instances.
Stage(o, p, r, before, after, row, insts) ==
  /\ after[p[1]] = Built(row, insts, p[1])
  /\ r[p[1]] \in 1 .. Len(revs'[p[1]]) /\ revs'[p[1]][r[p[1]]].gens = after[p[1]]
  /\ rows'[o][p] = StagedRow(o, r, before, after)[p]
  /\ installed' = row /\ instance' = insts /\ row.pend = o

\* So does every row that a mutation stages.
LEMMA StagedNames ==
  ASSUME NEW o \in OpIds, NEW row \in Plugin, NEW insts \in AnyInstances,
         NEW r, NEW before, NEW after, NEW p \in Places,
         Stage(o, p, r, before, after, row, insts)
  PROVE  Names(o, p)
<1>0. /\ after[p[1]] = Built(row, insts, p[1])
      /\ r[p[1]] \in 1 .. Len(revs'[p[1]]) /\ revs'[p[1]][r[p[1]]].gens = after[p[1]]
      /\ rows'[o][p] = StagedRow(o, r, before, after)[p]
      /\ installed' = row /\ instance' = insts /\ row.pend = o
  BY Zenon DEF Stage
<1>1. PICK now : now = {g \in after[p[1]] : g.inst = p[2]}
  OBVIOUS
<1>2. PICK was : was = {g \in before[p[1]] : g.inst = p[2]}
  OBVIOUS
<1>3. PICK e : e = EntryFor(r[p[1]], now, was)
  OBVIOUS
<1>4. StagedRow(o, r, before, after)[p] = EntryFor(r[p[1]], now, was)
  BY <1>1, <1>2, Zenon DEF StagedRow, EntryFor
<1>5. rows'[o][p] = e
  BY <1>0, <1>3, <1>4
<1>6. \/ e = NoRow
      \/ /\ e.slot = "pending" /\ e.state = "applying"
         /\ \E g \in now : e.cfg = g.cfg /\ e.pkg = g.pkg
      \/ /\ e.slot = "pending" /\ e.state = "draining" /\ e.rev = r[p[1]] /\ now = {}
  BY <1>3, EntryNames
<1>7. CASE e = NoRow
  <2>1. e.slot = "none"
    BY <1>7 DEF NoRow
  <2> QED BY <1>5, <2>1 DEF Names
<1>8. CASE e.slot = "pending" /\ e.state = "applying" /\ \E g \in now : e.cfg = g.cfg /\ e.pkg = g.pkg
  <2>1. PICK g \in now : e.cfg = g.cfg /\ e.pkg = g.pkg
    BY <1>8
  <2>2. g \in Built(row, insts, p[1]) /\ g.inst = p[2]
    BY <1>0, <1>1, <2>1
  <2>3. insts[p[2]].found /\ g = Generation(row, insts[p[2]], p[2])
    BY <2>2, BuiltNames
  <2>4. Planned(p)'
    BY <1>0, <1>5, <2>1, <2>3, Zenon DEF Planned
  <2> QED BY <2>4, Zenon DEF Names
<1>9. CASE e.slot = "pending" /\ e.state = "draining" /\ e.rev = r[p[1]] /\ now = {}
  <2>1. PICK n : n = r[p[1]]
    OBVIOUS
  <2>2. n \in 1 .. Len(revs'[p[1]]) /\ revs'[p[1]][n].gens = after[p[1]]
    BY <1>0, <2>1
  <2>3. \A g \in after[p[1]] : g.inst # p[2]
    BY <1>1, <1>9
  <2>4. rows'[o][p].state = "draining" /\ rows'[o][p].rev = n
    BY <1>5, <1>9, <2>1
  <2>5. Leaving(o, p)'
    BY <2>2, <2>3, <2>4 DEF Leaving
  <2> QED BY <2>5, Zenon DEF Names
<1> QED BY <1>6, <1>7, <1>8, <1>9, Zenon DEF Names


\* A row that a mutation writes is pending, or none.
LEMMA StagedSlot ==
  ASSUME NEW o, NEW r, NEW before, NEW after, NEW p \in Places, NEW e,
         e = StagedRow(o, r, before, after)[p]
  PROVE  e.slot # "active"
<1>1. PICK now : now = {g \in after[p[1]] : g.inst = p[2]}
  OBVIOUS
<1>2. PICK was : was = {g \in before[p[1]] : g.inst = p[2]}
  OBVIOUS
<1>3. StagedRow(o, r, before, after)[p] = EntryFor(r[p[1]], now, was)
  BY <1>1, <1>2, Zenon DEF StagedRow, EntryFor
<1>4. e = EntryFor(r[p[1]], now, was)
  BY <1>3
<1>5. e = NoRow \/ e.slot = "pending"
  BY <1>4, EntryNames
<1> QED BY <1>5 DEF NoRow

\* What a mutation makes of the rows.
LEMMA MutationRows ==
  ASSUME PlanTypeInv, AgentTypeInv, RowsInv, NEW o \in OpIds, ops[o] = NoOp, o # 0,
         NEW T \in SUBSET Agents, T # {},
         NEW kind, NEW status, NEW over, NEW plugin \in Plugin, NEW insts \in AnyInstances,
         Mutate(o, T, kind, status, over, plugin, insts)
  PROVE  /\ \A q \in OpIds \ {o}, p \in Places : RowStays(q, p)
         /\ \A p \in Places : rows'[o][p].slot # "active"
         /\ installed' \in Plugin /\ installed'.pend = plugin.pend
         /\ plugin.pend = o =>
              \A p \in Places : rows'[o][p].slot = "pending" => Planned(p)' \/ Leaving(o, p)'
<1>1. PICK r : r = [a \in Agents |-> Desired(a) + 1]
  OBVIOUS
<1>2. PICK before : before = [a \in Agents |-> IF a \in T THEN Built(installed, instance, a) ELSE {}]
  OBVIOUS
<1>3. PICK target : target = Max({r[a] : a \in T})
  OBVIOUS
<1>4. PICK row : row = MutatedPlugin(o, target, plugin)
  OBVIOUS
<1>5. PICK after : after = [a \in Agents |-> IF a \in T THEN Built(row, insts, a) ELSE {}]
  OBVIOUS
<1>6. PICK table : table = IF over = 0 THEN rows ELSE WithoutPending(rows, over)
  OBVIOUS
<1>7. PICK staged : staged = StagedRow(o, r, before, after)
  OBVIOUS
<1>8. /\ \A a \in T : Desired(a) < setting.revs
      /\ rows' = WithStaged(table, o, T, staged)
      /\ revs' = [a \in Agents |->
                    IF a \in T THEN Append(revs[a], NewRevision(o, after[a])) ELSE revs[a]]
      /\ installed' = row /\ instance' = insts
  BY <1>1, <1>2, <1>3, <1>4, <1>5, <1>6, <1>7, Zenon DEF Mutate, MutatedPlugin
<1>9. target \in Revs
  BY <1>1, <1>3, <1>8, TargetIs
<1>10. row \in Plugin /\ row.pend = plugin.pend
  BY <1>4, <1>9, MutatedPluginIs
<1>11. rows \in AnyRows
  BY Zenon DEF AgentTypeInv, AnyRows
<1>12. after \in [Agents -> SUBSET Gen]
  <2>1. ASSUME NEW a \in Agents
        PROVE  Built(row, insts, a) \in SUBSET Gen
    BY <1>10, BuiltIs
  <2> QED BY <1>5, <2>1
<1>19. Publishes(T, o, after)
  BY <1>8, Zenon DEF Publishes
<1>13. /\ RevsStay
       /\ \A a \in T : /\ Desired(a) + 1 \in 1 .. Len(revs'[a])
                       /\ revs'[a][Desired(a) + 1].gens = after[a]
  <2>1. RevsStay /\ Carry(T, after)
    BY <1>12, <1>19, Published
  <2> QED BY <2>1 DEF Carry
<1>20. Restaged(o, T, staged)
  <2>1. rows' = WithStaged(table, o, T, staged)
    BY <1>8
  <2> QED BY <1>6, <1>11, <2>1, OthersFollow, ZenonT(60)
<1>14. /\ \A q \in OpIds \ {o}, p \in Places : RowFollows(q, p)
       /\ \A p \in Places : rows[o][p] = NoRow =>
            rows'[o][p] = IF p[1] \in T THEN staged[p] ELSE NoRow
  BY <1>20, Zenon DEF Restaged
<1>15. \A p \in Places : rows'[o][p] = IF p[1] \in T THEN staged[p] ELSE NoRow
  <2>1. \A p \in Places : rows[o][p] = NoRow
    BY Zenon DEF RowsInv
  <2> QED BY <1>14, <2>1, Zenon
<1>16. \A q \in OpIds \ {o}, p \in Places : RowStays(q, p)
  BY <1>13, <1>14, FollowingStays
<1>17. ASSUME NEW p \in Places
       PROVE  rows'[o][p].slot # "active"
  <2>1. CASE p[1] \notin T
    <3>1. rows'[o][p] = NoRow
      BY <1>15, <2>1
    <3> QED BY <3>1 DEF NoRow
  <2>2. CASE p[1] \in T
    <3>1. rows'[o][p] = StagedRow(o, r, before, after)[p]
      BY <1>7, <1>15, <2>2
    <3> QED BY <3>1, StagedSlot
  <2> QED BY <2>1, <2>2
<1>18. ASSUME plugin.pend = o, NEW p \in Places, rows'[o][p].slot = "pending"
       PROVE  Planned(p)' \/ Leaving(o, p)'
  <2>1. CASE p[1] \notin T
    <3>1. rows'[o][p] = NoRow
      BY <1>15, <2>1
    <3> QED BY <1>18, <3>1 DEF NoRow
  <2>2. CASE p[1] \in T
    <3>1. rows'[o][p] = StagedRow(o, r, before, after)[p]
      BY <1>7, <1>15, <2>2
    <3>2. p[1] \in Agents /\ after[p[1]] = Built(row, insts, p[1])
      BY <1>5, <2>2
    <3>3. r[p[1]] \in 1 .. Len(revs'[p[1]]) /\ revs'[p[1]][r[p[1]]].gens = after[p[1]]
      BY <1>1, <1>13, <2>2, <3>2
    <3>4. row.pend = o
      BY <1>10, <1>18
    <3>5. row \in Plugin /\ installed' = row /\ instance' = insts
      BY <1>8, <1>10
    <3>6. Stage(o, p, r, before, after, row, insts)
      BY <3>1, <3>2, <3>3, <3>4, <3>5, Zenon DEF Stage
    <3>7. Names(o, p)
      BY <3>5, <3>6, StagedNames
    <3> QED BY <1>18, <3>7, Zenon DEF Names
  <2> QED BY <2>1, <2>2
<1> QED BY <1>8, <1>10, <1>16, <1>17, <1>18

\* A mutation gives authority to no row, and its plan's rows name what it plans.
LEMMA MutationGrants ==
  ASSUME LifecycleInv, StagingInv, RowsInv, Mutation
  PROVE  StagingInv' /\ RowsInv' /\ AuthorityTaken /\ PromotedForCause
<1>1. PlanTypeInv /\ AgentTypeInv /\ ops \in [OpIds -> Operation]
  BY Zenon DEF LifecycleInv, PlanTypeInv
<1>2. Unused # {}
  BY Zenon DEF Mutation
<1>3. PICK o : o = NextOp
  OBVIOUS
<1>4. o \in OpIds /\ ops[o] = NoOp /\ o # 0
  BY <1>2, <1>3, NextOpIs, BoundsAssumption DEF OpIds
<1>5. MutationBy(o)
  BY <1>3, Zenon DEF Mutation
<1>16. PICK over :
       \E kind \in {"install", "configure", "enable", "disable", "upgrade", "rollback",
                   "delete_instance", "uninstall"},
          status \in {"applying", "staged", "succeeded"},
          T \in SUBSET Agents, plugin \in Plugin, insts \in AnyInstances, S \in SUBSET Instances :
         /\ T # {}
         /\ Mutate(o, T, kind, status, over, plugin, insts)
         /\ plugin.pend \in {0, o}
         /\ Stages(insts, S, o) /\ KeepsConfigs(insts)
         /\ S # {} => kind \in {"configure", "upgrade", "rollback"}
         /\ kind = "configure" => \A i, j \in S : i = j
  BY <1>5, Zenon DEF MutationBy
<1>6. PICK kind \in {"install", "configure", "enable", "disable", "upgrade", "rollback",
                     "delete_instance", "uninstall"},
           status \in {"applying", "staged", "succeeded"},
           T \in SUBSET Agents, plugin \in Plugin, insts \in AnyInstances, S \in SUBSET Instances :
         /\ T # {}
         /\ Mutate(o, T, kind, status, over, plugin, insts)
         /\ plugin.pend \in {0, o}
         /\ Stages(insts, S, o) /\ KeepsConfigs(insts)
         /\ S # {} => kind \in {"configure", "upgrade", "rollback"}
         /\ kind = "configure" => \A i, j \in S : i = j
  BY <1>16, Zenon
<1>7. /\ \A q \in OpIds \ {o}, p \in Places : RowStays(q, p)
      /\ \A p \in Places : rows'[o][p].slot # "active"
      /\ installed' \in Plugin /\ installed'.pend = plugin.pend
      /\ plugin.pend = o =>
           \A p \in Places : rows'[o][p].slot = "pending" => Planned(p)' \/ Leaving(o, p)'
  BY <1>1, <1>4, <1>6, MutationRows
<1>8. PICK target \in Revs : ops' = MutatedOps(o, kind, status, over, target)
  BY <1>1, <1>6, MutateIs
<1>9. instance' = insts
  BY <1>1, <1>6, MutateIs
<1>10. /\ ops'[o].kind = kind /\ ops'[o] # NoOp
       /\ \A q \in OpIds \ {o} : ops[q] # NoOp => ops'[q] # NoOp
  BY <1>1, <1>4, <1>8, MutatedOpsAre, SMTT(60)
<1>11. ASSUME NEW i \in Present(insts), insts[i].pOp # 0
       PROVE  \/ i \in S /\ insts[i].pOp = o
              \/ insts[i].pOp \in OpIds \ {o} /\ ops[insts[i].pOp] # NoOp
  <2>1. i \in Instances /\ insts[i].found
    BY DEF Present
  <2>2. CASE i \in S /\ insts[i].pOp = o
    BY <2>2
  <2>3. CASE instance[i].found /\ insts[i].pOp = instance[i].pOp
    <3>1. i \in Present(instance)
      BY <2>1, <2>3 DEF Present
    <3>2. ops[insts[i].pOp] # NoOp
      BY <1>11, <2>3, <3>1, Zenon DEF StagingInv
    <3>3. instance[i] \in Instance
      BY <1>1, <2>1, <2>3, InstanceIs
    <3>4. insts[i].pOp \in OpIds
      BY <1>11, <2>3, <3>3 DEF Instance, Numbers
    <3> QED BY <1>4, <3>2, <3>4
  <2> QED BY <1>6, <1>11, <2>1, <2>2, <2>3, Zenon DEF Stages
<1>12. StagingInv'
  <2>1. ASSUME NEW i \in Present(insts), insts[i].pOp # 0
        PROVE  ops'[insts[i].pOp] # NoOp
    BY <1>10, <1>11, <2>1
  <2>2. ASSUME installed'.pend # 0, NEW i \in Present(insts), insts[i].pOp = installed'.pend
        PROVE  /\ ops'[installed'.pend].kind \in {"configure", "upgrade", "rollback"}
               /\ ops'[installed'.pend].kind = "configure" =>
                    \A j \in Present(insts) : insts[j].pOp = installed'.pend => j = i
    <3>1. installed'.pend = o
      BY <1>6, <1>7, <2>2
    <3>2. \A j \in Present(insts) : insts[j].pOp = o => j \in S
      BY <1>4, <1>11
    <3>3. i \in S
      BY <2>2, <3>1, <3>2
    <3>4. kind \in {"configure", "upgrade", "rollback"}
      BY <1>6, <3>3
    <3>5. kind = "configure" => \A j \in Present(insts) : insts[j].pOp = o => j = i
      BY <1>6, <3>2, <3>3
    <3> QED BY <1>10, <3>1, <3>4, <3>5
  <2> QED BY <1>9, <2>1, <2>2, Zenon DEF StagingInv, Present
<1>13. RowsInv'
  <2>1. ASSUME NEW q \in OpIds, NEW p \in Places, ops'[q] = NoOp
        PROVE  rows'[q][p] = NoRow
    <3>1. q \in OpIds \ {o} /\ ops[q] = NoOp
      BY <1>10, <2>1
    <3>2. rows[q][p] = NoRow
      BY <3>1, Zenon DEF RowsInv
    <3>3. RowStays(q, p)
      BY <1>7, <3>1
    <3> QED BY <3>2, <3>3, Zenon DEF RowStays
  <2>2. ASSUME installed'.pend # 0, NEW p \in Places
        PROVE  /\ rows'[installed'.pend][p].slot # "active"
               /\ rows'[installed'.pend][p].slot = "pending" =>
                    Planned(p)' \/ Leaving(o, p)'
               /\ installed'.pend = o
    <3>1. installed'.pend = o /\ plugin.pend = o
      BY <1>6, <1>7, <2>2
    <3> QED BY <1>7, <3>1
  <2>3. ASSUME installed'.pend # 0, NEW p \in Places
        PROVE  /\ rows'[installed'.pend][p].slot # "active"
               /\ rows'[installed'.pend][p].slot = "pending" =>
                    Planned(p)' \/ Leaving(installed.pend, p)'
    <3>1. o = installed'.pend
      BY <2>2, <2>3
    <3>2. Leaving(o, p)' => Leaving(installed.pend, p)'
      BY <3>1, Zenon DEF Leaving
    <3> QED BY <2>2, <2>3, <3>2
  <2> QED BY <2>1, <2>3, Zenon DEF RowsInv
<1>14. AuthorityTaken
  <2>1. ASSUME NEW q \in OpIds, NEW p \in Places, rows'[q][p].slot = "active"
        PROVE  rows[q][p].slot = "active"
    <3>1. q \in OpIds \ {o}
      BY <1>7, <2>1
    <3>2. RowStays(q, p)
      BY <1>7, <3>1
    <3> QED BY <2>1, <3>2, Zenon DEF RowStays
  <2> QED BY <2>1, Zenon DEF AuthorityTaken
<1>15. PromotedForCause
  BY <1>6, <1>9, Zenon DEF PromotedForCause, KeepsConfigs
<1> QED BY <1>12, <1>13, <1>14, <1>15


\* A commit, of whichever handler.
LEMMA HandlerCommits ==
  ASSUME LifecycleInv, StagingInv, RowsInv,
         \/ Commit(report, report') /\ UNCHANGED tick
         \/ Commit(tick, tick') /\ UNCHANGED report
  PROVE  StagingInv' /\ RowsInv' /\ AuthorityTaken /\ PromotedForCause
<1>1. CASE Commit(report, report') /\ UNCHANGED tick
  <2>1. PICK w, n, x : w = report /\ n = report' /\ x = tick
    OBVIOUS
  <2>2. Handler(w, n, x) /\ Commit(w, n)
    BY <1>1, <2>1, Zenon DEF Handler
  <2> QED BY <2>2, CommitGrants
<1>2. CASE Commit(tick, tick') /\ UNCHANGED report
  <2>1. PICK w, n, x : w = tick /\ n = tick' /\ x = report
    OBVIOUS
  <2>2. Handler(w, n, x) /\ Commit(w, n)
    BY <1>2, <2>1, Zenon DEF Handler
  <2> QED BY <2>2, CommitGrants
<1> QED BY <1>1, <1>2

\* What else a handler does is quiet.
LEMMA HandlerIsQuiet ==
  ASSUME LifecycleInv,
         \/ Load(report, report') /\ UNCHANGED tick
         \/ Load(tick, tick') /\ UNCHANGED report
  PROVE  Quiet
<1>1. CASE Load(report, report') /\ UNCHANGED tick
  <2>1. PICK w, n, x : w = report /\ n = report' /\ x = tick
    OBVIOUS
  <2>2. Handler(w, n, x) /\ Load(w, n)
    BY <1>1, <2>1, Zenon DEF Handler
  <2> QED BY <2>2, LoadIsQuiet
<1>2. CASE Load(tick, tick') /\ UNCHANGED report
  <2>1. PICK w, n, x : w = tick /\ n = tick' /\ x = report
    OBVIOUS
  <2>2. Handler(w, n, x) /\ Load(w, n)
    BY <1>2, <2>1, Zenon DEF Handler
  <2> QED BY <2>2, LoadIsQuiet
<1> QED BY <1>1, <1>2

\* The steps that read the tables only.
LEMMA ReadingIsQuiet ==
  ASSUME LifecycleInv, Reconcile \/ Tick \/ SupersededVerdict \/ ReadRows \/ Judge
  PROVE  Quiet
<1>1. UNCHANGED <<installed, instance, ops, rows, revs>>
  <2>1. CASE Reconcile
    BY <2>1 DEF Reconcile, db
  <2>2. CASE Tick
    BY <2>2 DEF Tick, db
  <2>3. CASE SupersededVerdict
    BY <2>3 DEF SupersededVerdict, db
  <2>4. CASE ReadRows
    BY <2>4 DEF ReadRows, db
  <2>5. CASE Judge
    BY <2>5 DEF Judge, db
  <2> QED BY <2>1, <2>2, <2>3, <2>4, <2>5
<1> QED BY <1>1, TablesUntouched

\* What the agents do is quiet.
LEMMA AgentIsQuiet ==
  ASSUME LifecycleInv, NEW a \in Agents, Agent(a)
  PROVE  Quiet
<1>1. CASE Unrelated(a)
  BY <1>1, UnrelatedIsQuiet
<1>2. CASE Supersede(a)
  BY <1>2, SupersedeIsQuiet
<1>3. CASE Run(a)
  <2>1. UNCHANGED <<installed, instance, ops, rows, revs>>
    BY <1>3 DEF Run, db
  <2> QED BY <2>1, TablesUntouched
<1>4. CASE \E i \in Instances : Crash(a, i)
  <2>1. UNCHANGED <<installed, instance, ops, rows, revs>>
    BY <1>4 DEF Crash, db
  <2> QED BY <2>1, TablesUntouched
<1>5. CASE Applied(a) \/ Failed(a) \/ Drained(a)
  BY <1>5, ReportsAreQuiet
<1>6. CASE \E i \in Instances : Status(a, i)
  BY <1>6, StatusIsQuiet
<1> QED BY <1>1, <1>2, <1>3, <1>4, <1>5, <1>6, Zenon DEF Agent

\* At the start nothing is staged.
LEMMA AuthorityInit ==
  ASSUME Init
  PROVE  StagingInv /\ RowsInv
<1>1. Present(instance) = {}
  BY DEF Init, NoInstance, Present
<1>2. installed.pend = 0
  BY DEF Init, Fresh
<1>3. \A q \in OpIds, p \in Places : rows[q][p] = NoRow
  BY DEF Init
<1>4. StagingInv
  BY <1>1, <1>2 DEF StagingInv
<1>5. RowsInv
  BY <1>2, <1>3 DEF RowsInv
<1> QED BY <1>4, <1>5

\* Every step keeps what is said of the plan's rows, and grants authority for cause.
LEMMA AuthorityStep ==
  ASSUME LifecycleInv, StagingInv, RowsInv, [Next]_vars
  PROVE  StagingInv' /\ RowsInv' /\ AuthorityTaken /\ PromotedForCause
<1>1. PlanTypeInv /\ setting.agents \subseteq Agents
  BY SettingIs DEF LifecycleInv
<1>2. CASE User
  <2>1. Install \/ Uninstall \/ Mutation
    BY <1>2, UserKeeps
  <2> QED BY <2>1, InstallIsQuiet, QuietKeeps, UninstallGrants, MutationGrants
<1>3. CASE \E a \in setting.agents : Agent(a)
  BY <1>1, <1>3, AgentIsQuiet, QuietKeeps
<1>4. CASE HandleReport
  <2>1. CASE Expected \/ Reconcile \/ (Load(report, report') /\ UNCHANGED tick)
    BY <2>1, ExpectedIsQuiet, ReadingIsQuiet, HandlerIsQuiet, QuietKeeps
  <2>2. CASE Commit(report, report') /\ UNCHANGED tick
    BY <2>2, HandlerCommits
  <2> QED BY <1>4, <2>1, <2>2, Zenon DEF HandleReport
<1>5. CASE Recover
  <2>1. CASE \E a \in Agents : SupersededTarget(a)
    BY <2>1, SupersededTargetIsQuiet, QuietKeeps
  <2>2. CASE Tick \/ SupersededVerdict \/ ReadRows \/ Judge
    BY <2>2, ReadingIsQuiet, QuietKeeps
  <2>3. CASE Load(tick, tick') /\ UNCHANGED report
    BY <2>3, HandlerIsQuiet, QuietKeeps
  <2>4. CASE Commit(tick, tick') /\ UNCHANGED report
    BY <2>4, HandlerCommits
  <2> QED BY <1>5, <2>1, <2>2, <2>3, <2>4, Zenon DEF Recover
<1>6. CASE FailOrphaned
  BY <1>6, FailOrphanedIsQuiet, QuietKeeps
<1>7. CASE UNCHANGED vars
  <2>1. UNCHANGED <<installed, instance, ops, rows, revs>>
    BY <1>7 DEF vars
  <2> QED BY <2>1, TablesUntouched, QuietKeeps
<1> QED BY <1>2, <1>3, <1>4, <1>5, <1>6, <1>7, Zenon DEF Next

(***************************************************************************)
(* The theorems                                                            *)
(***************************************************************************)
\* The tables, what the agents hold and what the handlers carry have their types,
\* the plan is an open operation of the kind that staged it, and what a handler
\* is about to commit is what the plugin and the instance still name.
THEOREM LifecycleInvariance == Spec => []LifecycleInv
<1>1. Init => LifecycleInv
  BY LifecycleInit
<1>2. LifecycleInv /\ [Next]_vars => LifecycleInv'
  BY LifecycleStep
<1> QED BY <1>1, <1>2, PTL DEF Spec

\* The pending plan of a plugin is an open operation at the revision it names,
\* with what that operation has staged and nothing else.
THEOREM PendingSafety == Spec => []PendingIsOpen
<1>1. LifecycleInv => PendingIsOpen
  <2> SUFFICES ASSUME LifecycleInv, installed.found
               PROVE  /\ installed.pend /= 0 =>
                           /\ Open(installed.pend)
                           /\ ops[installed.pend].rev = installed.pendRev
                      /\ installed.pend = 0 => installed.pendRev = 0
                      /\ installed.staged /= 0 <=>
                           installed.pend /= 0 /\ ops[installed.pend].kind \in {"upgrade", "rollback"}
                      /\ Reclaims => \A i \in Present(instance) :
                           instance[i].pOp /= 0 => instance[i].pOp = installed.pend
    BY Zenon DEF PendingIsOpen
  <2>1. PlanInv /\ StagedInv
    BY Zenon DEF LifecycleInv
  <2> QED BY <2>1, Zenon DEF PlanInv, StagedInv
<1> QED BY <1>1, LifecycleInvariance, PTL

\* Authority goes with what is committed.
THEOREM AuthoritySafety == Spec => AuthorityIsCommitted
<1>1. Init => StagingInv /\ RowsInv
  BY AuthorityInit
<1>2. LifecycleInv /\ (StagingInv /\ RowsInv) /\ [Next]_vars => (StagingInv /\ RowsInv)'
  BY AuthorityStep
<1>3. LifecycleInv /\ (StagingInv /\ RowsInv) /\ [Next]_vars => [AuthorityTaken /\ PromotedForCause]_vars
  BY AuthorityStep
<1> QED BY <1>1, <1>2, <1>3, LifecycleInvariance, PTL DEF Spec, AuthorityIsCommitted
=============================================================================
