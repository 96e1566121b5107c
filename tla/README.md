# Formal verification of nginx-reverse-emby

TLA+ models of the parts of nginx-reverse-emby that move an agent from one
configuration to the next without dropping its traffic, and of the parts of its
control plane that decide what an agent is given.  TLC checks them on small
instances, TLAPS proves most of their safety properties for every instance.

## 1. The system

A **control plane** (`panel/backend-go`) keeps the desired configuration of a
fleet of **agents** (`go-agent`) and serves a web panel.  A change to the
configuration becomes an immutable *revision* of one or several agents.  An agent
pulls its newest revision under a *lease*, builds a *generation* (listeners,
certificates, relays, plugins) from it, switches to it, reports the result, and
lets the sessions of the previous generation drain before it destroys that
generation.  The agent also replaces itself: it stages a new binary, starts it,
hands its listeners over and drains.  The control plane gets the plugins that the
revisions carry from marketplace sources and keeps their packages in a cache.

### Inventory

| component | state it keeps | operations | talks to |
|---|---|---|---|
| revision publication, revision store (`revision/executor.go`, `storage/revision_store.go`) | revision rows, pointer | execute a mutation, ensure a heartbeat revision, prune history | writes the ledger the coordinator reads |
| revision coordinator (`coordinator/`, `storage/revision_coordinator.go`, `service/revision_reconciler.go`) | pointer, revision, attempt and generation rows per agent | claim, start, fail, apply, complete drain, retry, rollback, repair, retire, reconcile | agents over HTTP, users, a five-second ticker |
| dependency planning (`coordinator/dependency.go`, `dependency/`) | the plan stored with an operation | decides which agents of one operation may claim | read by pull, written by publication |
| plugin lifecycle (`service/plugins.go`, `storage/plugin_generation.go`) | plugin, instance, operation and runtime status rows | install, configure, publish, enable, disable, upgrade, roll back, uninstall, complete | revision executor, agents' reports, recovery pass |
| marketplace (`marketplace/manager.go`, `storage/plugin_store.go`) | source, refresh, staging, snapshot and cleanup rows; directories | refresh, edit, delete, time out, clean up | scheduler, workers, package cache |
| package cache (`marketplace/cache.go`, `service/marketplace.go`) | cached packages, quarantines, collection intents and claims | publish, resolve, collect | refreshes, installations |
| agent revision sync (`core/sync_revision.go`) | durable generation journal, applied snapshot | one pull, start, apply, report cycle; recovery after a restart | coordinator, generation manager, state store |
| agent generation manager (`core/generation_manager.go`, `module/registry.go`) | active view, publication in progress | prepare, publish, activate, register session, close | modules, drain controller |
| agent drain controller (`internal/generation`) | one entry per generation, the session registry, timers, cleanup goroutines | register session, finish, activate, retire, force, retry cleanup, close | generation manager, session owners, resources |
| agent update manager (`core/update_manager.go`, `update_retention.go`) | packages, current and previous pointers, installed executable | stage, activate, roll back, clean up | service manager, hot restart |
| agent hot restart (`internal/hotrestart`, `app/*hotrestart*`) | authority journal, pipes, listeners handed over | launch, activate, transfer, recover, supervise, shut down | service manager, its own processes |
| agent plugin log outbox (`core/plugin_log_*.go`) | bounded durable journal of reports and retirement intents | capture, heartbeat, acknowledge, checkpoint, retire | plugins, control plane, revision sync |
| traffic modules, plugin hosts, certificates, API, storage, panel | sockets, processes, tables | I/O | everything above |

`PROJECT.json` lists every part, including those left out and why, and under
`hazards` what can go wrong in each, at its line.

### What is hard, and what makes each part correct

* **Drain controller.**  Timers, `Finish` callbacks, cleanup goroutines,
  `Activate` and `Close` meet in one structure with three levels of locks (the
  controller, an entry's lifecycle lock, a session handle), and session closes and
  `Destroy` run outside of all of them.  It is correct if no session is ever
  registered on a resource being destroyed, no session in use is missing from the
  registry, revoked entities lose their sessions, the bound on draining
  generations holds, an outcome once reported stays, every retired generation is
  released in the end, and nobody waits for ever.
* **Generation manager.**  A publication swaps the view before the drain
  controller has heard of the generation, while sessions arrive and handshakes
  use the view.  It is correct if no session is refused in that gap, view and
  drain owner agree between applies, and every prepared module transaction is
  destroyed, once, in order, and not while it is used.
* **Coordinator.**  The agent's calls are delayed, repeated and lost; deadlines
  race late answers; users retry, roll back and delete; history is pruned.  It is
  correct if an agent has at most one attempt in progress, the pointer, rows and
  generations tell one story, outcomes stay, and nothing stays *applying* or
  *draining* because an agent vanished.
* **Agent sync.**  A crash, a lost answer or a local error may come between any
  two of its journal writes, calls and runtime switches, and a call given up on
  may still arrive.  It is correct if what the panel calls applied survives a
  restart, both sides agree on which generations live, the agent applies only
  what the panel counts as started, a drain is reported only when it has ended,
  and a desired revision is applied or given up in the end.
* **Dependency planning.**  A pull reads the plan, rows and pointers one query
  after the other while they change.  It is correct if an agent never runs a rule
  before the relays on its way do, and if nothing waits without cause.
* **Update manager and hot restart.**  Any process may die between any two writes
  or messages.  They are correct if the executable the service manager starts is a
  known one, no needed package is reclaimed, at most one process controls the
  agent and accepts its traffic, and somebody does in the end.
* **Plugin log outbox.**  Writes fail or are torn, replies are lost, capacity runs
  out.  It is correct if a confirmed report is recorded once, and waiters end.
* **Marketplace and package cache.**  Leases and claims run out under workers that
  go on; a directory or package is looked at and removed in different transactions.
  They are correct if rows agree, no directory or package in use is removed, and
  what is not used is removed in the end.
* **Plugin lifecycle.**  The reports of several agents, a recovery pass and later
  mutations complete, supersede and rebase the same operation.  It is correct if
  nothing is decided early or twice, and what holds authority is what was committed.

## 2. Modules

| module | models | role |
|---|---|---|
| `DrainOwner` | what the drain controller promises | abstract specification |
| `GenerationDrain` | `internal/generation/{controller,registry,observability}.go` | implements `DrainOwner` |
| `GenerationManager` | `core/generation_manager.go`, `module/registry.go` | composed with `DrainOwner` |
| `RevisionCoordinator` | `storage/revision_coordinator.go`, `coordinator/coordinator.go`, the ledger parts of `storage/revision_store.go` and `revision/executor.go` | the ledger of one agent against arbitrary calls |
| `AgentRevisionSync` | `core/sync_revision.go`, `service/revision_api.go` | the agent composed with the ledger's actions |
| `DependencyPlan`, `DependencyEvaluation`, `DependencyOperation` | `dependency/graph.go`, `coordinator/dependency.go` | edges of a plan; cycles and evaluation as functions; several agents under plans |
| `PluginLifecycle` | `service/plugins.go`, `storage/plugin_generation.go`, the reconcilers | one plugin on several agents |
| `MarketplaceRefresh` | `marketplace/manager.go`, `storage/plugin_store.go`, `service/marketplace.go` | refreshes of sources |
| `PackageGC` | `storage/plugin_store.go`, `marketplace/cache.go`, `service/marketplace.go` | the collection of one digest |
| `UpdateStore` | `core/update_manager.go`, `core/update_retention.go` | the packages of the agent on disk |
| `HotRestart` | `internal/hotrestart`, `app` | the processes of one agent |
| `PluginLogOutbox` | `core/plugin_log_outbox*.go`, `core/plugin_log_capacity.go`, the sink and the recording | the journal, its writers, the heartbeat |
| `MC...` | | instances for TLC: values of constants, the *settings* a run ranges over, symmetry |
| `...Proofs` | | inductive invariants and theorems |

Seven modules take their parameters from a variable `setting`, chosen in `Init`
from a constant set: one run then answers the same question for several small
configurations, each with its own faults and optional calls.  For `GenerationDrain`
and `AgentRevisionSync`, whose proofs are about every behaviour, the MC module adds the
`setting` instead, and keeps each step within it (`Bounded`).

### GenerationDrain and DrainOwner

One step is one critical section of `c.mu`, of the registry's mutex or of a
handle's mutex; everything between two of them interleaves.

| variables | code |
|---|---|
| `active order entries closed` | the fields of `DrainController` |
| `state final destroy revoked timer retry` | the fields of each `drainEntry` |
| `rec registered` | `SessionHandle` with its `sessionRecord`, and `SessionRegistry.generations` |
| `loop` | a running `SessionRegistry.force`: what is left, what is being closed, whom it waits for |
| `waiting life` | who waits for and who holds an entry's `lifecycleMu`, and where the holder is |
| `prog pub closer` | the callback of a progressive drain timer, the goroutine in `Activate`, the goroutine in `Close` |
| `failures` | number of failed external calls and cancelled contexts so far |

`ForceClose`, `Destroy` and the selective force of progressive sessions belong to
other components: each call may succeed or, at most `MaxFailures` times, fail.
Times are dropped, so an armed timer may fire at any moment.  A record is used
once, but its key may be used again by another.  Goroutines that wait for the
same lock with the same role are one waiter: the first to get the lock leaves
nothing for the others that they would do differently.

`DrainOwner` has only `active`, a `phase` per generation (absent, serving,
retiring, ending, destroying, gone), who is on which generation, and `closed`.
`GenerationDrain` instantiates it as `Owner` with a refinement mapping, and
`ImplementsDrainOwner` is its specification.

### GenerationManager

The four variables of `DrainOwner` are the drain controller; the rest is
the manager and the registry.

| variables | code |
|---|---|
| `view publication` | `Registry.active`, the open `publicationDone` |
| `mu generationMu` | the holders of the two mutexes |
| `applier user request` | the goroutines in `apply`, in `WithActiveGeneration` and behind each session, each with its place |
| `candidate tx destroyed` | module transactions of the candidate and of the published views, and the memoised result of `GenerationView.Destroy` |
| `failures` | failing `Destroy` calls so far |

Modules are prepared, registered and destroyed one by one, and any call into one
may fail, so that every rollback path of `Prepare`, `Publish` and
`ActivateGeneration` is taken.

### RevisionCoordinator

Every operation of the store is a write transaction that locks the agent's
pointer row, hence one step; a transaction that returns an error rolls back and
is no step, except where the code commits first and then reports a conflict
(`StartExpired`, `StartSuperseded`, `ClaimNothing`).  The agent is not modelled:
any lease ever given may be used in any call at any later moment, which covers
delayed, duplicated, reordered and lost calls and every crash of the agent.

| variables | code |
|---|---|
| `registered` | the row in `agents` |
| `pointer` | `AgentRevisionPointerRow` |
| `revision attempt generation` | `AgentRevisionRow`, `AgentRevisionAttemptRow`, `AgentGenerationRow` |
| `row` | for each lease, the attempt it was issued for (the lease the agent holds) |

Deadlines are flags that may be raised at any time after they are set.  A
generation id hashes the whole lease, so it is the lease id.  `generation.era`
stands for `drained_at`: the only question the code asks of it is whether it lies
after the application of the current revision.

The repair of an orphaned *applying* revision in `Reconcile` is modelled but
never needed: `OneLease` shows that no orphan is reachable.  The repair exists
for rows written by other means.

### AgentRevisionSync

The agent's sync as a second process next to the coordinator's ledger, whose
actions it calls.  In place of "any lease in any call", the calls are those that
the sync makes, in its order.

| variables | code |
|---|---|
| `journal` | the durable `GenerationJournal`: active, candidate, draining records |
| `snapshot` | the revision of the durable applied snapshot |
| `runtime retired` | the revision the generation manager runs, and the drain of each one it replaced |
| `pc held` | where `performRevisionSyncPlan` is, and the lease it has just pulled |
| `late` | calls the agent has given up on that may still reach the panel, once |
| `faults` | number of failures so far |

A step is one journal save with the call or the check before it: a crash between
the two leaves what a lost answer leaves.  The pull is one step, though the panel
looks for a current lease and claims a new one in two transactions: a revision
published between them leaves what a lost pull leaves.  `Faults` names the kinds of
failure (`timeout`, `crash`, `error`, `apply`, `expiry`), `MaxFaults` bounds their
weight.  The panel publishes, prunes, retries and reconciles in between.

The repair of a runtime that is behind the panel is not an action: the heartbeat
reports the revision of the applied snapshot, and `AppliedIsDurable` shows that it
is never below the panel's applied revision.

### DependencyPlan, DependencyEvaluation, DependencyOperation

`DependencyPlan` builds the edges of a plan from the layers and the egress of
rules, as `addRuleEdges` does.  `DependencyEvaluation` has `findCycle` and
`Plan.Evaluate` as recursive operators, with declarative definitions
beside them (`FindsCycles`, `BlocksReachable`, `ShowsWork`).  In
`DependencyOperation` several agents take up the revisions of several operations:
`pull` is a pull with the rows it has read so far, query by query; `lease`,
`pointer` and `revision` are the ledger of `RevisionCoordinator` reduced to what a plan
can see, `operation` the operation rows with their aggregated status.

### PluginLifecycle

| variables | code |
|---|---|
| `installed instance ops` | `installed_plugins`, `plugin_instances`, `plugin_operations` |
| `rows` | `plugin_agent_runtime_statuses`, the rows that fence reports |
| `revs` | the plugin generations in each agent's revisions, and their states |
| `run up` | what each agent runs and would report |
| `tick report` | the recovery pass and the handler of each agent's report, read by read |

A user mutation is one transaction.  `Unrelated(a)` stands for every other mutation or
heartbeat that publishes a revision for an agent and so rebases pending rows.
`Retains`, a part of the setting, is the cleanup policy of the plugin
(`instances: retain` in `plugin-manifest-v1.schema.json`).

### MarketplaceRefresh and PackageGC

`MarketplaceRefresh` has the rows (`src op staged catalog snaps rows intents`), the
directories (`disk`), the goroutines (`worker`, `cleaner`) and the cache
(`cached`).  Every action is one transaction or one file operation.  The expiry of a
lease is a flag that time may raise under a worker that goes on.

`PackageGC` follows one digest in detail: the cache and its quarantines, the
collection intent and claim (`intent fence gc`), the refreshes and catalogs that
refer to it, and an installation from resolution to the row (`installer packages
installed`).  Several signers may have signed the digest, and several sources may
share a signer.

### UpdateStore, HotRestart, PluginLogOutbox

`UpdateStore`: one step is one write another process could observe.  `files
current previous installed` are the disk, `mgr` the call under way, `worker
parents` the processes whose images must be kept.  A desired version may be empty, as it
may be in a package policy.

`HotRestart`: one step is one operation on the journal (under its file lock), one
message, or one change of what a process listens on.  `pc launched parentOf`
are the processes, `journal` the records of `authority.json`, `commands events` the
pipes of each launch.  The service manager kills what is left and starts a new
root when the main process ends.

`PluginLogOutbox`: an operation is two steps, reading the journal and writing it, so
that a write can fail, be torn, or follow a crash.  `capture changed` are the
writers, `beat` the heartbeat, `row recorded settled` the control plane, `upgrade
applied serving draining` the revisions whose removal retires log fences.  Two
processes may have the data directory open, each with its own mutex, writers and
heartbeats; the history variable `apart` says whether any of them has read the journal
in the middle of an operation of the other.  The revisions are those of one process.

## 3. Runs

| run | instance | question | states |
|---|---|---|---|
| `drain_sessions` | 3 generations, 1 session, revocation by the second activation; 2 generations, two sessions of one key, one of them progressive, revocation, 1 failure | may cutovers, registrations, forces and the limit meet in any order? `NoSessionOnDestroyedResource`, `LiveHandleIsRegistered`, `RevokedEntitiesAreClosed`, `RetiredHasOwner`, `LimitStopsDraining` | 1.0M |
| `drain_shutdown` | 1 generation, 2 sessions, retire and close, 1 failure; 2 generations, a revoking cutover, both drain timers and either close or 1 failure; fair | does a drain end, and is the controller a `DrainOwner`? `OutcomeSticks`, `ImplementsDrainOwner`, `CallersReturn`, `RetiredIsReleased` | 172k |
| `coordinator` | 3 revisions, 1 cycle of 2 attempts, 3 leases, all optional calls, fair | does the ledger of one agent agree with itself? `OneLease`, `AppliedIsServed`, `DrainStateAgrees`, `OutcomesStick`, `LedgerSettles` | 39k |
| `sync` | 2 revisions, 1 cycle of 2 attempts, one failure of any kind or two timeouts; 3 revisions, two calls lost for good; 5 leases, fair | do agent and ledger agree, and get on? `AppliedIsDurable`, `LedgerIsTrue`, `Converges` | 193k |
| `manager` | 2 generations of 2 modules, 1 session, 1 failing destroy, close, retire and use, fair | does the gap between view and drain owner show? `NoRefusalBeforeHandover`, `ViewIsOwned`, `PreparedIsOwned`, `CallsReturn` | 283k |
| `update` | 3 packages, 1 version or none, all faults | does a crash leave an agent that can start? `InstalledIsKnown`, `NeededIsRetained` | 1.0M |
| `hot_restart` | 3 launches, 1 crash, fair | who is in charge? `OneController`, `AlwaysControlled`, `ShutdownStopsLineage` | 641k |
| `outbox` | 3 writers, 3 fences, 1 process or 2, 5 settings, fair | is a report recorded once? `DeliveredOnce`, `WaitersEnd` | 136k |
| `dependency` | up to 3 agents and 4 operations, 5 settings; 5 rules, fair | is the order of a plan kept? `EvaluationIsExact`, `OrderIsKept`, `NodesEnd` | 482k |
| `market` | 2 sources, 2 refreshes, 2 cleaners, 7 settings, fair | do rows and directories agree? `RowsAgree`, `DirsAreOwned`, `DeletionCompletes` | 533k |
| `gc` | 2 sources, 2 signers, 2 workers, 5 settings, fair | is exactly what is unused collected? `UsedIsCached`, `UnusedIsCollected` | 260k |
| `lifecycle` | 2 agents, 2 instances, 2 packages, 4 operations, 8 settings, fair | does an operation end as its agents decided? `PendingIsOpen`, `AuthorityIsCommitted`, `EndsForCause`, `OperationsEnd` | 591k |

Every property has a mutant of the model in `PROJECT.json`: a plausible slip in
the code (a dropped guard, an off-by-one, a removal by key) that breaks it.

**Deadlock** is checked in `sync` and `update`, whose loops never end.  The
others have `CHECK_DEADLOCK FALSE`: their sessions, calls, leases or operations are
finite in an instance, and a system whose calls have stopped coming may stop.

**Bounds.**  Three generations are the fewest that exceed the limit of two live
generations of `enforceLimit`.  Two sessions of one key are the fewest with which a late
removal can hit a newer record: they are used one after the other on two generations,
with a failing close or destroy and a revocation, whose `revokeEntities` reopens what it
could not close.  The third generation and the second session are in different settings,
as both together are too many states, and no run has `RetireActive` or `Close` with three
generations; the theorems of section 4 have no such limits.  In the fair run `Close` walks
two generations while an `Activate` closes revoked sessions and a timer forces; a force for
the limit, which needs three, is not waited for there.  In `coordinator` three
revisions allow a chain of two predecessors draining together, or one overtaken
while another is applied; two attempts separate *retry* from *exhausted*.  For the
sync, two revisions give one predecessor, and three with two lost calls the sync that
leases a revision while the panel does not know of the last; a failure weighs two of
`MaxFaults`, a timeout one.  Three packages are one beside the current and the previous; three
launches hand the authority on from a process that got it by a launch itself.
Two refreshes, two cleaners, two workers of a collection and two agents
of a plugin are the fewest that race.  Each setting takes two or three of
the faults and optional calls together that bite on each other, and the settings
between them take all.  Symmetry is used for the packages of `UpdateStore` only, which
the code never orders, in a run without liveness properties.

**Conditions in properties.**  `DrainStateAgrees` speaks of a registered agent: late
heartbeats of a deleted one, followed by a retry of an operator, may leave a
generation above the applied revision draining.  `LimitStopsDraining` is what
`enforceLimit` promises when its context is intact; a failed or repeated cleanup
may keep more.  The second part of `DirsAreOwned` (nothing is forgotten) holds as
long as the process does not end: a directory made after the lease has run out and
been cleaned up is forgotten by a crash.  `UsedIsCached` is about sources with
packages: a metadata source is fetched from on demand.  `EndsForCause` speaks of one agent
whose revision numbers no other mutation has moved (`OwnRevisions`): with two agents an
operation without rows of its own may be completed before the other agent's rows report.

Others name the behaviour of the code that would refute them without it, and each of these
exceptions does occur in the run, which is violated without it:

* `RetiredIsReleased`: a progressive drain timer closes progressive sessions once; a
  session it could not close keeps its generation, with no timer left (`Spared`).
* `Converges`: a report lost twice strands the agent in the way described below
  (`Stranded`).
* `DeliveredOnce`: two processes whose journal operations overlap (`apart`).  The writers
  of `WaitersEnd` are those of one process: only its own acknowledgements wake them.
* `OrderIsKept`: the revision of an operation without a plan, which carries the rules of a
  planned operation that it overtakes, at the owner of a rule or at its relay (`AppliedPlan`).
* `UnusedIsCollected`: a package stored again beside the quarantine of a failed removal
  (`Beside`), or after an intent had found nothing to remove (`Overlooked`).
* `OperationsEnd`: an instance that outlived its plugin and keeps the pending mark of the
  operation (`HeldByRetained`).  It is about one instance on one agent without a disable (see
  below).

**Authority of a plugin's rows.**  `AuthorityIsCommitted` is a property of the steps: a row
becomes *active* only in the step that makes its configuration and package the
instance's and the plugin's own, and it takes the place of every other row.  That the active
row names the committed configuration *whenever nothing is pending* is not true of the
code (see "Lifecycle" below).  `EndsForCause` has what is true of it: a success that
runtimes decide leaves them in agreement, as long as no runtime crashes, on one agent with
revisions of its own.  `PendingIsOpen` speaks of the marks in instance rows under
`Reclaims`: an uninstallation that keeps the instances leaves their marks behind.

**Fairness.**  In the drain controller and the generation manager a goroutine that
is ready runs, an armed timer fires, and `ForceClose` and `Destroy` return: Go's
scheduler and timers give the first two; the third is what their contexts are for.
Nothing is assumed of session owners or of callers.  The mutex in front of
`WithActiveGeneration` is starvation-free in Go, which is strong fairness of its
waiters.  In the coordinator the reconciler ticks (`service/revision_reconciler.go`
runs it every five seconds for the life of the process) and clocks advance; nothing is
assumed of the agent or the users.  `FairSyncSpec` adds that the agent takes its
steps: its control loop (`app.go`, `runControlLoop`) syncs again after every
success and every error, and a call is answered once the bounded failures are used
up.  A lease the agent has given up on expires.  Hot restart: processes that live go on, waits end
with their timeouts, an interrupted worker ends.  The outbox: operations end,
writers, heartbeats and retirements get the mutex of the store (strong fairness, as
it is shared).  Dependencies: agents pull again, start what they have leased (strong, for a
lease may be superseded in between) and apply.  Marketplace and collection:
workers go on, the scheduler comes back, leases and claims run out.  The lifecycle: handlers return,
the recovery pass recurs with the tick of the revision reconciler, agents take up revisions and
report (strong, as their reports share one handler).

### Where the code and its documents differ

Each was met while modelling.  The first is recorded in `PROJECT.json` with the run that
shows it.

* `docs-site/operations/agent-generation.md:36` says that two draining generations are
  kept and the oldest is forced when a third is created.  `enforceLimit` counts the
  active generation among its two, so that the oldest is forced as soon as a second
  one drains: that is what `LimitStopsDraining` states, and its mutant
  `LiveLimitPlusOne`, which does what the document says, breaks it.
* The comment on `RevisionReconciler` says that it "guarantees that a vanished agent
  cannot leave an applying operation permanently nonterminal".  It ends the attempt
  (`LedgerSettles`), but before the last attempt the revision is *pending* again,
  and only the agent itself can claim it.
* `docs-site/reference/architecture.md` says that the agent sends heartbeats at
  regular intervals.  If the applied report of a revision is lost twice and the same
  sync then leases the next revision, the first becomes a draining predecessor in the
  journal although the panel has no generation for it.  Its drain report is
  answered with 404, and `performRevisionSyncPlan` returns before the heartbeat,
  then and in every later sync until the agent restarts.  `Converges` has this as
  `Stranded`.

### Behaviour a maintainer may want to know

The models have this behaviour too; the properties are stated so that they are
true of it.

* **Drain.**  The result of `GenerationView.Destroy` is memoised
  (`module/registry.go:239`): a retry of a failed cleanup repeats the error and
  destroys nothing more.
* **Update store.**  A crash while the manifest of a package is written, or a removal
  that fails half-way, leaves a directory under which the package cannot be staged
  again.  With an empty desired version, an executable replaced from outside by exactly the
  staged package is imported, but no pointer is written, as neither package nor version
  changes: the next activation is refused (the executable "does not match the current or
  previous package pointer") until the service restarts.
* **Hot restart.**  A root may take the authority back on the strength of a stale
  record, when the process that got it is already dead.
* **Outbox.**  A wake is lost when the sync after an acknowledgement fails; two
  processes of a handover share the journal with a mutex each; an intent staged again
  after a crash keeps the session of the dead process (`plugin_log_outbox.go:304`).
* **Dependencies.**  A plugin revision carries no plan and may overtake one; pruning
  removes rows that a later pull would look at; a superseded node strands
  the nodes behind it (`dependency/graph.go:224`).
* **Collection.**  Objects prepared by a collection that a restart cut off, a package stored
  on demand after the catalog changed, and the quarantine of a failed removal beside a
  package published again each keep a digest from being collected, the last for good.
* **Lifecycle.**  A mutation of something else may be refused while an operation is
  pending; revision numbers of different agents are compared; a row moved to
  another revision completes without a report of its own; the operation of a disable
  may stay open, as its rows wait for a drain report that need not come.
  *Stale authority:* a disable that fails leaves the runtime's row in authority, and an
  upgrade completed while the plugin is disabled stages no rows and retires none; if the
  enable that follows fails, the instance is enabled and its active row still names the old
  configuration and package.
  *Retained instances:* under the cleanup policy `instances: retain` `Uninstall`
  (`service/plugins.go:3976`) keeps the pending mark of an instance.  After a reinstallation
  the instance names the old operation, `FailOrphanedPluginOperations`
  (`storage/plugin_store.go:3891`) spares it, and it stays open until the instance is
  configured again.

## 4. Proofs

Each proof module extends one component (`AgentRevisionSyncProofs` two, the ledger and the agent
that drives it) and holds for every value of its constants that satisfies the named
assumptions of its modules: any sets of generations, sessions, leases, sources, agents,
packages or processes, and any bounds.  The assumptions say what kind of value a
constant is (a number, a set of settings), that a null value is none of the values it stands
beside, that the default agent is an agent, that a manager has a module, that a
revision has an attempt, that a plugin has a first package, and that a marketplace
has a source, a signer and an operation.
None of the properties is inductive.  Each module states the invariant that is,
which TLC has checked on the instance of the corresponding run (and `LedgerInv` of the coordinator
with five leases, `LineageInv` with two crashes, 3.6M states; of the sync with three
revisions, five leases and more failures, it found no violation of `AgentInv` in the first
3.1M states, which are not all), and has one lemma per action and part of the invariant
that the action can disturb.

| module | theorem | states |
|---|---|---|
| `GenerationDrainProofs` | `Invariance`, `TypeCorrect` | `Spec => []Inv`, `Spec => []TypeOK` |
| | `DestroySafety` | `[]NoSessionOnDestroyedResource` |
| | `RegistrySafety` | `[]LiveHandleIsRegistered` |
| | `RevocationSafety` | `[]RevokedEntitiesAreClosed` |
| | `OutcomeSafety` | `OutcomeSticks` |
| | `OwnedInvariance` | `Spec => []OwnedInv` |
| | `OwnerSafety` | `[]RetiredHasOwner` |
| | `LimitSafety` | `[]LimitStopsDraining`, where `RetireActive` is not called |
| | `Implementation` | `ImplementsDrainOwner`: every step is one of `DrainOwner` or a stutter |
| `GenerationManagerProofs` | `ManagerInvariance` | `Spec => []ManagerInv` |
| | `HandoverSafety` | `[]NoRefusalBeforeHandover` |
| | `ViewSafety` | `[]ViewIsOwned` |
| | `TransactionSafety` | `[]PreparedIsOwned` |
| | `OwnerUsed` | the manager takes only the steps of `DrainOwner` |
| `AgentRevisionSyncProofs` | `LedgerInvariance` | `Spec => []LedgerInv` |
| | `LeaseSafety` | `[]OneLease` |
| | `AppliedSafety` | `[]AppliedIsServed` |
| | `DrainSafety` | `[]DrainStateAgrees` |
| | `OutcomeSafety` | `OutcomesStick` |
| | `FailureSafety` | a revision is given up only when all its attempts were made and failed |
| | `GenerationSafety` | a generation is that of the lease of an applied attempt |
| | `SyncInvariance` | `SyncSpec => [](LedgerInv /\ CarriedInv /\ AgentInv)` |
| | `SyncImplementsLedger` | `SyncSpec => Spec` of `RevisionCoordinator` |
| | `DurableSafety` | `[]AppliedIsDurable` |
| | `TruthSafety` | `[]LedgerIsTrue` |
| `HotRestartProofs` | `LineageInvariance` | `Spec => []LineageInv` |
| | `ControllerSafety` | `[]OneController` |
| `MarketplaceRefreshProofs` | `RefreshInvariance` | `Spec => []RefreshInv` |
| | `RowsSafety` | `[]RowsAgree` |
| | `DirectorySafety` | `[]DirsAreOwned` |
| `PackageGCProofs` | `CollectionInvariance` | `Spec => []CollectionInv` |
| | `CacheSafety` | `[]UsedIsCached` |
| `UpdateStoreProofs` | `Safety`, `TypeCorrect` | `Spec => []SafetyInv`, `Spec => []TypeOK` |
| | `InstalledSafety` | `[]InstalledIsKnown` |
| | `RetentionSafety` | `NeededIsRetained` |
| `PluginLifecycleProofs` | `LifecycleInvariance` | `Spec => []LifecycleInv` |
| | `PendingSafety` | `[]PendingIsOpen` |
| | `AuthoritySafety` | `AuthorityIsCommitted` |

`Implementation` and `OwnerUsed` fit together: the controller implements `DrainOwner`,
and the manager, whose theorems are about `DrainOwner`, drives it only as that allows.
So do `SyncImplementsLedger` and the theorems about the ledger: each of them is a
property of the agents' syncs too.

### The arguments

**Drain controller.**  `Inv` adds to `TypeOK`:

* `ActiveInv`: the active generation is in state *applied* and the controller is
  not closed; shutdown forces exist only once it is;
* `EntryInv`: what `state`, `final`, `destroy` and the place of the lifecycle
  holder may be together: nothing is decided, destroyed or held while a
  generation serves, and a *forced* generation is held or destroyed;
* `EmptyInv`: a generation that is drained, or whose holder is in a cleanup, or
  whose `Destroy` has started, has no registered session, and, being in a state
  that refuses them, gets none.  This is the heart of `DestroySafety`: the count
  under `c.mu` and the state are set in one step;
* `RecordInv`: a handle in use is registered and has no removal under way,
  which makes the identity check of `SessionRegistry.finish` sufficient for
  `RegistrySafety`;
* `CallerInv`: a force for `enforceLimit` belongs to the `Activate` under way;
* `RevokeInv`: an active session of a revoked entity has a failed close behind it,
  or is still on the list of the `Activate` that revoked the entity.

`OwnedInv` adds `FinishInv` and `KnownInv` (records and the queue of `Close` name
generations that exist) and `OwnerInv`, which says who owes a retired
generation its next step by the state it is in: a timer, a waiter or a callback counts
only in the states in which it does not come to nothing.  `LimitInv` adds, for
`LimitSafety`, what `enforceLimit` has done for the generations it attempted.
The refinement maps a generation to a phase by its state, its `Destroy` and the holder
of its lifecycle lock.

**Generation manager.**  `LockInv` says who holds which lock at which place of
`apply`; `HandoverInv` what the drain owner knows of the candidate at each of them,
which makes the handover after the swap succeed unless the controller is
closed; `KnownInv` that every generation a session can have come from is known
to the owner or being published; `CandidateInv` and `ViewsInv` that the prepared
transactions of the candidate and of each view are always those of the first *k*
modules, which gives the reverse order and that none is left.

**Coordinator.**  The properties need one another: that an applied revision is
served rests on a late report never finding its lease again, and that on the lease
in an attempt row being the one issued for it (`LeaseInv`).  `BusyInv` has the
one active attempt and its revision, `TriedInv` the counted attempts of a
cycle, `GenerationInv` and `DrainInv` the generations below the applied one.

**Agent sync.**  `SyncMoves` sorts the steps of the system by what they do to the
agent: its journal stands still, the candidate moves on, a report or a drain is
answered, the runtime changes, the snapshot is saved, the candidate becomes active, a
late call arrives.  Each of them is a step of the ledger or leaves it alone, hence
`SyncImplementsLedger`, and the rest of the proof is about these moves.

* `CarriedInv` is about the ledger: an applied attempt is the current one of its revision;
* `AgentTypeInv` and `PlaceInv`: leases in the journal and in calls given up on have been
  given out, and what the place in a sync says of the candidate;
* `OrderInv`: drains, active record, snapshot and candidate are in the order of their
  revisions, and the ledger's applied one is not above the active one, which is
  `AppliedIsDurable`;
* `NewestInv`: of all the leases the agent holds, or that are in a report that may
  still arrive, the newest alone may still be applied, and a lease that has been replaced by
  another of the same revision has no generation.  This is what makes late reports harmless;
* `TruthInv`: `LedgerIsTrue`, and why it stays true: a rejected lease cannot be applied
  any more, the active one has been started, and what has drained is below it.

**Hot restart.**  `ChildInv` and `CommandInv` bound the place of a living child by the
place of its living parent and the commands on their way; `LeadInv` says that two
processes that are neither retired nor dead are parent and child.  The journal plays no
part: a child that takes over without a command does so because its parent is
dead, and a parent that goes on without its child has killed it.

**Marketplace.**  `LeaseInv`, `SnapInv` and `StagedInv` relate a source to the operations its
lease, snapshot and staging rows name.  `CleanupInv` and `CleanerInv` say that a cleaner works
only on directories of operations without a lease and without a snapshot row,
although claims run out and are handed out again; `OwnerInv` who knows of a directory.

**Collection.**  `ClaimInv`: the fence names the only claimed intent.
`CollectedInv`: its variant is as unused as when it was claimed, because every
transaction that begins a use looks at the fence.

**Update store.**  What a call of the manager has left to write is always one of a few lists
(`Plans`).  `BaseHolds`, `ForwardHolds` and `BackHolds` say for each of them what the writes
so far have left: which pointers are written, which package is installed, and what the
baseline is if the rest is undone.  A crash drops the rest of a plan, hence `SomePointerNames`
and `PointersLoad` hold at every place of one: a pointer names the executable, and what
pointers name can be read.  For `NeededIsRetained`, cleanup chooses its victims once
and removes them file by file; `VictimsAreObsolete` has that they stay obsolete, as nothing
becomes needed while a cleanup holds the manager.

**Plugin lifecycle.**  `PlanInv` says that the plan (`installed.pend`) is an open operation of a
kind that stages, at the plan's revision; `StagedInv` that nothing else is staged; `CommitInv`
what holds between the read and the write of a completion, by the handler of a report or by
the recovery pass: if the plugin still names the operation, what the operation has staged
for its instance is still there.  A plan that stays is carried
by the same instances through any step (`PlanStays`).  The delicate step is a rebase: a row
moved by the revision of another mutation without a conflict belongs to the plan, so that
the plan and its operation are raised together.

For `AuthorityIsCommitted`, `RowsInv` says that every pending row of the plan names the
generation the plan builds of its instance *now*, or that its revision has no
generation of that instance (`Leaving`), so that the row is draining or failed and is never
among the winners of a success.  `StagingInv` has that a configuration is
staged by one instance.  Most steps are `Quiet`: no row gains anything in them, and the plan
stays or is over.  What is left is a mutation (`MutationGrants`), an uninstallation and
a commit (`CommitGrants`), in which the generation of the plan is exactly what becomes the
instance's own configuration and the plugin's package.

### Only model-checked

* Liveness (`CallersReturn`, `RetiredIsReleased`, `LedgerSettles`, `Converges`, `CallsReturn`,
  `AlwaysControlled`, `ShutdownStopsLineage`, `WaitersEnd`, `NodesEnd`, `DeletionCompletes`,
  `UnusedIsCollected`, `OperationsEnd`): the prover has neither fairness nor `ENABLED`.
* `EvaluationIsExact`: the cycle search and the evaluation of a plan are recursive operators
  over data, for which the prover has no induction.
* `DeliveredOnce`: what the outbox holds after a restart is a fold over the lines of its
  journal, about which every step of a proof would need that induction too.
* `OrderIsKept`: it needs an invariant over the rows a pull has read so far, each of which may
  have changed or been pruned since.
* `EndsForCause`: its first part needs that the plan of an enabled plugin has a row for every row
  in authority, its second, for every failed row, the history of the revisions that
  rebases have moved it over.  Random behaviours of up to six operations and two instances
  (TLC's simulation, four million states) did not violate it.

## 5. What is not modelled

* **Coordinator and publication:** idempotency records, events, baseline seeding, revision 0
  of a no-op mutation, `ReconcileCoordinatorJournal`, which nothing calls, and commits whose outcome
  is ambiguous.  The model takes the serial write transactions of SQLite; on another database
  the revision maximum may be stale (`storage/revision_mutation.go:141`).
* **Agent sync:** package updates, traffic overlays, plugin statuses, the last known good
  snapshot (it repeats the active one), an agent without a generation manager, and the panel's
  rollback, repair and deletion of an agent while it syncs (`RevisionCoordinator` has these
  against arbitrary calls).  The journal record of a drain whose owner is gone after a
  restart is never terminal, so that the journal grows (`core/sync_revision.go:741`).
* **Generation manager:** configurations without a drain controller or registry, which only
  tests build.  A first apply that races `Close` publishes a view that the closed controller
  refuses; `PreparedIsOwned` counts the view as its owner.
* **Update store:** the process-local stage coordinator, contents that rot, imported manifests that
  conflict, symbolic links, power loss after a failed directory sync, platforms without `/proc`.
* **Hot restart:** descriptors, framing and environments; the service manager is external; a
  child that launches its own replacement before its parent has its answer (`Settled`); the
  number of pids is bounded.
* **Outbox:** `RetirePluginRuntimeLogFence`, which nothing calls, the limit of 512 intents.
* **Dependencies:** rules with an unavailable listener or egress profile, which `BuildPlan` refuses.
* **Marketplace:** download and validation, sealing, the digest-only cache layout of older
  versions, the order in which cleanups block each other.
* **Lifecycle:** contents of configurations, secrets, grants, targetless instances, manual
  retries, sequence numbers of reports, the HTTP rules a publication writes.  The targets
  of a mutation are read before its transaction in the code and in it here.
* Everything else that is left out is listed in `PROJECT.json` with its reason: sockets and
  proxies, plugin sandboxes, certificates, table access, request validation, the panel.

## 6. Plan

1. `DependencyOperation`: `OrderIsKept`, by an invariant over the reads of a pull.
2. `PluginLifecycle`: `EndsForCause`, by an invariant over the revisions a pending row has been
   moved over.
3. Models of the shared listeners of the agent's ingress and of the ACME flow.
