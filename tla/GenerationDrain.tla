-------------------------- MODULE GenerationDrain --------------------------
(***************************************************************************)
(* The drain controller of the agent (go-agent/internal/generation): it    *)
(* owns every published generation from Activate until its resource has    *)
(* been destroyed, and the registry of the sessions each one serves.       *)
(*                                                                         *)
(* One atomic step is one critical section of the controller's mutex       *)
(* (c.mu), of the registry's mutex (r.mu) or of a session handle's mutex;  *)
(* everything between two critical sections interleaves.  The goroutines   *)
(* are: the publisher that runs Activate (GenerationManager serialises     *)
(* it), the closer that runs Close, one drain timer and one cleanup-retry  *)
(* timer per generation, the cleanup goroutines started by onSessionEmpty, *)
(* and the session owners that call Finish.                                *)
(*                                                                         *)
(* Abstractions.                                                           *)
(*  - Session records are the members of Sessions, each used once; their   *)
(*    key (generation, entity, id) may be reused by a later record.        *)
(*  - Times and backoff delays are dropped: an armed timer may fire at any *)
(*    moment.  The callback of a cleanup-retry timer runs its first        *)
(*    critical section in the step that fires it.                          *)
(*  - Generation ids are not reused by callers (they hash the revision).   *)
(*  - ForceClose, Destroy and TryCommitSelectiveForce belong to other      *)
(*    components: their results are chosen nondeterministically, and       *)
(*    MaxFailures bounds how many ForceClose and Destroy calls fail and    *)
(*    how many caller contexts are cancelled.                              *)
(*  - Goroutines waiting for one entry's lifecycle lock with one and the   *)
(*    same role are a single waiter.                                       *)
(***************************************************************************)
EXTENDS Naturals, Sequences, FiniteSets

CONSTANTS
  Generations,    \* ids of the generations that may be activated
  Revision,       \* the revision of each generation
  Entities,       \* EntityKey values
  Ids,            \* session ids
  Sessions,       \* session records
  Progressive,    \* the records whose session is progressive
  Calls,          \* what callers do besides Activate: "retire", "close"
  Revoking,       \* the generations whose Activate may delete or disable
                  \* entities
  TimerKinds,     \* what Activate arms: subset of {"timeout", "progressive"}
  MaxRetained,    \* maxRetainedTerminalGenerations
  MaxFailures,    \* bound on failing external calls and cancellations
  None            \* the empty id, and no record

ASSUME RevisionAssumption == Revision \in [Generations -> Nat]
ASSUME RetainedAssumption == MaxRetained \in Nat
ASSUME FailuresAssumption == MaxFailures \in Nat
ASSUME NoneAssumption == None \notin Generations \union Sessions
ASSUME ProgressiveAssumption == Progressive \subseteq Sessions
ASSUME TimerAssumption == TimerKinds \subseteq {"timeout", "progressive"}

VARIABLES
  active,         \* c.active
  order,          \* c.order, with the pruned ids still in it
  entries,        \* the ids in c.entries
  closed,         \* c.closed
  state,          \* per generation, the fields of its drainEntry: status.State
  final,          \* finalState
  destroy,        \* where its resource's Destroy is (destroyDone, destroyed)
  revoked,        \* the keys of revoked
  timer,          \* the drain timer
  retry,          \* the generations whose cleanupRetry timer is armed
  rec,            \* per record: sessionRecord and SessionHandle
  registered,     \* the records in SessionRegistry.generations
  loop,           \* per loop kind and generation: a running force loop
  waiting,        \* per generation: roles waiting for lifecycleMu
  life,           \* per generation: the holder of lifecycleMu and its place
  prog,           \* per generation: the progressive timer callback's place
  pub,            \* the goroutine running Activate
  closer,         \* the goroutine running Close
  failures        \* failing external calls so far

controller == <<active, order, entries, closed>>
registry == <<rec, registered>>
callers == <<pub, closer>>

entry == <<state, final, destroy, revoked, timer, retry>>

vars == <<controller, entry, registry, loop, waiting, life, prog, callers,
          failures>>

----------------------------------------------------------------------------
(* State shapes *)

DrainStates == {"absent", "applied", "draining", "drained", "forced",
                "cleanup_failed"}

\* Destroy of the generation's resource: not called, running (destroyDone is
\* open), returned and not yet collected, or collected as a success.
DestroyStates == {"idle", "running", "ok", "failed", "destroyed"}

ForceRoles == {"limit", "timeout", "shutdown"}
RetryRoles == {"retry", "emptied"}
Roles == ForceRoles \union RetryRoles \union {"natural"}

\* A force loop is run by Activate for the revoked entities, by the holder of
\* a lifecycle lock, or by the callback of a progressive timer.
LoopKinds == {"revoke", "life", "progressive"}

Record == [gen    : Generations \union {None},
           entity : Entities \union {None},
           id     : Ids \union {None},
           handle : {"unused", "active", "forcing", "finished"},
           terminal      : BOOLEAN,
           finishPending : BOOLEAN,
           unregister    : {"none", "remove", "notify"},
           closeFailed   : BOOLEAN]

Loops == LoopKinds \X Generations

Loop == [todo : SUBSET Sessions, current : Sessions \union {None},
         waits : SUBSET Sessions]

IdleLoop == [todo |-> {}, current |-> None, waits |-> {}]

\* The holder of a lifecycle lock closes sessions, waits for a Destroy it
\* started ("destroy") or for one that an earlier holder left ("resume").
Life == [role : Roles \union {"none"},
         pc : {"free", "force", "destroy", "resume"}]

FreeLife == [role |-> "none", pc |-> "free"]

Publisher == [pc : {"idle", "revoke", "notify", "limit", "forcing"},
              gen : Generations \union {None},
              attempted : SUBSET Generations,
              cancelled : BOOLEAN]

Closer == [pc : {"open", "next", "forcing", "done"}, todo : Seq(Generations),
           cancelled : BOOLEAN]

TypeOK ==
  /\ active \in Generations \union {None}
  /\ order \in Seq(Generations)
  /\ entries \subseteq Generations
  /\ closed \in BOOLEAN
  /\ state \in [Generations -> DrainStates]
  /\ final \in [Generations -> {"none", "drained", "forced"}]
  /\ destroy \in [Generations -> DestroyStates]
  /\ revoked \in [Generations -> SUBSET Entities]
  /\ timer \in [Generations -> {"none", "timeout", "progressive"}]
  /\ retry \subseteq Generations
  /\ rec \in [Sessions -> Record]
  /\ registered \in SUBSET Sessions
  /\ loop \in [Loops -> Loop]
  /\ waiting \in [Generations -> SUBSET Roles]
  /\ life \in [Generations -> Life]
  /\ prog \in [Generations -> {"idle", "loop", "notify"}]
  /\ pub \in Publisher
  /\ closer \in Closer
  /\ failures \in 0..MaxFailures

----------------------------------------------------------------------------
(* Initial state: NewDrainController, nothing activated *)

UnusedRecord == [gen |-> None, entity |-> None, id |-> None,
                 handle |-> "unused", terminal |-> FALSE,
                 finishPending |-> FALSE, unregister |-> "none",
                 closeFailed |-> FALSE]

NewRecord(g, e, i) == [UnusedRecord EXCEPT !.gen = g, !.entity = e, !.id = i,
                                           !.handle = "active"]

IdlePublisher == [pc |-> "idle", gen |-> None, attempted |-> {},
                  cancelled |-> FALSE]

NewDrainController ==
  /\ active = None
  /\ order = <<>>
  /\ entries = {}
  /\ closed = FALSE
  /\ state = [g \in Generations |-> "absent"]
  /\ final = [g \in Generations |-> "none"]
  /\ destroy = [g \in Generations |-> "idle"]
  /\ revoked = [g \in Generations |-> {}]
  /\ timer = [g \in Generations |-> "none"]
  /\ retry = {}
  /\ rec = [s \in Sessions |-> UnusedRecord]
  /\ registered = {}
  /\ loop = [l \in Loops |-> IdleLoop]
  /\ waiting = [g \in Generations |-> {}]
  /\ life = [g \in Generations |-> FreeLife]
  /\ prog = [g \in Generations |-> "idle"]
  /\ pub = IdlePublisher
  /\ closer = [pc |-> "open", todo |-> <<>>, cancelled |-> FALSE]
  /\ failures = 0

\* entry.released, which completeCleanup sets together with destroyed.
Released(g) == destroy[g] = "destroyed"

----------------------------------------------------------------------------
(* Session registry *)

\* GenerationCount(g) is the cardinality of this set.
SessionsOf(g) == {s \in registered : rec[s].gen = g}

\* Mutant of Accepting: a drained generation still lets sessions in.
AcceptingDrained == {"applied", "draining", "drained"}

\* The states in which RegisterSession lets a session in.
Accepting == {"applied", "draining"}

\* Mutant of Admits: the revoked entities are not consulted.
AdmitsRevoked(g, e) == TRUE

\* entry.revoked has no reason for the entity.
Admits(g, e) == e \notin revoked[g]

\* DrainController.RegisterSession and SessionRegistry.Register, both under
\* c.mu.  A refused registration changes nothing.
RegisterSession(s, g, e, i) ==
  /\ rec[s].handle = "unused"
  /\ ~closed
  /\ state[g] \in Accepting
  /\ Admits(g, e)
  /\ \A t \in SessionsOf(g) : ~(rec[t].entity = e /\ rec[t].id = i)
  /\ rec' = [rec EXCEPT ![s] = NewRecord(g, e, i)]
  /\ registered' = registered \union {s}
  /\ UNCHANGED <<controller, entry, loop, waiting, life, prog, callers,
                 failures>>

\* The transitions of a SessionHandle: finished (what is left is to take the
\* record out of the registry), finished while a force is under way, claimed by
\* a force, made terminal by a second one, and active again after a force that
\* failed.  The last step of Unregister is the registry's callback.
Finished(r) == [r EXCEPT !.handle = "finished", !.unregister = "remove",
                         !.terminal = FALSE]
FinishLater(r) == [r EXCEPT !.finishPending = TRUE]

Claimed(r, terminal) == [r EXCEPT !.handle = "forcing", !.terminal = terminal]

MadeTerminal(r) == [r EXCEPT !.terminal = TRUE]
Reopened(r) == [r EXCEPT !.handle = "active", !.terminal = FALSE,
                         !.closeFailed = TRUE]
Unregister(r, step) == [r EXCEPT !.unregister = step]

\* SessionHandle.Finish: under the handle's lock the owner either takes the
\* removal upon itself or leaves it to the force in progress.
FinishNaturally(s) ==
  /\ \/ /\ rec[s].handle = "active"
        /\ rec' = [rec EXCEPT ![s] = Finished(@)]
     \/ /\ rec[s].handle = "forcing"
        /\ ~rec[s].finishPending
        /\ rec' = [rec EXCEPT ![s] = FinishLater(@)]
  /\ UNCHANGED <<controller, entry, registered, loop, waiting, life, prog,
                 callers, failures>>

\* Mutant of Without: whatever is registered under the record's key goes.
WithoutKey(s) == {t \in registered : ~(/\ rec[t].gen = rec[s].gen
                                       /\ rec[t].entity = rec[s].entity
                                       /\ rec[t].id = rec[s].id)}

\* What SessionRegistry.finish leaves: it deletes the record itself, compared
\* by identity, and never another record under the same key.
Without(s) == registered \ {s}

\* The record after SessionRegistry.finish removed it: the goroutine that
\* emptied the generation still has to run the onEmpty callback.
AfterRemoval(s) ==
  IF s \in registered /\ SessionsOf(rec[s].gen) = {s}
    THEN [rec EXCEPT ![s] = Unregister(@, "notify")]
    ELSE [rec EXCEPT ![s] = Unregister(@, "none")]

\* SessionRegistry.finish, by the goroutine that finished the handle.
RegistryFinish(s) ==
  /\ rec[s].unregister = "remove"
  /\ registered' = Without(s)
  /\ rec' = AfterRemoval(s)
  /\ UNCHANGED <<controller, entry, loop, waiting, life, prog, callers,
                 failures>>

\* Mutant of DrainsNaturally: a failed cleanup is taken for a drain.
DrainsAfterFailure(g) == state[g] \in {"draining", "cleanup_failed"}

\* An empty generation in this state is drained.
DrainsNaturally(g) == state[g] = "draining"

\* DrainController.onSessionEmpty: one critical section of c.mu, after which
\* the cleanup runs on a goroutine of its own.
OnSessionEmpty(g) ==
  \/ /\ SessionsOf(g) = {}
     /\ state[g] = "cleanup_failed"
     /\ ~DrainsNaturally(g)
     /\ waiting' = [waiting EXCEPT ![g] = @ \union {"emptied"}]
     /\ UNCHANGED entry
  \/ /\ SessionsOf(g) = {}
     /\ DrainsNaturally(g)
     /\ state' = [state EXCEPT ![g] = "drained"]
     /\ final' = [final EXCEPT ![g] = "drained"]
     /\ timer' = [timer EXCEPT ![g] = "none"]
     /\ waiting' = [waiting EXCEPT ![g] = @ \union {"natural"}]
     /\ UNCHANGED <<destroy, revoked, retry>>
  \/ /\ \/ SessionsOf(g) # {}
        \/ state[g] # "cleanup_failed" /\ ~DrainsNaturally(g)
     /\ UNCHANGED <<entry, waiting>>

\* The onEmpty callback of the goroutine that removed the last record.
NotifyEmpty(s) ==
  /\ rec[s].unregister = "notify"
  /\ rec' = [rec EXCEPT ![s] = Unregister(@, "none")]
  /\ OnSessionEmpty(rec[s].gen)
  /\ UNCHANGED <<controller, registered, loop, life, prog, callers, failures>>

----------------------------------------------------------------------------
(* Force loops: SessionRegistry.force and ForceGenerationExceptProgressive  *)

Terminal(k) == k # "revoke"

StartedLoop(todo) == [IdleLoop EXCEPT !.todo = todo]

\* A loop closes a record, has to wait for somebody else's force of it at the
\* end, moves past it, and is done with the one it was closing.
Closing(l, s) == [l EXCEPT !.todo = @ \ {s}, !.current = s]
Awaiting(l, s) == [l EXCEPT !.todo = @ \ {s}, !.waits = @ \union {s}]
Skipping(l, s) == [l EXCEPT !.todo = @ \ {s}]
Closed(l) == [l EXCEPT !.current = None]

\* TryCommitSelectiveForce returned false: the session keeps running.
SkipProgressive(g, s) ==
  /\ loop[<<"progressive", g>>].current = None
  /\ s \in loop[<<"progressive", g>>].todo \intersect Progressive
  /\ loop' = [loop EXCEPT ![<<"progressive", g>>] = Skipping(@, s)]
  /\ UNCHANGED <<controller, entry, registry, waiting, life, prog, callers,
                 failures>>

\* claimForce for the next record of the snapshot.
ClaimForce(k, g, s) ==
  /\ loop[<<k, g>>].current = None
  /\ s \in loop[<<k, g>>].todo
  /\ \/ /\ rec[s].handle = "active"
        /\ rec' = [rec EXCEPT ![s] = Claimed(@, Terminal(k))]
        /\ loop' = [loop EXCEPT ![<<k, g>>] = Closing(@, s)]
        /\ UNCHANGED registered
     \/ /\ rec[s].handle = "forcing"
        /\ Terminal(k)
        /\ rec' = [rec EXCEPT ![s] = MadeTerminal(@)]
        /\ loop' = [loop EXCEPT ![<<k, g>>] = Awaiting(@, s)]
        /\ UNCHANGED registered
     \/ \* finished by its owner, which may not have removed it yet
        /\ rec[s].handle = "finished"
        /\ Terminal(k)
        /\ registered' = Without(s)
        /\ IF rec[s].unregister = "remove"
             THEN /\ rec' = AfterRemoval(s)
                  /\ loop' = [loop EXCEPT ![<<k, g>>] = Awaiting(@, s)]
             ELSE /\ loop' = [loop EXCEPT ![<<k, g>>] = Skipping(@, s)]
                  /\ UNCHANGED rec
     \/ /\ rec[s].handle \in {"forcing", "finished"}
        /\ ~Terminal(k)
        /\ loop' = [loop EXCEPT ![<<k, g>>] = Skipping(@, s)]
        /\ UNCHANGED registry
  /\ UNCHANGED <<controller, entry, waiting, life, prog, callers, failures>>

\* ForceClose returned and completeForce ran.  The loop goes on once the
\* removal, if there is one, is done (LoopNext).
CompleteForce(k, g, success) ==
  LET s == loop[<<k, g>>].current IN
  /\ s # None
  /\ rec[s].handle = "forcing"
  /\ success \/ failures < MaxFailures
  /\ failures' = IF success THEN failures ELSE failures + 1
  /\ IF success \/ rec[s].terminal \/ rec[s].finishPending
       THEN /\ rec' = [rec EXCEPT ![s] = Finished(@)]
            /\ UNCHANGED loop
       ELSE /\ rec' = [rec EXCEPT ![s] = Reopened(@)]
            /\ loop' = [loop EXCEPT ![<<k, g>>] = Closed(@)]
  /\ UNCHANGED <<controller, entry, registered, waiting, life, prog, callers>>

\* The removal of the record is complete and its forceDone channel closed.
ForceDone(s) == rec[s].handle = "finished" /\ rec[s].unregister = "none"

LoopNext(k, g) ==
  LET s == loop[<<k, g>>].current IN
  /\ s # None
  /\ ForceDone(s)
  /\ loop' = [loop EXCEPT ![<<k, g>>] = Closed(@)]
  /\ UNCHANGED <<controller, entry, registry, waiting, life, prog, callers,
                 failures>>

LoopFinished(k, g) ==
  /\ loop[<<k, g>>].todo = {}
  /\ loop[<<k, g>>].current = None
  /\ \A s \in loop[<<k, g>>].waits : ForceDone(s)

----------------------------------------------------------------------------
(* Activate, RetireActive and the drain timers *)

\* The critical section of activate; gone are the entities its changes delete
\* or disable, and the timer's kind is the sign of its timeout.  A closed
\* controller, a known id and a revision that does not increase are refused
\* without a change.
Activate(g, kind, gone) ==
  /\ pub.pc = "idle"
  /\ ~closed
  /\ state[g] = "absent"
  /\ active # None => Revision[g] > Revision[active]
  /\ gone # {} => g \in Revoking
  /\ active' = g
  /\ order' = Append(order, g)
  /\ entries' = entries \union {g}
  /\ IF active = None
       THEN /\ state' = [state EXCEPT ![g] = "applied"]
            /\ pub' = [IdlePublisher EXCEPT !.pc = "limit"]
            /\ UNCHANGED <<revoked, timer, loop>>
       ELSE /\ state' = [state EXCEPT ![g] = "applied", ![active] = "draining"]
            /\ revoked' = [revoked EXCEPT ![active] = gone]
            /\ timer' = [timer EXCEPT ![active] = kind]
            /\ pub' = [IdlePublisher EXCEPT !.pc = "revoke", !.gen = active]
            /\ loop' = [loop EXCEPT ![<<"revoke", active>>] =
                          StartedLoop({s \in SessionsOf(active) :
                                         rec[s].entity \in gone})]
  /\ UNCHANGED <<closed, final, destroy, retry, registry, waiting, life, prog,
                 closer, failures>>

\* ForceEntities returned: the sessions of the revoked entities are closed.
EntitiesForced ==
  /\ pub.pc = "revoke"
  /\ LoopFinished("revoke", pub.gen)
  /\ loop' = [loop EXCEPT ![<<"revoke", pub.gen>>] = IdleLoop]
  /\ pub' = [pub EXCEPT !.pc = "notify"]
  /\ UNCHANGED <<controller, entry, registry, waiting, life, prog, closer,
                 failures>>

\* activate's own call of onSessionEmpty for the previous generation.
ActivateNotify ==
  /\ pub.pc = "notify"
  /\ OnSessionEmpty(pub.gen)
  /\ pub' = [pub EXCEPT !.pc = "limit", !.gen = None]
  /\ UNCHANGED <<controller, registry, loop, life, prog, closer, failures>>

Live == {g \in entries : ~Released(g)}

\* The generations enforceLimit may still force.
Candidates == {n \in 1..Len(order) :
                 /\ order[n] \in Live
                 /\ order[n] # active
                 /\ order[n] \notin pub.attempted}

\* Mutant of LiveLimit: off by one.
LiveLimitPlusOne == 3

\* The number of live generations enforceLimit is content with.
LiveLimit == 2

\* One turn of enforceLimit: return, or force the oldest candidate.  A
\* cancelled context makes that force return at once (lockLifecycle).
EnforceLimit ==
  /\ pub.pc = "limit"
  /\ \/ /\ Cardinality(Live) <= LiveLimit \/ Candidates = {}
        /\ pub' = [IdlePublisher EXCEPT !.cancelled = pub.cancelled]
        /\ UNCHANGED waiting
     \/ /\ Cardinality(Live) > LiveLimit
        /\ \E n \in Candidates :
             /\ \A m \in Candidates : n <= m
             /\ IF pub.cancelled
                  THEN /\ pub' = [pub EXCEPT !.attempted = @ \union {order[n]}]
                       /\ UNCHANGED waiting
                  ELSE /\ pub' = [pub EXCEPT !.pc = "forcing", !.gen = order[n],
                                            !.attempted = @ \union {order[n]}]
                       /\ waiting' = [waiting EXCEPT ![order[n]] =
                                        @ \union {"limit"}]
  /\ UNCHANGED <<controller, entry, registry, loop, life, prog, closer,
                 failures>>

\* The context of the running Activate is done.
CancelActivate ==
  /\ pub.pc # "idle"
  /\ ~pub.cancelled
  /\ failures < MaxFailures
  /\ failures' = failures + 1
  /\ pub' = [pub EXCEPT !.cancelled = TRUE]
  /\ UNCHANGED <<controller, entry, registry, loop, waiting, life, prog,
                 closer>>

\* retireActive: the hot-restart parent hands its active generation to the
\* drain; its call of onSessionEmpty follows as the step NotifyRetired.
RetireActive(g) ==
  /\ "retire" \in Calls
  /\ ~closed
  /\ active = g
  /\ state[g] = "applied"
  /\ state' = [state EXCEPT ![g] = "draining"]
  /\ timer' = [timer EXCEPT ![g] = "timeout"]
  /\ active' = None
  /\ prog' = [prog EXCEPT ![g] = "notify"]
  /\ UNCHANGED <<order, entries, closed, final, destroy, revoked, retry,
                 registry, loop, waiting, life, callers, failures>>

\* The drain timer fires: it starts force(timeout), or the critical section of
\* forceNonProviderSessions.
DrainTimerFires(g) ==
  /\ timer[g] # "none"
  /\ timer' = [timer EXCEPT ![g] = "none"]
  /\ IF timer[g] = "timeout"
       THEN /\ waiting' = [waiting EXCEPT ![g] = @ \union {"timeout"}]
            /\ UNCHANGED <<prog, loop>>
       ELSE /\ IF state[g] = "draining" /\ ~Released(g)
                 THEN /\ prog' = [prog EXCEPT ![g] = "loop"]
                      /\ loop' = [loop EXCEPT ![<<"progressive", g>>] =
                                    StartedLoop(SessionsOf(g))]
                 ELSE UNCHANGED <<prog, loop>>
            /\ UNCHANGED waiting
  /\ UNCHANGED <<controller, state, final, destroy, revoked, retry, registry,
                 life, callers, failures>>

\* ForceGenerationExceptProgressive returned.
ProgressiveForced(g) ==
  /\ prog[g] = "loop"
  /\ LoopFinished("progressive", g)
  /\ loop' = [loop EXCEPT ![<<"progressive", g>>] = IdleLoop]
  /\ prog' = [prog EXCEPT ![g] = "notify"]
  /\ UNCHANGED <<controller, entry, registry, waiting, life, callers,
                 failures>>

\* The closing onSessionEmpty of forceNonProviderSessions and of retireActive.
NotifyRetired(g) ==
  /\ prog[g] = "notify"
  /\ prog' = [prog EXCEPT ![g] = "idle"]
  /\ OnSessionEmpty(g)
  /\ UNCHANGED <<controller, registry, loop, life, callers, failures>>

----------------------------------------------------------------------------
(* The lifecycle lock: force, natural cleanup and retry, one at a time.    *)
(* Taking the lock and the critical section behind it are one step.        *)

Cancelled(role) == \/ role = "limit" /\ pub.cancelled
                   \/ role = "shutdown" /\ closer.cancelled

\* Mutant of Return: a Close whose context is done waits for ever.
ReturnUncancelled(role) ==
  /\ pub' = IF role = "limit" THEN [pub EXCEPT !.pc = "limit", !.gen = None]
                              ELSE pub
  /\ closer' = IF role = "shutdown" /\ ~closer.cancelled
                 THEN [closer EXCEPT !.pc = "next"] ELSE closer

\* The caller of force gets its result: enforceLimit takes its next turn,
\* Close its next id.
Return(role) ==
  /\ pub' = IF role = "limit" THEN [pub EXCEPT !.pc = "limit", !.gen = None]
                              ELSE pub
  /\ closer' = IF role = "shutdown" THEN [closer EXCEPT !.pc = "next"]
                                    ELSE closer

TakeLock(g, role) ==
  /\ life[g].pc = "free"
  /\ role \in waiting[g]
  /\ waiting' = [waiting EXCEPT ![g] = @ \ {role}]

BeginCleanup(g, role) ==
  life' = [life EXCEPT ![g] = [role |-> role,
                               pc |-> IF destroy[g] = "idle" THEN "destroy"
                                                             ELSE "resume"]]

ReleaseLock(g) == life' = [life EXCEPT ![g] = FreeLife]

\* lockLifecycle gave up because the caller's context is done.
AbandonLock(g, role) ==
  /\ role \in waiting[g]
  /\ Cancelled(role)
  /\ waiting' = [waiting EXCEPT ![g] = @ \ {role}]
  /\ Return(role)
  /\ UNCHANGED <<controller, entry, registry, loop, life, prog, failures>>

\* The states in which forceGeneration goes straight to completeCleanup.
CleanupOnly(g) == /\ state[g] \in {"cleanup_failed", "drained"}
                  /\ SessionsOf(g) = {}

\* The states in which forceGeneration starts closing the sessions.
Forceable(g, role) == role = "shutdown"
                      \/ state[g] \in {"draining", "cleanup_failed"}

\* forceGeneration up to its call of registry.ForceGeneration.
ForceGeneration(g, role) ==
  /\ role \in ForceRoles
  /\ TakeLock(g, role)
  /\ \/ \* nothing left to do, or not in a state to be forced
        /\ Released(g) \/ (~CleanupOnly(g) /\ ~Forceable(g, role))
        /\ Return(role)
        /\ UNCHANGED <<entry, loop, life>>
     \/ /\ ~Released(g)
        /\ CleanupOnly(g)
        /\ BeginCleanup(g, role)
        /\ UNCHANGED <<entry, loop, callers>>
     \/ /\ ~Released(g)
        /\ ~CleanupOnly(g)
        /\ Forceable(g, role)
        /\ state' = [state EXCEPT ![g] = "forced"]
        /\ final' = [final EXCEPT ![g] = "forced"]
        /\ timer' = [timer EXCEPT ![g] = "none"]
        /\ loop' = [loop EXCEPT ![<<"life", g>>] = StartedLoop(SessionsOf(g))]
        /\ life' = [life EXCEPT ![g] = [role |-> role, pc |-> "force"]]
        /\ UNCHANGED <<destroy, revoked, retry, callers>>
  /\ UNCHANGED <<controller, registry, prog, failures>>

\* Mutant of Remaining: counted before c.mu is taken, when the owners the loop
\* was waiting for had not finished.
StaleRemaining(g) == SessionsOf(g) \union loop[<<"life", g>>].waits

\* The owners forceGeneration finds left, read while it holds c.mu.
Remaining(g) == SessionsOf(g)

\* forceGeneration after registry.ForceGeneration: the remaining owners are
\* counted under c.mu.  Waiting for another force ends early when the
\* caller's context is done.
CountRemaining(g) ==
  /\ life[g].pc = "force"
  /\ \/ LoopFinished("life", g)
     \/ /\ loop[<<"life", g>>].todo = {}
        /\ loop[<<"life", g>>].current = None
        /\ Cancelled(life[g].role)
  /\ loop' = [loop EXCEPT ![<<"life", g>>] = IdleLoop]
  /\ IF Remaining(g) # {}
       THEN /\ state' = [state EXCEPT ![g] = "cleanup_failed"]
            /\ ReleaseLock(g)
            /\ Return(life[g].role)
       ELSE /\ BeginCleanup(g, life[g].role)
            /\ UNCHANGED <<state, callers>>
  /\ UNCHANGED <<controller, final, destroy, revoked, timer, retry, registry,
                 waiting, prog, failures>>

\* completeNaturalCleanup.
NaturalCleanup(g) ==
  /\ TakeLock(g, "natural")
  /\ IF Released(g) \/ state[g] # "drained"
       THEN UNCHANGED life
       ELSE BeginCleanup(g, "natural")
  /\ UNCHANGED <<controller, entry, registry, loop, prog, callers, failures>>

\* RetryCleanup, called by the retry timer or by onSessionEmpty.
RetryCleanup(g, role) ==
  /\ role \in RetryRoles
  /\ TakeLock(g, role)
  /\ IF state[g] # "cleanup_failed" \/ SessionsOf(g) # {}
       THEN UNCHANGED <<retry, life>>
       ELSE /\ retry' = retry \ {g}
            /\ BeginCleanup(g, role)
  /\ UNCHANGED <<controller, state, final, destroy, revoked, timer, registry,
                 loop, prog, callers, failures>>

\* The callback that scheduleCleanupRetryLocked armed.
RetryTimerFires(g) ==
  /\ g \in retry
  /\ retry' = retry \ {g}
  /\ waiting' = [waiting EXCEPT ![g] = @ \union {"retry"}]
  /\ UNCHANGED <<controller, state, final, destroy, revoked, timer, registry,
                 loop, life, prog, callers, failures>>

----------------------------------------------------------------------------
(* completeCleanup and destroyGenerationResource *)

\* Destroy is started on a goroutine of its own.
StartDestroy(g) ==
  /\ life[g].pc = "destroy"
  /\ destroy[g] = "idle"
  /\ destroy' = [destroy EXCEPT ![g] = "running"]
  /\ UNCHANGED <<controller, state, final, revoked, timer, retry, registry,
                 loop, waiting, life, prog, callers, failures>>

\* Resource.Destroy returns, whether or not somebody still waits for it.
DestroyReturns(g, success) ==
  /\ destroy[g] = "running"
  /\ success \/ failures < MaxFailures
  /\ failures' = IF success THEN failures ELSE failures + 1
  /\ destroy' = [destroy EXCEPT ![g] = IF success THEN "ok" ELSE "failed"]
  /\ UNCHANGED <<controller, state, final, revoked, timer, retry, registry,
                 loop, waiting, life, prog, callers>>

\* A resumed Destroy failed: it is called once more.
DestroyAgain(g) ==
  /\ life[g].pc = "resume"
  /\ destroy[g] = "failed"
  /\ destroy' = [destroy EXCEPT ![g] = "running"]
  /\ life' = [life EXCEPT ![g] = [@ EXCEPT !.pc = "destroy"]]
  /\ UNCHANGED <<controller, state, final, revoked, timer, retry, registry,
                 loop, waiting, prog, callers, failures>>

\* Mutant of RetryScheduled: a failed cleanup is not tried again.
NoRetryScheduled(g) == retry

\* scheduleCleanupRetryLocked: the retry timers armed after this failure.
RetryScheduled(g) == IF closed THEN retry ELSE retry \union {g}

\* completeCleanup's error branch: Destroy failed (a resumed one counts when
\* the timeout leaves no second call), its context was done before the call, or
\* it is still running when the cleanup timeout expires.
CleanupFails(g) ==
  /\ life[g].pc \in {"destroy", "resume"}
  /\ \/ destroy[g] \in {"failed", "running"}
     \/ destroy[g] = "idle" /\ Cancelled(life[g].role)
  /\ state' = [state EXCEPT ![g] = "cleanup_failed"]
  /\ retry' = RetryScheduled(g)
  /\ destroy' = [destroy EXCEPT ![g] = IF @ = "failed" THEN "idle" ELSE @]
  /\ ReleaseLock(g)
  /\ Return(life[g].role)
  /\ UNCHANGED <<controller, final, revoked, timer, registry, loop, waiting,
                 prog, failures>>

\* The entries after pruneReleasedLocked, once g is released too: of the
\* released ones only the newest MaxRetained stay.
Retained(g) ==
  LET released == {n \in 1..Len(order) :
                     /\ order[n] \in entries
                     /\ order[n] # active
                     /\ Released(order[n]) \/ order[n] = g}
  IN entries \ {order[n] : n \in {m \in released :
                    Cardinality({l \in released : l > m}) >= MaxRetained}}

\* completeCleanup's success branch.
CleanupDone(g) ==
  /\ life[g].pc \in {"destroy", "resume"}
  /\ destroy[g] = "ok"
  /\ state' = [state EXCEPT ![g] = final[g]]
  /\ destroy' = [destroy EXCEPT ![g] = "destroyed"]
  /\ revoked' = [revoked EXCEPT ![g] = {}]
  /\ timer' = [timer EXCEPT ![g] = "none"]
  /\ retry' = retry \ {g}
  /\ entries' = Retained(g)
  /\ ReleaseLock(g)
  /\ Return(life[g].role)
  /\ UNCHANGED <<active, order, closed, final, registry, loop, waiting, prog,
                 failures>>

----------------------------------------------------------------------------
(* Close *)

\* Close's critical section.
Close ==
  /\ "close" \in Calls
  /\ closer.pc = "open"
  /\ closed' = TRUE
  /\ active' = None
  /\ timer' = [g \in Generations |-> IF g \in Live THEN "none" ELSE timer[g]]
  /\ retry' = retry \ Live
  /\ closer' = [closer EXCEPT !.pc = "next", !.todo = order]
  /\ UNCHANGED <<order, entries, state, final, destroy, revoked, registry, loop,
                 waiting, life, prog, pub, failures>>

\* Close forces the next id with reason shutdown, and returns after the last.
CloseNext ==
  /\ closer.pc = "next"
  /\ \/ /\ closer.todo = <<>>
        /\ closer' = [closer EXCEPT !.pc = "done"]
        /\ UNCHANGED waiting
     \/ /\ closer.todo # <<>>
        /\ closer.cancelled
        /\ closer' = [closer EXCEPT !.todo = Tail(@)]
        /\ UNCHANGED waiting
     \/ /\ closer.todo # <<>>
        /\ ~closer.cancelled
        /\ closer' = [closer EXCEPT !.pc = "forcing", !.todo = Tail(@)]
        /\ waiting' = [waiting EXCEPT ![Head(closer.todo)] = @ \union {"shutdown"}]
  /\ UNCHANGED <<controller, entry, registry, loop, life, prog, pub, failures>>

CancelClose ==
  /\ closer.pc \in {"next", "forcing"}
  /\ ~closer.cancelled
  /\ failures < MaxFailures
  /\ failures' = failures + 1
  /\ closer' = [closer EXCEPT !.cancelled = TRUE]
  /\ UNCHANGED <<controller, entry, registry, loop, waiting, life, prog, pub>>

----------------------------------------------------------------------------
(* Specification *)

ForceStep(k, g) ==
  \/ \E s \in Sessions : ClaimForce(k, g, s)
  \/ \E success \in BOOLEAN : CompleteForce(k, g, success)
  \/ LoopNext(k, g)

HandleStep(s) == RegistryFinish(s) \/ NotifyEmpty(s)

PublisherStep == EntitiesForced \/ ActivateNotify \/ EnforceLimit

TimerStep(g) == \/ DrainTimerFires(g)
                \/ RetryTimerFires(g)
                \/ ProgressiveForced(g)
                \/ NotifyRetired(g)

LockStep(g) == \/ \E role \in Roles : \/ ForceGeneration(g, role)
                                      \/ RetryCleanup(g, role)
                                      \/ AbandonLock(g, role)
               \/ NaturalCleanup(g)

CleanupStep(g) == \/ CountRemaining(g)
                  \/ StartDestroy(g)
                  \/ DestroyAgain(g)
                  \/ CleanupFails(g)
                  \/ CleanupDone(g)

Next ==
  \/ \E s \in Sessions, g \in Generations, e \in Entities, i \in Ids :
        RegisterSession(s, g, e, i)
  \/ \E s \in Sessions : FinishNaturally(s) \/ HandleStep(s)
  \/ \E k \in LoopKinds, g \in Generations : ForceStep(k, g)
  \/ \E g \in Generations, s \in Sessions : SkipProgressive(g, s)
  \/ \E g \in Generations, kind \in TimerKinds, r \in SUBSET Entities :
        Activate(g, kind, r)
  \/ PublisherStep
  \/ CancelActivate
  \/ \E g \in Generations : RetireActive(g)
  \/ \E g \in Generations : TimerStep(g) \/ LockStep(g) \/ CleanupStep(g)
  \/ \E g \in Generations, success \in BOOLEAN : DestroyReturns(g, success)
  \/ Close \/ CloseNext \/ CancelClose

Spec == NewDrainController /\ [][Next]_vars

\* Fairness.  Every goroutine that is ready to run eventually runs, a timer
\* that is armed eventually fires, and ForceClose and Destroy return.  Session
\* owners, Activate, RetireActive and Close need not come, and no context need
\* be cancelled.
Fairness ==
  /\ \A s \in Sessions : WF_vars(HandleStep(s))
  /\ \A k \in LoopKinds, g \in Generations : WF_vars(ForceStep(k, g))
  /\ WF_vars(PublisherStep)
  /\ WF_vars(CloseNext)
  /\ \A g \in Generations :
       /\ WF_vars(DrainTimerFires(g))
       /\ WF_vars(RetryTimerFires(g))
       /\ WF_vars(ProgressiveForced(g))
       /\ WF_vars(NotifyRetired(g))
       /\ WF_vars(\E success \in BOOLEAN : DestroyReturns(g, success))
       /\ WF_vars(NaturalCleanup(g))
       /\ \A role \in Roles :
            WF_vars(ForceGeneration(g, role) \/ RetryCleanup(g, role))
       /\ WF_vars(CleanupStep(g))

FairSpec == Spec /\ Fairness

----------------------------------------------------------------------------
(* Safety *)

\* While Destroy of a generation's resource runs, and after it succeeded, no
\* session is registered on that generation: the last count under c.mu and the
\* state that refuses registrations leave no gap for a late session
\* (RegisterSession against onSessionEmpty and forceGeneration).
NoSessionOnDestroyedResource ==
  \A g \in Generations : destroy[g] # "idle" => SessionsOf(g) = {}

\* A session whose owner still uses it is in the registry, so that a force
\* finds it: a late removal of an older record under the same key (generation,
\* entity, id) never takes the newer one away (SessionRegistry.finish).
LiveHandleIsRegistered ==
  \A s \in Sessions :
    rec[s].handle \in {"active", "forcing"} => s \in registered

\* Once Activate has closed the sessions of deleted and disabled entities, the
\* only sessions of those entities left on the previous generation are the
\* ones whose ForceClose failed, or whose removal is under way.
RevokedEntitiesAreClosed ==
  \A s \in registered :
    LET g == rec[s].gen IN
    /\ rec[s].handle = "active"
    /\ rec[s].entity \in revoked[g]
    /\ ~(pub.pc = "revoke" /\ pub.gen = g)
    => rec[s].closeFailed

\* When Activate has returned with its context intact and left more than two
\* generations alive, the retired ones are not serving any more: each is stuck
\* in a cleanup that failed or is being repeated (enforceLimit).
LimitStopsDraining ==
  /\ pub.pc = "idle" /\ ~pub.cancelled /\ ~closed
  /\ Cardinality(Live) > 2
  => \A g \in Live \ {active} : state[g] # "draining"

\* A retired generation that is not released is still among the entries, where
\* enforceLimit and Close find it, and has a way to end: it is draining with a
\* timer that will fire, a session whose end calls back or a callback under
\* way, or it is in the hands of a goroutine, or a cleanup retry is due
\* (pruneReleasedLocked, scheduleCleanupRetryLocked).
RetiredHasOwner ==
  \A g \in Generations :
    state[g] \notin {"absent", "applied"} /\ ~Released(g)
    => /\ g \in entries
       /\ \/ closed
          \/ timer[g] # "none"
          \/ g \in retry
          \/ waiting[g] # {}
          \/ life[g].pc # "free"
          \/ prog[g] # "idle"
          \/ pub.pc \in {"revoke", "notify"} /\ pub.gen = g
          \/ SessionsOf(g) # {}
          \/ \E s \in Sessions : rec[s].gen = g /\ rec[s].unregister = "notify"

----------------------------------------------------------------------------
(* Action and liveness properties *)

\* A generation reported as forced is never reported as drained later, and one
\* that reached its final state keeps it (status.State as the drain reports
\* read it).
OutcomeSticks ==
  [][\A g \in Generations :
       /\ final[g] = "forced" => final'[g] = "forced"
       /\ Released(g) => state'[g] = state[g]]_vars

\* What a progressive drain timer leaves behind: nothing is armed or under way
\* for the generation, and the sessions still on it are their owners' affair.
Spared(g) ==
  /\ state[g] = "draining" /\ timer[g] = "none" /\ waiting[g] = {}
  /\ SessionsOf(g) # {}
  /\ \A s \in SessionsOf(g) : rec[s].handle = "active"

\* Every retired generation is eventually released, or the controller is
\* closed: no order of timer, Finish, revocation, failing ForceClose, failing
\* or overdue Destroy loses the last cleanup.  The one exception is the code's
\* own: forceNonProviderSessions has run for the generation, and sessions that
\* it spared, or that came after it, are never finished.
RetiredIsReleased ==
  \A g \in Generations :
    \/ []<>(state[g] \in {"absent", "applied"} \/ Released(g) \/ closed)
    \/ <>(prog[g] = "loop") /\ <>[]Spared(g)

\* Activate and Close return: waiting for a lifecycle lock or for somebody
\* else's force never becomes a circle.
CallersReturn ==
  /\ []<>(pub.pc = "idle")
  /\ []<>(closer.pc \in {"open", "done"})
----------------------------------------------------------------------------
(* Refinement *)

\* What the rest of the agent sees of a generation's entry.
OwnerPhase(g) ==
  CASE state[g] = "absent" -> "absent"
    [] state[g] = "applied" -> "serving"
    [] state[g] = "draining" -> "retiring"
    [] destroy[g] = "destroyed" -> "gone"
    [] destroy[g] \in {"running", "ok", "failed"} -> "destroying"
    [] OTHER -> "ending"

\* A session is on its generation while its record is registered.
OwnerSession(s) ==
  [life |-> CASE s \in registered -> "on"
              [] rec[s].handle = "unused" -> "unused"
              [] OTHER -> "over",
   gen |-> rec[s].gen]

Owner == INSTANCE DrainOwner WITH
           phase <- [g \in Generations |-> OwnerPhase(g)],
           session <- [s \in Sessions |-> OwnerSession(s)]

\* The locks, timers, force loops and retries of the controller implement its
\* promise: a resource is destroyed only while its generation neither serves
\* nor holds a session, a generation never serves again once retired, and
\* sessions register only on generations that serve or drain (activate,
\* onSessionEmpty, forceGeneration, completeCleanup, Close).
ImplementsDrainOwner == Owner!OwnerSpec
============================================================================
