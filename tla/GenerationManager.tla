------------------------- MODULE GenerationManager -------------------------
(***************************************************************************)
(* The generation manager of the agent (go-agent/internal/core) and the    *)
(* module registry (go-agent/internal/module) it drives: prepare a         *)
(* candidate generation module by module, publish its view, hand it to the *)
(* drain controller, and answer the sessions that arrive meanwhile.  The   *)
(* drain controller is what DrainOwner says of it.                         *)
(*                                                                         *)
(* Goroutines: the applier (GenerationManager.apply, called by the sync),  *)
(* the user of the published view (WithActiveGeneration, called by a TLS   *)
(* handshake of the certificate module), the closer, one per session, and  *)
(* one per running GenerationView.Destroy.                                 *)
(*                                                                         *)
(* Abstractions.  Modules are the numbers 1..ModuleCount in the order of   *)
(* OrderedModules.  Ready and PreparePublication visit the modules in one  *)
(* step that may fail.  Any call into a module may fail; MaxFailures       *)
(* bounds the failing calls of Destroy.  Configurations without a drain    *)
(* controller or registry (only tests build them) are left out.            *)
(***************************************************************************)
EXTENDS DrainOwner, FiniteSets

CONSTANTS
  ModuleCount,    \* number of registered modules
  Callers,        \* subset of {"close", "retire", "use"}: who else calls
  MaxFailures     \* bound on failing Destroy calls of module transactions

ASSUME ModulesAssumption == ModuleCount \in Nat \ {0}
ASSUME DestroyFailuresAssumption == MaxFailures \in Nat

VARIABLES
  view,           \* Registry.active
  mu,             \* holder of GenerationManager.mu
  generationMu,   \* holder of Registry.generationMu
  publication,    \* publicationID while publicationDone is open
  applier,        \* the goroutine in apply
  candidate,      \* per module: its transaction in the candidate
  tx,             \* per published view and module: its transaction
  destroyed,      \* per generation: GenerationView.destroyOnce and destroyErr
  user,           \* the goroutine in WithActiveGeneration
  request,        \* per session: the goroutine that serves it
  failures        \* failing Destroy calls so far

locks == <<mu, generationMu>>
resources == <<candidate, tx, destroyed>>
managerVars == <<view, locks, publication, applier, resources, user, request,
                 failures>>
vars == <<ownerVars, managerVars>>

Modules == 1..ModuleCount

Holders == {"free", "apply", "use", "close"}

\* applier.step counts the modules prepared.
Applier == [pc : {"idle", "prepare", "ready", "validate", "publication",
                  "publish", "finalize", "activate", "limit", "abort"},
            gen : Generations \union {None},
            previous : Generations \union {None},
            step : 0..ModuleCount,
            cancelled : BOOLEAN]

IdleApplier == [pc |-> "idle", gen |-> None, previous |-> None, step |-> 0,
                cancelled |-> FALSE]

Transactions == [Modules -> {"none", "prepared", "destroyed", "failed"}]

NoTransactions == [m \in Modules |-> "none"]

\* Where GenerationView.Destroy is: never called, at work, or returned, with
\* the error it keeps for every later call.
Destruction == [once : {"never", "running", "done"}, err : BOOLEAN]

NeverDestroyed == [once |-> "never", err |-> FALSE]

User == [pc : {"idle", "expect", "use"}, expected : Generations \union {None}]

\* A session that reached the virtual listener of a generation registers
\* ("new"), waits for the publication, is registered or is refused.
Request == [pc : {"none", "new", "waiting", "registered", "refused"},
            gen : Generations \union {None},
            unknown : BOOLEAN]

GMTypeOK ==
  /\ OwnerTypeOK
  /\ view \in Generations \union {None}
  /\ mu \in Holders
  /\ generationMu \in Holders
  /\ publication \in Generations \union {None}
  /\ applier \in Applier
  /\ candidate \in Transactions
  /\ tx \in [Generations -> Transactions]
  /\ destroyed \in [Generations -> Destruction]
  /\ user \in User
  /\ request \in [Sessions -> Request]
  /\ failures \in 0..MaxFailures

Init ==
  /\ OwnerInit
  /\ view = None
  /\ mu = "free"
  /\ generationMu = "free"
  /\ publication = None
  /\ applier = IdleApplier
  /\ candidate = NoTransactions
  /\ tx = [g \in Generations |-> NoTransactions]
  /\ destroyed = [g \in Generations |-> NeverDestroyed]
  /\ user = [pc |-> "idle", expected |-> None]
  /\ request = [s \in Sessions |-> [pc |-> "none", gen |-> None,
                                    unknown |-> FALSE]]
  /\ failures = 0

At(pc) == applier.pc = pc
Goto(pc) == applier' = [applier EXCEPT !.pc = pc]

----------------------------------------------------------------------------
(* apply: preparing a candidate *)

\* apply up to PrepareGeneration, which takes generationMu.  The view that is
\* already active, and a context that is done, return at once.
BeginApply(g) ==
  /\ At("idle")
  /\ mu = "free"
  /\ generationMu = "free"
  /\ view # g
  /\ mu' = "apply"
  /\ generationMu' = "apply"
  /\ applier' = [IdleApplier EXCEPT !.pc = "prepare", !.gen = g]
  /\ candidate' = NoTransactions
  /\ UNCHANGED <<ownerVars, view, publication, tx, destroyed, user, request,
                 failures>>

\* The context of the running apply is done.
CancelApply ==
  /\ ~At("idle")
  /\ ~applier.cancelled
  /\ applier' = [applier EXCEPT !.cancelled = TRUE]
  /\ UNCHANGED <<ownerVars, view, locks, publication, resources, user,
                 request, failures>>

\* Some module has not prepared its transaction.
ModulesLeft == applier.step < ModuleCount

\* PrepareGeneration: the next module prepares its transaction, or fails, or
\* does not provide what it declared, and the preparation is aborted.
PrepareModule(success) ==
  /\ At("prepare")
  /\ ModulesLeft
  /\ IF success
       THEN /\ candidate' = [candidate EXCEPT ![applier.step + 1] = "prepared"]
            /\ applier' = [applier EXCEPT !.step = @ + 1]
       ELSE /\ Goto("abort")
            /\ UNCHANGED candidate
  /\ UNCHANGED <<ownerVars, view, locks, publication, tx, destroyed, user,
                 request, failures>>

\* A transaction is prepared but its providers are refused: it is among the
\* transactions the abort destroys.
RegisterProvidersFails ==
  /\ At("prepare")
  /\ applier.step > 0
  /\ Goto("abort")
  /\ UNCHANGED <<ownerVars, view, locks, publication, resources, user,
                 request, failures>>

Prepared ==
  /\ At("prepare")
  /\ applier.step = ModuleCount
  /\ Goto("ready")
  /\ UNCHANGED <<ownerVars, view, locks, publication, resources, user,
                 request, failures>>

Ready(success) ==
  /\ At("ready")
  /\ Goto(IF success THEN "validate" ELSE "abort")
  /\ UNCHANGED <<ownerVars, view, locks, publication, resources, user,
                 request, failures>>

\* The drain owner's active generation is the view that is published.
PreviousMatches(previous) == active = previous

\* The revision increases beyond the active generation's.
Increases(g) == active # None => Revision[g] > Revision[active]

\* validateGenerationDrain.
ValidateDrain(g) ==
  /\ PreviousMatches(view)
  /\ phase[g] = "absent"
  /\ Increases(g)

\* validateGenerationDrain and the check of the activation deadline.
Validate ==
  /\ At("validate")
  /\ Goto(IF ValidateDrain(applier.gen) /\ ~applier.cancelled
            THEN "publication" ELSE "abort")
  /\ UNCHANGED <<ownerVars, view, locks, publication, resources, user,
                 request, failures>>

\* PreparePublication, then beginPublication.
BeginPublication(success) ==
  /\ At("publication")
  /\ IF success
       THEN /\ publication' = applier.gen
            /\ Goto("publish")
       ELSE /\ Goto("abort")
            /\ UNCHANGED publication
  /\ UNCHANGED <<ownerVars, view, locks, resources, user, request, failures>>

----------------------------------------------------------------------------
(* apply: giving a candidate up *)

\* The transactions are destroyed in the reverse order of their preparation.
NextToDestroy(t) ==
  CHOOSE m \in Modules : /\ t[m] = "prepared"
                         /\ \A n \in Modules : t[n] = "prepared" => m >= n

HasPrepared(t) == \E m \in Modules : t[m] = "prepared"

\* The transactions after the next of them was destroyed, or failed to be.
AfterDestroy(t, success) ==
  [t EXCEPT ![NextToDestroy(t)] = IF success THEN "destroyed" ELSE "failed"]

MayFail(success) ==
  /\ success \/ failures < MaxFailures
  /\ failures' = IF success THEN failures ELSE failures + 1

\* destroyCandidateTransactions: every one, whether or not another failed.
AbortDestroy(success) ==
  /\ At("abort")
  /\ HasPrepared(candidate)
  /\ MayFail(success)
  /\ candidate' = AfterDestroy(candidate, success)
  /\ UNCHANGED <<ownerVars, view, locks, publication, applier, tx, destroyed,
                 user, request>>

\* Mutant of AfterAbort: an error path keeps the registry's lock.
KeepsRegistryLock == generationMu

\* generationMu after abortPreparation or generationCandidate.Destroy.
AfterAbort == "free"

\* Mutant of CandidateGone: the first failing Destroy ends the loop.
StopsAtFailure == \/ ~HasPrepared(candidate)
                  \/ \E m \in Modules : candidate[m] = "failed"

CandidateGone == ~HasPrepared(candidate)

\* The candidate is gone and apply returns its error.
AbortDone ==
  /\ At("abort")
  /\ CandidateGone
  /\ generationMu' = AfterAbort
  /\ mu' = "free"
  /\ applier' = IdleApplier
  /\ UNCHANGED <<ownerVars, view, publication, resources, user, request,
                 failures>>

----------------------------------------------------------------------------
(* apply: publishing *)

\* Publish's swap of the view.
SwapView ==
  /\ At("publish")
  /\ view' = applier.gen
  /\ tx' = [tx EXCEPT ![applier.gen] = candidate]
  /\ candidate' = NoTransactions
  /\ applier' = [applier EXCEPT !.pc = "finalize", !.previous = view]
  /\ UNCHANGED <<ownerVars, locks, publication, destroyed, user, request,
                 failures>>

\* The finalizers of Publish and its unlock.
FinalizePublication ==
  /\ At("finalize")
  /\ generationMu' = "free"
  /\ Goto("activate")
  /\ UNCHANGED <<ownerVars, view, mu, publication, resources, user, request,
                 failures>>

\* GenerationDrain.Activate and the critical section of the controller's.
\* An error is only reported: the view stays published.
DrainActivate ==
  /\ At("activate")
  /\ \/ /\ PreviousMatches(applier.previous)
        /\ OwnerActivate(applier.gen)
        /\ Goto("limit")
     \/ /\ \/ ~PreviousMatches(applier.previous)
           \/ closed
           \/ phase[applier.gen] # "absent"
           \/ ~Increases(applier.gen)
        /\ Goto("limit")
        /\ UNCHANGED ownerVars
  /\ UNCHANGED <<view, locks, publication, resources, user, request,
                 failures>>

\* The rest of the controller's Activate, which may take its time forcing old
\* generations, then endPublication; apply returns.
EndPublication ==
  /\ At("limit")
  /\ publication' = None
  /\ mu' = "free"
  /\ applier' = IdleApplier
  /\ UNCHANGED <<ownerVars, view, generationMu, resources, user, request,
                 failures>>

----------------------------------------------------------------------------
(* Sessions *)

\* A connection is accepted by the generation whose view is selected.
Dispatch(s) ==
  /\ request[s].pc = "none"
  /\ view # None
  /\ request' = [request EXCEPT ![s] = [pc |-> "new", gen |-> view,
                                        unknown |-> FALSE]]
  /\ UNCHANGED <<ownerVars, view, locks, publication, applier, resources,
                 user, failures>>

\* Mutant of Waits: a session does not wait for the publication.
NeverWaits(g) == FALSE

\* The publication of g is under way and its drain owner does not know it yet.
Waits(g) == publication = g /\ active # g

\* RegisterSession, one turn of its loop under publicationMu.
RegisterSession(s) ==
  LET g == request[s].gen IN
  /\ request[s].pc = "new"
  /\ \/ /\ Waits(g)
        /\ request' = [request EXCEPT ![s].pc = "waiting"]
        /\ UNCHANGED ownerVars
     \/ /\ ~Waits(g)
        /\ OwnerRegister(s, g)
        /\ request' = [request EXCEPT ![s].pc = "registered"]
     \/ /\ ~Waits(g)
        /\ ~Accepts(g)
        /\ request' = [request EXCEPT ![s] =
                         [@ EXCEPT !.pc = "refused",
                                   !.unknown = ~closed /\ phase[g] = "absent"]]
        /\ UNCHANGED ownerVars
  /\ UNCHANGED <<view, locks, publication, applier, resources, user,
                 failures>>

\* publicationDone is closed.
PublicationDone(s) ==
  /\ request[s].pc = "waiting"
  /\ publication # request[s].gen
  /\ request' = [request EXCEPT ![s].pc = "new"]
  /\ UNCHANGED <<ownerVars, view, locks, publication, applier, resources,
                 user, failures>>

SessionEnds(s) == OwnerFinish(s) /\ UNCHANGED managerVars

ForcedEnd(s) == /\ session[s].life = "on"
                /\ phase[session[s].gen] = "ending"
                /\ SessionEnds(s)

----------------------------------------------------------------------------
(* WithActiveGeneration *)

\* A TLS handshake reads the view it belongs to.
ReadActive ==
  /\ "use" \in Callers
  /\ user.pc = "idle"
  /\ view # None
  /\ user' = [pc |-> "expect", expected |-> view]
  /\ UNCHANGED <<ownerVars, view, locks, publication, applier, resources,
                 request, failures>>

\* Mutant of UserLocks: only the manager's lock is asked for, not held.
UserLocksNothing == UNCHANGED locks

\* Both locks are taken and held while use runs.
UserLocks == mu' = "use" /\ generationMu' = "use"

\* WithActiveGeneration takes both locks and compares the view again.
BeginUse ==
  /\ user.pc = "expect"
  /\ mu = "free"
  /\ generationMu = "free"
  /\ IF view = user.expected
       THEN /\ UserLocks
            /\ user' = [user EXCEPT !.pc = "use"]
       ELSE /\ user' = [pc |-> "idle", expected |-> None]
            /\ UNCHANGED <<mu, generationMu>>
  /\ UNCHANGED <<ownerVars, view, publication, applier, resources, request,
                 failures>>

EndUse ==
  /\ user.pc = "use"
  /\ mu' = "free"
  /\ generationMu' = "free"
  /\ user' = [pc |-> "idle", expected |-> None]
  /\ UNCHANGED <<ownerVars, view, publication, applier, resources, request,
                 failures>>

----------------------------------------------------------------------------
(* The drain controller at work *)

Retire ==
  /\ "retire" \in Callers
  /\ At("idle")
  /\ OwnerRetire
  /\ UNCHANGED managerVars

Stop(g) == StopServing(g) /\ UNCHANGED managerVars

\* Destroy of a view is called: the first call does the work.
DestroyView(g) ==
  /\ BeginDestroy(g)
  /\ destroyed' = [destroyed EXCEPT ![g] =
                     IF @.once = "never" THEN [@ EXCEPT !.once = "running"] ELSE @]
  /\ UNCHANGED <<view, locks, publication, applier, candidate, tx, user,
                 request, failures>>

\* destroyPublishedTransactions.
DestroyViewModule(g, success) ==
  /\ destroyed[g].once = "running"
  /\ HasPrepared(tx[g])
  /\ MayFail(success)
  /\ tx' = [tx EXCEPT ![g] = AfterDestroy(@, success)]
  /\ destroyed' = [destroyed EXCEPT ![g].err = @ \/ ~success]
  /\ UNCHANGED <<ownerVars, view, locks, publication, applier, candidate,
                 user, request>>

\* Destroy returns the error of the first call to every caller.
DestroyViewReturns(g) ==
  /\ \/ destroyed[g].once = "running" /\ ~HasPrepared(tx[g])
     \/ destroyed[g].once = "done"
  /\ EndDestroy(g, ~destroyed[g].err)
  /\ destroyed' = [destroyed EXCEPT ![g].once = "done"]
  /\ UNCHANGED <<view, locks, publication, applier, candidate, tx, user,
                 request, failures>>

\* GenerationManager.Close takes m.mu and closes the controller, ...
Close ==
  /\ "close" \in Callers
  /\ mu = "free"
  /\ ~closed
  /\ mu' = "close"
  /\ OwnerClose
  /\ UNCHANGED <<view, generationMu, publication, applier, resources, user,
                 request, failures>>

\* ... which stops every generation and returns.
CloseDone ==
  /\ mu = "close"
  /\ \A g \in Generations : phase[g] \notin {"serving", "retiring"}
  /\ mu' = "free"
  /\ UNCHANGED <<ownerVars, view, generationMu, publication, applier,
                 resources, user, request, failures>>

----------------------------------------------------------------------------
(* Specification *)

ApplyStep ==
  \/ \E success \in BOOLEAN : \/ PrepareModule(success)
                              \/ Ready(success)
                              \/ BeginPublication(success)
                              \/ AbortDestroy(success)
  \/ RegisterProvidersFails
  \/ Prepared
  \/ Validate
  \/ AbortDone
  \/ SwapView
  \/ FinalizePublication
  \/ DrainActivate
  \/ EndPublication

SessionStep(s) == RegisterSession(s) \/ PublicationDone(s)

UserStep == BeginUse \/ EndUse

DrainStep(g) == \/ Stop(g)
                \/ DestroyView(g)
                \/ \E success \in BOOLEAN : DestroyViewModule(g, success)
                \/ DestroyViewReturns(g)

Next ==
  \/ \E g \in Generations : BeginApply(g)
  \/ CancelApply
  \/ ApplyStep
  \/ \E s \in Sessions : Dispatch(s) \/ SessionStep(s) \/ SessionEnds(s)
  \/ ReadActive
  \/ UserStep
  \/ Retire
  \/ \E g \in Generations : DrainStep(g)
  \/ Close
  \/ CloseDone

Spec == Init /\ [][Next]_vars

\* Fairness.  apply, a registration, a use and Close go on when they can, the
\* drain controller ends what is retired and closes the sessions that are left
\* on it (RetiredIsReleased of GenerationDrain).
Fairness ==
  /\ WF_vars(ApplyStep)
  /\ \A s \in Sessions : WF_vars(SessionStep(s)) /\ WF_vars(ForcedEnd(s))
  /\ SF_vars(UserStep)
  /\ \A g \in Generations : WF_vars(DrainStep(g))
  /\ WF_vars(CloseDone)

FairSpec == Spec /\ Fairness

----------------------------------------------------------------------------
(* Safety *)

\* No session is refused because the drain owner has not heard yet of the
\* generation whose view is already selected: RegisterSession waits for the
\* publication that beginPublication announced before the swap.
NoRefusalBeforeHandover == \A s \in Sessions : ~request[s].unknown

\* A later module's transaction is never left when an earlier one, whose
\* providers it may use, is gone.
InReverseOrder(t) ==
  \A m, n \in Modules :
    m < n /\ t[m] \in {"destroyed", "failed"} => t[n] # "prepared"

\* A prepared transaction always has somebody who will destroy it: the apply
\* under way, the drain owner, or a view that a closed controller refused.  It
\* is destroyed neither while its generation takes traffic nor out of the
\* reverse order of the preparation (destroyCandidateTransactions,
\* destroyPublishedTransactions).
PreparedIsOwned ==
  /\ HasPrepared(candidate) => ~At("idle")
  /\ \A g \in Generations :
       HasPrepared(tx[g]) =>
         \/ applier.gen = g
         \/ phase[g] \in {"serving", "retiring", "ending", "destroying"}
         \/ closed /\ view = g
  /\ \A g \in Generations, m \in Modules :
       phase[g] \in {"serving", "retiring"} => tx[g][m] = "prepared"
  /\ InReverseOrder(candidate)
  /\ \A g \in Generations : InReverseOrder(tx[g])

\* Between two calls of apply the published view and the drain owner's active
\* generation are the same, unless the owner gave it up (RetireActive, Close),
\* and the irreversible publication of certificates that WithActiveGeneration
\* runs only happens under the view it was meant for.
ViewIsOwned ==
  /\ At("idle") /\ view # None
       => \/ active = view
          \/ active = None /\ (closed \/ phase[view] \notin {"absent", "serving"})
  /\ user.pc = "use" => view = user.expected

\* apply returns and every lock it took is free again for the next one, and
\* every session is registered or refused.
CallsReturn ==
  /\ (~At("idle")) ~> (At("idle") /\ mu # "apply" /\ generationMu # "apply")
  /\ (mu = "close") ~> (mu # "close")
  /\ \A s \in Sessions :
       (request[s].pc = "new") ~> (request[s].pc \in {"registered", "refused"})

============================================================================
