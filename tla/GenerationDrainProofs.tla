---------------------- MODULE GenerationDrainProofs ----------------------
(***************************************************************************)
(* Proofs about the drain controller, for every set of generations,        *)
(* entities, ids and session records, every failure bound and every        *)
(* revision numbering.                                                     *)
(*                                                                         *)
(* Inv is the inductive invariant.  Its parts say, in the order in which   *)
(* they are needed: the active generation is the one in state applied and  *)
(* nothing is active after Close (ActiveInv); which states a generation    *)
(* can be in while somebody holds its lifecycle lock, while its resource   *)
(* is being destroyed, and what its recorded outcome then is (EntryInv);   *)
(* that such a generation owns no session (EmptyInv); how a record, its    *)
(* handle and the registry belong together (RecordInv); that only the      *)
(* running Activate can be waiting for a force made in its name            *)
(* (CallerInv); and which sessions of revoked entities the revoke loop     *)
(* still has before it (RevokeInv).                                        *)
(*                                                                         *)
(* The second part adds OwnerInv and LimitInv to it and shows that a       *)
(* retired generation always has an owner, that enforceLimit stops the     *)
(* draining of superseded generations, and that the controller implements  *)
(* the abstract specification DrainOwner.                                  *)
(***************************************************************************)
EXTENDS GenerationDrain, FiniteSetTheorems, TLAPS

ActiveInv ==
  /\ active # None => state[active] = "applied" /\ ~closed
  /\ \A g \in Generations : "shutdown" \in waiting[g] => closed
  /\ \A g \in Generations : life[g].role = "shutdown" => closed
  /\ closer.pc # "open" => closed

\* The states before a generation is drained or forced.
Serving == {"absent", "applied", "draining"}

EntryInv ==
  \A g \in Generations :
    /\ state[g] \in Serving =>
         final[g] = "none" /\ destroy[g] = "idle" /\ life[g].pc = "free"
    /\ state[g] \notin Serving => final[g] # "none"
    /\ destroy[g] = "destroyed" => life[g].pc = "free" /\ state[g] = final[g]
    /\ life[g].pc = "force" => state[g] = "forced" /\ destroy[g] = "idle"
    /\ state[g] = "forced" /\ life[g].pc = "free" => destroy[g] = "destroyed"

EmptyInv ==
  \A g \in Generations :
    \/ state[g] = "drained"
    \/ life[g].pc \in {"destroy", "resume"}
    \/ destroy[g] # "idle"
    => SessionsOf(g) = {}

\* Whoever forces a generation for enforceLimit does so for the Activate under
\* way, which waits for it alone.
CallerInv ==
  \A g \in Generations :
    /\ "limit" \in waiting[g] \/ life[g].role = "limit" =>
         pub.pc = "forcing" /\ pub.gen = g
    /\ ~("limit" \in waiting[g] /\ life[g].role = "limit")

RecordInv ==
  \A s \in Sessions :
    /\ rec[s].handle = "unused" => s \notin registered
    /\ s \in registered => rec[s].gen \in Generations
    /\ rec[s].handle \in {"active", "forcing"} =>
         s \in registered /\ rec[s].unregister = "none"

RevokeInv ==
  \A s \in registered :
    /\ rec[s].handle = "active"
    /\ rec[s].entity \in revoked[rec[s].gen]
    => \/ rec[s].closeFailed
       \/ /\ pub.pc = "revoke"
          /\ pub.gen = rec[s].gen
          /\ s \in loop[<<"revoke", pub.gen>>].todo

----------------------------------------------------------------------------
(* The operators that build records stay within their types *)

\* Every transition of a session handle yields a record (SessionHandle).
LEMMA RecordType ==
  /\ UnusedRecord \in Record
  /\ \A g \in Generations, e \in Entities, i \in Ids : NewRecord(g, e, i) \in Record
  /\ \A r \in Record :
       /\ Finished(r) \in Record
       /\ FinishLater(r) \in Record
       /\ \A b \in BOOLEAN : Claimed(r, b) \in Record
       /\ MadeTerminal(r) \in Record
       /\ Reopened(r) \in Record
       /\ \A u \in {"none", "notify"} : Unregister(r, u) \in Record
BY ZenonT(30) DEF Record, UnusedRecord, NewRecord, Finished, FinishLater, Claimed,
       MadeTerminal, Reopened, Unregister

\* Every step of a force loop yields a loop (SessionRegistry.force).
LEMMA LoopType ==
  /\ IdleLoop \in Loop
  /\ \A t \in SUBSET Sessions : StartedLoop(t) \in Loop
  /\ \A l \in Loop, s \in Sessions :
       Closing(l, s) \in Loop /\ Awaiting(l, s) \in Loop /\ Skipping(l, s) \in Loop
  /\ \A l \in Loop : Closed(l) \in Loop
BY DEF Loop, IdleLoop, StartedLoop, Closing, Awaiting, Skipping, Closed

\* Replacing one loop keeps the type of all.
LEMMA LoopUpdate ==
  ASSUME TypeOK, NEW k \in LoopKinds, NEW g \in Generations, NEW l \in Loop
  PROVE  [loop EXCEPT ![<<k, g>>] = l] \in [Loops -> Loop]
<1> DEFINE x == <<k, g>>
<1>1. x \in Loops /\ loop \in [Loops -> Loop]
  BY DEF Loops, TypeOK
<1> HIDE DEF x
<1>2. [loop EXCEPT ![x] = l] \in [Loops -> Loop]
  BY <1>1
<1> QED
  BY <1>2 DEF x

\* A loop is a loop.
LEMMA LoopAt ==
  ASSUME TypeOK, NEW k \in LoopKinds, NEW g \in Generations
  PROVE  /\ loop[<<k, g>>] \in Loop
         /\ loop[<<k, g>>].current \in Sessions \union {None}
         /\ loop[<<k, g>>].todo \subseteq Sessions
<1>1. <<k, g>> \in Loops
  BY DEF Loops
<1>2. loop[<<k, g>>] \in Loop
  BY <1>1 DEF TypeOK
<1> QED
  BY <1>2 DEF Loop

\* What a lifecycle-lock holder can be (lockLifecycle, completeCleanup).
LEMMA LifeType ==
  /\ FreeLife \in Life
  /\ \A r \in Roles \union {"none"}, p \in {"force", "destroy", "resume"} :
       [role |-> r, pc |-> p] \in Life
  /\ \A l \in Life : /\ [l EXCEPT !.pc = "destroy"] \in Life
                      /\ l.role \in Roles \union {"none"}
BY DEF FreeLife, Life, Roles

\* The places of Activate (activate, enforceLimit).
LEMMA PublisherType ==
  /\ IdlePublisher \in Publisher
  /\ [IdlePublisher EXCEPT !.pc = "limit"] \in Publisher
  /\ \A g \in Generations :
       [IdlePublisher EXCEPT !.pc = "revoke", !.gen = g] \in Publisher
  /\ \A p \in Publisher :
       /\ [p EXCEPT !.pc = "notify"] \in Publisher
       /\ [p EXCEPT !.pc = "limit", !.gen = None] \in Publisher
       /\ [p EXCEPT !.cancelled = TRUE] \in Publisher
       /\ [IdlePublisher EXCEPT !.cancelled = p.cancelled] \in Publisher
       /\ \A g \in Generations :
            /\ [p EXCEPT !.attempted = @ \union {g}] \in Publisher
            /\ [p EXCEPT !.pc = "forcing", !.gen = g,
                         !.attempted = @ \union {g}] \in Publisher
BY DEF Publisher, IdlePublisher

\* Returning from force keeps the types of both callers.
LEMMA ReturnType ==
  ASSUME TypeOK, NEW role, Return(role)
  PROVE  pub' \in Publisher /\ closer' \in Closer
<1>1. [closer EXCEPT !.pc = "next"] \in Closer
  BY DEF TypeOK, Closer
<1> QED
  BY <1>1, PublisherType DEF Return, TypeOK

\* onSessionEmpty keeps the types of what it may change.
LEMMA OnSessionEmptyType ==
  ASSUME TypeOK, NEW g, OnSessionEmpty(g)
  PROVE  /\ state' \in [Generations -> DrainStates]
         /\ final' \in [Generations -> {"none", "drained", "forced"}]
         /\ timer' \in [Generations -> {"none", "timeout", "progressive"}]
         /\ waiting' \in [Generations -> SUBSET Roles]
         /\ UNCHANGED <<destroy, revoked, retry>>
BY DEF OnSessionEmpty, DrainsNaturally, TypeOK, entry, DrainStates, Roles, RetryRoles

----------------------------------------------------------------------------
(* Type correctness *)

\* The controller starts in a state of the right type (NewDrainController).
LEMMA TypeInit == NewDrainController => TypeOK
<1> SUFFICES ASSUME NewDrainController PROVE TypeOK
  OBVIOUS
<1>1. closer \in Closer
  BY DEF NewDrainController, Closer
<1>2. order \in Seq(Generations) /\ failures \in 0..MaxFailures
  BY FailuresAssumption DEF NewDrainController
<1>3. /\ state \in [Generations -> DrainStates]
      /\ destroy \in [Generations -> DestroyStates]
  BY DEF NewDrainController, DrainStates, DestroyStates
<1> QED
  BY <1>1, <1>2, <1>3, RecordType, LoopType, LifeType, PublisherType
  DEF NewDrainController, TypeOK

\* Going on to completeCleanup keeps the type of the lifecycle locks.
LEMMA CleanupLife ==
  ASSUME TypeOK, NEW g \in Generations, NEW role \in Roles \union {"none"},
         BeginCleanup(g, role)
  PROVE  life' \in [Generations -> Life]
<1>1. PICK l \in {[role |-> role, pc |-> "destroy"], [role |-> role, pc |-> "resume"]} :
        life' = [life EXCEPT ![g] = l]
  BY DEF BeginCleanup
<1>2. l \in Life
  BY LifeType
<1> QED
  BY <1>1, <1>2 DEF TypeOK

\* Every step keeps the types.
LEMMA TypeNext == ASSUME TypeOK, EntryInv, [Next]_vars PROVE TypeOK'
<1> USE DEF controller, entry, registry, callers
<1>1. ASSUME NEW s \in Sessions, NEW g \in Generations, NEW e \in Entities,
             NEW i \in Ids, RegisterSession(s, g, e, i)
      PROVE  TypeOK'
  BY <1>1, RecordType DEF RegisterSession, TypeOK
<1>2. ASSUME NEW s \in Sessions, FinishNaturally(s) PROVE TypeOK'
  BY <1>2, RecordType DEF FinishNaturally, TypeOK
<1>3. ASSUME NEW s \in Sessions, RegistryFinish(s) PROVE TypeOK'
  BY <1>3, RecordType DEF RegistryFinish, AfterRemoval, Without, TypeOK
<1>4. ASSUME NEW s \in Sessions, NotifyEmpty(s) PROVE TypeOK'
  BY <1>4, RecordType, OnSessionEmptyType DEF NotifyEmpty, TypeOK
<1>5. ASSUME NEW k \in LoopKinds, NEW g \in Generations, NEW s \in Sessions,
             ClaimForce(k, g, s)
      PROVE  TypeOK'
  <2>1. rec' \in [Sessions -> Record]
    <3>1. \/ rec' = [rec EXCEPT ![s] = Claimed(@, Terminal(k))]
          \/ rec' = [rec EXCEPT ![s] = MadeTerminal(@)]
          \/ rec' = AfterRemoval(s)
          \/ rec' = rec
      BY <1>5 DEF ClaimForce
    <3>2. Terminal(k) \in BOOLEAN
      BY DEF Terminal
    <3> QED
      BY <3>1, <3>2, RecordType DEF AfterRemoval, TypeOK
  <2>2. loop' \in [Loops -> Loop]
    <3>1. \E l \in {Closing(loop[<<k, g>>], s), Awaiting(loop[<<k, g>>], s),
                    Skipping(loop[<<k, g>>], s)} :
            loop' = [loop EXCEPT ![<<k, g>>] = l]
      BY <1>5 DEF ClaimForce
    <3>2. {Closing(loop[<<k, g>>], s), Awaiting(loop[<<k, g>>], s),
           Skipping(loop[<<k, g>>], s)} \subseteq Loop
      BY LoopAt, LoopType
    <3> QED
      BY <3>1, <3>2, LoopUpdate
  <2>3. registered' \subseteq Sessions
    BY <1>5 DEF ClaimForce, Without, TypeOK
  <2> QED
    BY <1>5, <2>1, <2>2, <2>3 DEF ClaimForce, TypeOK
<1>6. ASSUME NEW k \in LoopKinds, NEW g \in Generations, NEW success \in BOOLEAN,
             CompleteForce(k, g, success)
      PROVE  TypeOK'
  <2> DEFINE s == loop[<<k, g>>].current
  <2>1. s \in Sessions
    BY <1>6, LoopAt DEF CompleteForce
  <2>2. failures' \in 0..MaxFailures
    BY <1>6, FailuresAssumption DEF CompleteForce, TypeOK
  <2>3. rec' \in [Sessions -> Record]
    <3>1. \/ rec' = [rec EXCEPT ![s] = Finished(@)]
          \/ rec' = [rec EXCEPT ![s] = Reopened(@)]
      BY <1>6 DEF CompleteForce
    <3> HIDE DEF s
    <3> QED
      BY <2>1, <3>1, RecordType DEF TypeOK
  <2>4. loop' \in [Loops -> Loop]
    <3>1. loop' = [loop EXCEPT ![<<k, g>>] = Closed(@)] \/ loop' = loop
      BY <1>6 DEF CompleteForce
    <3>2. Closed(loop[<<k, g>>]) \in Loop
      BY LoopAt, LoopType
    <3> QED
      BY <3>1, <3>2, LoopUpdate DEF TypeOK
  <2> QED
    BY <1>6, <2>2, <2>3, <2>4 DEF CompleteForce, TypeOK
<1>7. ASSUME NEW k \in LoopKinds, NEW g \in Generations, LoopNext(k, g)
      PROVE  TypeOK'
  <2>1. loop' \in [Loops -> Loop]
    BY <1>7, LoopAt, LoopType, LoopUpdate DEF LoopNext
  <2> QED
    BY <1>7, <2>1 DEF LoopNext, TypeOK
<1>8. ASSUME NEW g \in Generations, NEW s \in Sessions, SkipProgressive(g, s)
      PROVE  TypeOK'
  <2>1. loop' \in [Loops -> Loop]
    <3>1. "progressive" \in LoopKinds
      BY DEF LoopKinds
    <3> QED
      BY <1>8, <3>1, LoopAt, LoopType, LoopUpdate DEF SkipProgressive
  <2> QED
    BY <1>8, <2>1 DEF SkipProgressive, TypeOK
<1>9. ASSUME NEW g \in Generations, NEW kind \in TimerKinds,
             NEW r \in SUBSET Entities, Activate(g, kind, r)
      PROVE  TypeOK'
  <2>1. pub' \in Publisher
    <3>1. \/ pub' = [IdlePublisher EXCEPT !.pc = "limit"]
          \/ /\ active \in Generations
             /\ pub' = [IdlePublisher EXCEPT !.pc = "revoke", !.gen = active]
      BY <1>9 DEF Activate, TypeOK
    <3> QED
      BY <3>1, PublisherType
  <2>2. loop' \in [Loops -> Loop]
    <3>1. CASE active = None
      BY <1>9, <3>1 DEF Activate, TypeOK
    <3>2. CASE active # None
      <4>1. active \in Generations /\ "revoke" \in LoopKinds
        BY <3>2 DEF TypeOK, LoopKinds
      <4>2. StartedLoop({s \in SessionsOf(active) : rec[s].entity \in r}) \in Loop
        BY LoopType DEF SessionsOf, TypeOK
      <4>3. loop' = [loop EXCEPT ![<<"revoke", active>>] =
              StartedLoop({s \in SessionsOf(active) : rec[s].entity \in r})]
        BY <1>9, <3>2 DEF Activate
      <4> QED
        BY <4>1, <4>2, <4>3, LoopUpdate
    <3> QED
      BY <3>1, <3>2
  <2>3. state' \in [Generations -> DrainStates]
    <3>1. \/ state' = [state EXCEPT ![g] = "applied"]
          \/ state' = [state EXCEPT ![g] = "applied", ![active] = "draining"]
      BY <1>9 DEF Activate
    <3> QED
      BY <3>1 DEF TypeOK, DrainStates
  <2>4. revoked' \in [Generations -> SUBSET Entities]
    BY <1>9 DEF Activate, TypeOK
  <2>5. timer' \in [Generations -> {"none", "timeout", "progressive"}]
    <3>1. kind \in {"none", "timeout", "progressive"}
      BY TimerAssumption
    <3> QED
      BY <1>9, <3>1 DEF Activate, TypeOK
  <2>6. order' \in Seq(Generations)
    BY <1>9 DEF Activate, TypeOK
  <2> QED
    BY <1>9, <2>1, <2>2, <2>3, <2>4, <2>5, <2>6 DEF Activate, TypeOK
<1>10. ASSUME EntitiesForced PROVE TypeOK'
  <2>1. loop' \in [Loops -> Loop]
    BY <1>10, LoopType DEF EntitiesForced, TypeOK
  <2> QED
    BY <1>10, <2>1, PublisherType DEF EntitiesForced, TypeOK
<1>11. ASSUME ActivateNotify PROVE TypeOK'
  BY <1>11, PublisherType, OnSessionEmptyType DEF ActivateNotify, TypeOK
<1>12. ASSUME EnforceLimit PROVE TypeOK'
  <2>1. CASE pub' = [IdlePublisher EXCEPT !.cancelled = pub.cancelled] /\ UNCHANGED waiting
    BY <1>12, <2>1, PublisherType DEF EnforceLimit, TypeOK
  <2>2. ASSUME NEW n \in Candidates,
               \/ /\ pub' = [pub EXCEPT !.attempted = @ \union {order[n]}]
                  /\ UNCHANGED waiting
               \/ /\ pub' = [pub EXCEPT !.pc = "forcing", !.gen = order[n],
                                        !.attempted = @ \union {order[n]}]
                  /\ waiting' = [waiting EXCEPT ![order[n]] = @ \union {"limit"}]
        PROVE  TypeOK'
    <3>1. order[n] \in Generations
      BY DEF Candidates, TypeOK
    <3>2. pub' \in Publisher
      <4>1. pub \in Publisher
        BY DEF TypeOK
      <4> DEFINE h == order[n]
      <4>2. \/ pub' = [pub EXCEPT !.attempted = @ \union {h}]
            \/ pub' = [pub EXCEPT !.pc = "forcing", !.gen = h,
                                  !.attempted = @ \union {h}]
        BY <2>2
      <4>3. h \in Generations
        BY <3>1
      <4> HIDE DEF h
      <4> QED
        BY <4>1, <4>2, <4>3, PublisherType
    <3>3. waiting' \in [Generations -> SUBSET Roles]
      BY <2>2 DEF TypeOK, Roles, ForceRoles
    <3> QED
      BY <1>12, <3>2, <3>3 DEF EnforceLimit, TypeOK
  <2> QED
    BY <1>12, <2>1, <2>2 DEF EnforceLimit
<1>13. ASSUME CancelActivate PROVE TypeOK'
  <2>1. failures' \in 0..MaxFailures
    BY <1>13, FailuresAssumption DEF CancelActivate, TypeOK
  <2> QED
    BY <1>13, <2>1, PublisherType DEF CancelActivate, TypeOK
<1>14. ASSUME NEW g \in Generations, RetireActive(g) PROVE TypeOK'
  BY <1>14 DEF RetireActive, TypeOK, DrainStates
<1>15. ASSUME NEW g \in Generations, DrainTimerFires(g) PROVE TypeOK'
  <2>1. loop' \in [Loops -> Loop]
    <3>1. "progressive" \in LoopKinds /\ StartedLoop(SessionsOf(g)) \in Loop
      BY LoopType DEF LoopKinds, SessionsOf, TypeOK
    <3> QED
      BY <1>15, <3>1, LoopUpdate DEF DrainTimerFires, TypeOK
  <2>2. waiting' \in [Generations -> SUBSET Roles]
    BY <1>15 DEF DrainTimerFires, TypeOK, Roles, ForceRoles
  <2>3. prog' \in [Generations -> {"idle", "loop", "notify"}]
    BY <1>15 DEF DrainTimerFires, TypeOK
  <2> QED
    BY <1>15, <2>1, <2>2, <2>3 DEF DrainTimerFires, TypeOK
<1>16. ASSUME NEW g \in Generations, RetryTimerFires(g) PROVE TypeOK'
  BY <1>16 DEF RetryTimerFires, TypeOK, Roles, RetryRoles
<1>17. ASSUME NEW g \in Generations, ProgressiveForced(g) PROVE TypeOK'
  <2>1. loop' \in [Loops -> Loop]
    BY <1>17, LoopType DEF ProgressiveForced, TypeOK
  <2> QED
    BY <1>17, <2>1 DEF ProgressiveForced, TypeOK
<1>18. ASSUME NEW g \in Generations, NotifyRetired(g) PROVE TypeOK'
  BY <1>18, OnSessionEmptyType DEF NotifyRetired, TypeOK
<1>19. ASSUME NEW g \in Generations, NEW role \in Roles, ForceGeneration(g, role)
       PROVE  TypeOK'
  <2>1. waiting' \in [Generations -> SUBSET Roles]
    BY <1>19 DEF ForceGeneration, TakeLock, TypeOK
  <2>2. CASE UNCHANGED <<entry, loop, life>> /\ Return(role)
    BY <1>19, <2>1, <2>2, ReturnType DEF ForceGeneration, TypeOK
  <2>3. CASE UNCHANGED <<entry, loop, callers>> /\ BeginCleanup(g, role)
    BY <1>19, <2>1, <2>3, CleanupLife DEF ForceGeneration, TypeOK
  <2>4. CASE /\ state' = [state EXCEPT ![g] = "forced"]
             /\ final' = [final EXCEPT ![g] = "forced"]
             /\ timer' = [timer EXCEPT ![g] = "none"]
             /\ loop' = [loop EXCEPT ![<<"life", g>>] = StartedLoop(SessionsOf(g))]
             /\ life' = [life EXCEPT ![g] = [role |-> role, pc |-> "force"]]
             /\ UNCHANGED <<destroy, revoked, retry, callers>>
    <3>1. loop' \in [Loops -> Loop]
      <4>1. "life" \in LoopKinds /\ StartedLoop(SessionsOf(g)) \in Loop
        BY LoopType DEF LoopKinds, SessionsOf, TypeOK
      <4> QED
        BY <2>4, <4>1, LoopUpdate
    <3>2. life' \in [Generations -> Life]
      BY <2>4, LifeType DEF TypeOK
    <3> QED
      BY <1>19, <2>1, <2>4, <3>1, <3>2 DEF ForceGeneration, TypeOK, DrainStates
  <2> QED
    BY <1>19, <2>2, <2>3, <2>4 DEF ForceGeneration
<1>20. ASSUME NEW g \in Generations, NEW role \in Roles, RetryCleanup(g, role)
       PROVE  TypeOK'
  <2>1. life' \in [Generations -> Life]
    BY <1>20, CleanupLife DEF RetryCleanup, TypeOK
  <2>2. waiting' \in [Generations -> SUBSET Roles]
    BY <1>20 DEF RetryCleanup, TakeLock, TypeOK
  <2>3. retry' \subseteq Generations
    BY <1>20 DEF RetryCleanup, TypeOK
  <2> QED
    BY <1>20, <2>1, <2>2, <2>3 DEF RetryCleanup, TypeOK
<1>21. ASSUME NEW g \in Generations, NEW role \in Roles, AbandonLock(g, role)
       PROVE  TypeOK'
  BY <1>21, ReturnType DEF AbandonLock, TypeOK
<1>22. ASSUME NEW g \in Generations, NaturalCleanup(g) PROVE TypeOK'
  <2>1. "natural" \in Roles
    BY DEF Roles
  <2>2. life' \in [Generations -> Life]
    BY <1>22, <2>1, CleanupLife DEF NaturalCleanup, TypeOK
  <2>3. waiting' \in [Generations -> SUBSET Roles]
    BY <1>22 DEF NaturalCleanup, TakeLock, TypeOK
  <2> QED
    BY <1>22, <2>2, <2>3 DEF NaturalCleanup, TypeOK
<1>23. ASSUME NEW g \in Generations, CountRemaining(g) PROVE TypeOK'
  <2>1. loop' \in [Loops -> Loop]
    <3>1. "life" \in LoopKinds
      BY DEF LoopKinds
    <3> QED
      BY <1>23, <3>1, LoopType, LoopUpdate DEF CountRemaining
  <2>2. CASE Return(life[g].role) /\ ReleaseLock(g)
    BY <1>23, <2>1, <2>2, LifeType, ReturnType
    DEF CountRemaining, ReleaseLock, TypeOK, DrainStates
  <2>3. CASE BeginCleanup(g, life[g].role) /\ UNCHANGED <<state, callers>>
    <3>1. life' \in [Generations -> Life]
      <4>1. life[g].role \in Roles \union {"none"}
        BY LifeType DEF TypeOK
      <4> QED
        BY <2>3, <4>1, CleanupLife
    <3> QED
      BY <1>23, <2>1, <2>3, <3>1 DEF CountRemaining, TypeOK
  <2> QED
    BY <1>23, <2>2, <2>3 DEF CountRemaining
<1>24. ASSUME NEW g \in Generations, StartDestroy(g) PROVE TypeOK'
  BY <1>24 DEF StartDestroy, TypeOK, DestroyStates
<1>25. ASSUME NEW g \in Generations, DestroyAgain(g) PROVE TypeOK'
  BY <1>25, LifeType DEF DestroyAgain, TypeOK, DestroyStates
<1>26. ASSUME NEW g \in Generations, CleanupFails(g) PROVE TypeOK'
  <2>1. retry' \subseteq Generations
    BY <1>26 DEF CleanupFails, RetryScheduled, TypeOK
  <2>2. /\ state' \in [Generations -> DrainStates]
        /\ destroy' \in [Generations -> DestroyStates]
    BY <1>26 DEF CleanupFails, TypeOK, DrainStates, DestroyStates
  <2> QED
    BY <1>26, <2>1, <2>2, LifeType, ReturnType DEF CleanupFails, ReleaseLock, TypeOK
<1>27. ASSUME NEW g \in Generations, CleanupDone(g) PROVE TypeOK'
  <2>1. entries' \subseteq Generations
    BY <1>27 DEF CleanupDone, Retained, TypeOK
  <2>2. /\ state' \in [Generations -> DrainStates]
        /\ destroy' \in [Generations -> DestroyStates]
        /\ revoked' \in [Generations -> SUBSET Entities]
        /\ timer' \in [Generations -> {"none", "timeout", "progressive"}]
    <3>1. final[g] \in DrainStates
      BY <1>27 DEF CleanupDone, EntryInv, Serving, TypeOK, DrainStates
    <3> QED
      BY <1>27, <3>1 DEF CleanupDone, TypeOK, DestroyStates
  <2> QED
    BY <1>27, <2>1, <2>2, LifeType, ReturnType DEF CleanupDone, ReleaseLock, TypeOK
<1>28. ASSUME NEW g \in Generations, NEW success \in BOOLEAN,
              DestroyReturns(g, success)
       PROVE  TypeOK'
  <2>1. failures' \in 0..MaxFailures
    BY <1>28, FailuresAssumption DEF DestroyReturns, TypeOK
  <2> QED
    BY <1>28, <2>1 DEF DestroyReturns, TypeOK, DestroyStates
<1>29. ASSUME Close PROVE TypeOK'
  <2>1. closer' \in Closer
    BY <1>29 DEF Close, TypeOK, Closer
  <2>2. timer' \in [Generations -> {"none", "timeout", "progressive"}]
    BY <1>29 DEF Close, TypeOK
  <2> QED
    BY <1>29, <2>1, <2>2 DEF Close, TypeOK
<1>30. ASSUME CloseNext PROVE TypeOK'
  <2>1. closer' \in Closer
    <3>1. closer \in Closer
      BY DEF TypeOK
    <3>2. closer.todo # <<>> => Tail(closer.todo) \in Seq(Generations)
      BY <3>1 DEF Closer
    <3> QED
      BY <1>30, <3>1, <3>2 DEF CloseNext, Closer
  <2>2. waiting' \in [Generations -> SUBSET Roles]
    BY <1>30 DEF CloseNext, TypeOK, Roles, ForceRoles
  <2> QED
    BY <1>30, <2>1, <2>2 DEF CloseNext, TypeOK
<1>31. ASSUME CancelClose PROVE TypeOK'
  <2>1. closer' \in Closer
    BY <1>31 DEF CancelClose, TypeOK, Closer
  <2>2. failures' \in 0..MaxFailures
    BY <1>31, FailuresAssumption DEF CancelClose, TypeOK
  <2> QED
    BY <1>31, <2>1, <2>2 DEF CancelClose, TypeOK
<1>32. ASSUME UNCHANGED vars PROVE TypeOK'
  BY <1>32 DEF vars, TypeOK
<1> QED
  BY <1>1, <1>2, <1>3, <1>4, <1>5, <1>6, <1>7, <1>8, <1>9, <1>10, <1>11, <1>12,
     <1>13, <1>14, <1>15, <1>16, <1>17, <1>18, <1>19, <1>20, <1>21, <1>22, <1>23,
     <1>24, <1>25, <1>26, <1>27, <1>28, <1>29, <1>30, <1>31, <1>32
  DEF Next, ForceStep, HandleStep, PublisherStep, TimerStep, LockStep, CleanupStep

----------------------------------------------------------------------------
(* The parts of the inductive invariant, one lemma for each *)

\* A generation in the hands of a lock holder, and one whose Destroy was
\* called, is neither active nor draining (forceGeneration, completeCleanup).
LEMMA HeldIsNotServing ==
  ASSUME TypeOK, EntryInv, NEW g \in Generations
  PROVE  /\ life[g].pc # "free" => state[g] \notin Serving
         /\ destroy[g] # "idle" => state[g] \notin Serving
BY DEF EntryInv

\* The active generation is applied, and nothing is active after Close.
LEMMA ActiveNext == ASSUME TypeOK, ActiveInv, EntryInv, [Next]_vars PROVE ActiveInv'
<1> USE DEF controller, entry, registry, callers
<1>1. ASSUME NEW g \in Generations, OnSessionEmpty(g),
             UNCHANGED <<active, closed, life, closer>>
      PROVE  ActiveInv'
  <2>1. state' = state \/ (state' = [state EXCEPT ![g] = "drained"] /\ state[g] = "draining")
    BY <1>1 DEF OnSessionEmpty, DrainsNaturally
  <2>2. \A h \in Generations : "shutdown" \in waiting'[h] => "shutdown" \in waiting[h]
    BY <1>1, SMTT(30) DEF OnSessionEmpty, TypeOK
  <2> QED
    BY <1>1, <2>1, <2>2 DEF ActiveInv, TypeOK
<1>2. ASSUME NEW s \in Sessions, NotifyEmpty(s) PROVE ActiveInv'
  <2>1. CASE rec[s].gen \in Generations
    BY <1>1, <1>2, <2>1 DEF NotifyEmpty
  <2>2. CASE rec[s].gen \notin Generations
    <3>1. UNCHANGED <<state, waiting>>
      BY <1>2, <2>2 DEF NotifyEmpty, OnSessionEmpty, TypeOK
    <3> QED
      BY <1>2, <3>1 DEF NotifyEmpty, ActiveInv
  <2> QED
    BY <2>1, <2>2
<1>3. ASSUME ActivateNotify PROVE ActiveInv'
  <2>1. CASE pub.gen \in Generations
    BY <1>1, <1>3, <2>1 DEF ActivateNotify
  <2>2. CASE pub.gen \notin Generations
    <3>1. UNCHANGED <<state, waiting>>
      BY <1>3, <2>2 DEF ActivateNotify, OnSessionEmpty, TypeOK
    <3> QED
      BY <1>3, <3>1 DEF ActivateNotify, ActiveInv
  <2> QED
    BY <2>1, <2>2
<1>4. ASSUME NEW g \in Generations, NotifyRetired(g) PROVE ActiveInv'
  BY <1>1, <1>4 DEF NotifyRetired
<1>5. ASSUME NEW g \in Generations, NEW kind \in TimerKinds,
             NEW r \in SUBSET Entities, Activate(g, kind, r)
      PROVE  ActiveInv'
  <2>1. g # active
    BY <1>5, NoneAssumption DEF Activate, ActiveInv
  <2>2. \/ state' = [state EXCEPT ![g] = "applied"]
        \/ state' = [state EXCEPT ![g] = "applied", ![active] = "draining"]
    BY <1>5 DEF Activate
  <2>3. state'[g] = "applied"
    BY <2>1, <2>2 DEF TypeOK
  <2> QED
    BY <1>5, <2>3 DEF Activate, ActiveInv, TypeOK
<1>6. ASSUME EnforceLimit PROVE ActiveInv'
  <2>1. UNCHANGED <<active, closed, state, life, closer>>
    BY <1>6 DEF EnforceLimit
  <2>2. \A g \in Generations : "shutdown" \in waiting'[g] => "shutdown" \in waiting[g]
    <3>1. \/ waiting' = waiting
          \/ \E n \in Candidates :
               waiting' = [waiting EXCEPT ![order[n]] = @ \union {"limit"}]
      BY <1>6 DEF EnforceLimit
    <3> QED
      BY <3>1 DEF TypeOK
  <2> QED
    BY <2>1, <2>2 DEF ActiveInv
<1>7. ASSUME NEW g \in Generations, RetireActive(g) PROVE ActiveInv'
  BY <1>7 DEF RetireActive, ActiveInv, TypeOK
<1>8. ASSUME NEW g \in Generations, DrainTimerFires(g) PROVE ActiveInv'
  <2>1. UNCHANGED <<active, closed, state, life, closer>>
    BY <1>8 DEF DrainTimerFires
  <2>2. \A h \in Generations : "shutdown" \in waiting'[h] => "shutdown" \in waiting[h]
    BY <1>8 DEF DrainTimerFires, TypeOK
  <2> QED
    BY <2>1, <2>2 DEF ActiveInv
<1>9. ASSUME NEW g \in Generations, RetryTimerFires(g) PROVE ActiveInv'
  BY <1>9 DEF RetryTimerFires, ActiveInv, TypeOK
<1>10. ASSUME NEW g \in Generations, NEW role \in Roles, ForceGeneration(g, role)
       PROVE  ActiveInv'
  <2>1. /\ \A h \in Generations : "shutdown" \in waiting'[h] => "shutdown" \in waiting[h]
        /\ role = "shutdown" => closed
        /\ UNCHANGED <<active, closed>>
    BY <1>10 DEF ForceGeneration, TakeLock, ActiveInv, TypeOK
  <2>2. \A h \in Generations : life'[h].role \in {life[h].role, role}
    BY <1>10 DEF ForceGeneration, BeginCleanup, TypeOK
  <2>3. active # None => state'[active] = "applied"
    <3>1. \/ state' = state
          \/ state' = [state EXCEPT ![g] = "forced"] /\ Forceable(g, role)
      BY <1>10 DEF ForceGeneration
    <3> QED
      BY <2>1, <3>1 DEF Forceable, ActiveInv, TypeOK
  <2>4. closer'.pc # "open" => closer.pc # "open" \/ role = "shutdown"
    BY <1>10 DEF ForceGeneration, Return
  <2> QED
    BY <2>1, <2>2, <2>3, <2>4 DEF ActiveInv
<1>11. ASSUME NEW g \in Generations, NEW role \in Roles, RetryCleanup(g, role)
       PROVE  ActiveInv'
  <2>1. role # "shutdown"
    BY <1>11 DEF RetryCleanup, RetryRoles
  <2>2. \A h \in Generations : "shutdown" \in waiting'[h] => "shutdown" \in waiting[h]
    BY <1>11 DEF RetryCleanup, TakeLock, TypeOK
  <2>3. \A h \in Generations : life'[h].role \in {life[h].role, role}
    BY <1>11 DEF RetryCleanup, BeginCleanup, TypeOK
  <2> QED
    BY <1>11, <2>1, <2>2, <2>3 DEF RetryCleanup, ActiveInv
<1>12. ASSUME NEW g \in Generations, NaturalCleanup(g) PROVE ActiveInv'
  <2>1. \A h \in Generations : "shutdown" \in waiting'[h] => "shutdown" \in waiting[h]
    BY <1>12 DEF NaturalCleanup, TakeLock, TypeOK
  <2>2. \A h \in Generations : life'[h].role \in {life[h].role, "natural"}
    BY <1>12 DEF NaturalCleanup, BeginCleanup, TypeOK
  <2> QED
    BY <1>12, <2>1, <2>2 DEF NaturalCleanup, ActiveInv
<1>13. ASSUME NEW g \in Generations, NEW role \in Roles, AbandonLock(g, role)
       PROVE  ActiveInv'
  <2>1. \A h \in Generations : "shutdown" \in waiting'[h] => "shutdown" \in waiting[h]
    BY <1>13 DEF AbandonLock, TypeOK
  <2>2. closer'.pc # "open" => closer.pc # "open" \/ role = "shutdown"
    BY <1>13 DEF AbandonLock, Return
  <2> QED
    BY <1>13, <2>1, <2>2 DEF AbandonLock, ActiveInv
<1>14. ASSUME NEW g \in Generations, CountRemaining(g) PROVE ActiveInv'
  <2>1. state[g] \notin Serving
    BY <1>14, HeldIsNotServing DEF CountRemaining
  <2>2. \A h \in Generations : life'[h].role \in {life[h].role, "none"}
    BY <1>14 DEF CountRemaining, BeginCleanup, ReleaseLock, FreeLife, TypeOK
  <2>3. active # None => state'[active] = "applied"
    BY <1>14, <2>1 DEF CountRemaining, Serving, ActiveInv, TypeOK
  <2>4. closer'.pc # "open" => closer.pc # "open" \/ life[g].role = "shutdown"
    BY <1>14 DEF CountRemaining, Return
  <2> QED
    BY <1>14, <2>2, <2>3, <2>4 DEF CountRemaining, ActiveInv
<1>15. ASSUME NEW g \in Generations, CleanupFails(g) \/ CleanupDone(g)
       PROVE  ActiveInv'
  <2>1. state[g] \notin Serving
    BY <1>15, HeldIsNotServing DEF CleanupFails, CleanupDone
  <2>2. \A h \in Generations : life'[h].role \in {life[h].role, "none"}
    BY <1>15 DEF CleanupFails, CleanupDone, ReleaseLock, FreeLife, TypeOK
  <2>3. active # None => state'[active] = "applied"
    BY <1>15, <2>1 DEF CleanupFails, CleanupDone, Serving, ActiveInv, TypeOK
  <2>4. closer'.pc # "open" => closer.pc # "open" \/ life[g].role = "shutdown"
    BY <1>15 DEF CleanupFails, CleanupDone, Return
  <2> QED
    BY <1>15, <2>2, <2>3, <2>4 DEF CleanupFails, CleanupDone, ActiveInv
<1>16. ASSUME NEW g \in Generations, DestroyAgain(g) PROVE ActiveInv'
  <2>1. \A h \in Generations : life'[h].role = life[h].role
    BY <1>16 DEF DestroyAgain, TypeOK, Life
  <2> QED
    BY <1>16, <2>1 DEF DestroyAgain, ActiveInv
<1>17. ASSUME Close PROVE ActiveInv'
  BY <1>17 DEF Close, ActiveInv
<1>18. ASSUME CloseNext PROVE ActiveInv'
  <2>1. closed /\ UNCHANGED <<active, closed, state, life>>
    BY <1>18 DEF CloseNext, ActiveInv
  <2> QED
    BY <2>1 DEF ActiveInv
<1>19. ASSUME UNCHANGED <<active, closed, state, waiting, life, closer>>
       PROVE  ActiveInv'
  BY <1>19 DEF ActiveInv
<1>20. ASSUME NEW s \in Sessions, NEW g \in Generations,
              \/ \E e \in Entities, i \in Ids : RegisterSession(s, g, e, i)
              \/ SkipProgressive(g, s)
       PROVE  ActiveInv'
  BY <1>19, <1>20 DEF RegisterSession, SkipProgressive
<1>21. ASSUME NEW k \in LoopKinds, NEW g \in Generations, ForceStep(k, g)
       PROVE  ActiveInv'
  BY <1>19, <1>21 DEF ForceStep, ClaimForce, CompleteForce, LoopNext
<1>22. ASSUME NEW g \in Generations, NEW success \in BOOLEAN,
              ProgressiveForced(g) \/ StartDestroy(g) \/ DestroyReturns(g, success)
       PROVE  ActiveInv'
  BY <1>19, <1>22 DEF ProgressiveForced, StartDestroy, DestroyReturns
<1>23. ASSUME NEW s \in Sessions, FinishNaturally(s) \/ RegistryFinish(s)
       PROVE  ActiveInv'
  BY <1>19, <1>23 DEF FinishNaturally, RegistryFinish
<1>24. ASSUME EntitiesForced \/ CancelActivate PROVE ActiveInv'
  BY <1>19, <1>24 DEF EntitiesForced, CancelActivate
<1>25. ASSUME CancelClose PROVE ActiveInv'
  BY <1>25 DEF CancelClose, ActiveInv, TypeOK, Closer
<1>26. ASSUME UNCHANGED vars PROVE ActiveInv'
  BY <1>19, <1>26 DEF vars
<1> QED
  BY <1>2, <1>3, <1>4, <1>5, <1>6, <1>7, <1>8, <1>9, <1>10, <1>11, <1>12, <1>13, <1>14,
     <1>15, <1>16, <1>17, <1>18, <1>20, <1>21, <1>22, <1>23, <1>24, <1>25, <1>26
  DEF Next, HandleStep, PublisherStep, TimerStep, LockStep, CleanupStep

\* Lock, Destroy and outcome fit the state of a generation.
LEMMA EntryNext ==
  ASSUME TypeOK, ActiveInv, EntryInv, EmptyInv, [Next]_vars PROVE EntryInv'
<1> USE DEF controller, entry, registry, callers
<1>1. ASSUME NEW g, OnSessionEmpty(g), UNCHANGED life PROVE EntryInv'
  <2>1. \/ UNCHANGED <<state, final, destroy>>
        \/ /\ state[g] = "draining"
           /\ state' = [state EXCEPT ![g] = "drained"]
           /\ final' = [final EXCEPT ![g] = "drained"]
           /\ UNCHANGED destroy
    BY <1>1 DEF OnSessionEmpty, DrainsNaturally
  <2> QED
    BY <1>1, <2>1 DEF EntryInv, Serving, TypeOK
<1>2. ASSUME NEW s \in Sessions, NotifyEmpty(s) PROVE EntryInv'
  BY <1>1, <1>2 DEF NotifyEmpty
<1>3. ASSUME ActivateNotify PROVE EntryInv'
  BY <1>1, <1>3 DEF ActivateNotify
<1>4. ASSUME NEW g \in Generations, NotifyRetired(g) PROVE EntryInv'
  BY <1>1, <1>4 DEF NotifyRetired
<1>5. ASSUME NEW g \in Generations, NEW kind \in TimerKinds,
             NEW r \in SUBSET Entities, Activate(g, kind, r)
      PROVE  EntryInv'
  <2>1. \A h \in Generations :
          state'[h] = state[h] \/ (state[h] \in Serving /\ state'[h] \in Serving)
    BY <1>5 DEF Activate, ActiveInv, Serving, TypeOK
  <2>2. UNCHANGED <<final, destroy, life>>
    BY <1>5 DEF Activate
  <2> QED
    BY <2>1, <2>2 DEF EntryInv, Serving
<1>6. ASSUME NEW g \in Generations, RetireActive(g) PROVE EntryInv'
  BY <1>6 DEF RetireActive, EntryInv, Serving, TypeOK
<1>7. ASSUME NEW g \in Generations, NEW role \in Roles, ForceGeneration(g, role)
      PROVE  EntryInv'
  <2>0. life[g].pc = "free" /\ destroy' = destroy
    BY <1>7 DEF ForceGeneration, TakeLock
  <2>1. CASE UNCHANGED <<entry, life>>
    BY <2>1 DEF EntryInv
  <2>2. CASE ~Released(g) /\ CleanupOnly(g) /\ BeginCleanup(g, role) /\ UNCHANGED entry
    <3>1. \A h \in Generations :
            life'[h] = life[h] \/ (h = g /\ life'[h].pc \in {"destroy", "resume"})
      BY <2>2 DEF BeginCleanup, TypeOK
    <3> QED
      BY <2>2, <3>1 DEF Released, CleanupOnly, EntryInv, Serving
  <2>3. CASE /\ ~Released(g) /\ ~CleanupOnly(g) /\ Forceable(g, role)
             /\ state' = [state EXCEPT ![g] = "forced"]
             /\ final' = [final EXCEPT ![g] = "forced"]
             /\ life' = [life EXCEPT ![g] = [role |-> role, pc |-> "force"]]
    <3>1. destroy[g] = "idle"
      <4>1. CASE state[g] \in Serving
        BY <4>1 DEF EntryInv
      <4>2. CASE state[g] \in {"cleanup_failed", "drained"}
        BY <2>3, <4>2 DEF CleanupOnly, EmptyInv
      <4>3. CASE state[g] = "forced"
        BY <2>0, <2>3, <4>3 DEF EntryInv, Released
      <4> QED
        BY <4>1, <4>2, <4>3 DEF TypeOK, DrainStates, Serving
    <3> QED
      BY <2>0, <2>3, <3>1 DEF EntryInv, Serving, TypeOK
  <2> QED
    BY <1>7, <2>1, <2>2, <2>3 DEF ForceGeneration
<1>8. ASSUME NEW g \in Generations, NEW role \in Roles, RetryCleanup(g, role)
      PROVE  EntryInv'
  <2>1. \/ UNCHANGED life
        \/ /\ state[g] = "cleanup_failed"
           /\ \A h \in Generations : life'[h] = life[h]
                \/ (h = g /\ life'[h].pc \in {"destroy", "resume"})
    BY <1>8 DEF RetryCleanup, BeginCleanup, TypeOK
  <2> QED
    BY <1>8, <2>1 DEF RetryCleanup, EntryInv, Serving, TypeOK
<1>9. ASSUME NEW g \in Generations, NaturalCleanup(g) PROVE EntryInv'
  <2>1. \/ UNCHANGED life
        \/ /\ state[g] = "drained" /\ ~Released(g)
           /\ \A h \in Generations : life'[h] = life[h]
                \/ (h = g /\ life'[h].pc \in {"destroy", "resume"})
    BY <1>9 DEF NaturalCleanup, BeginCleanup, TypeOK
  <2> QED
    BY <1>9, <2>1 DEF NaturalCleanup, Released, EntryInv, Serving
<1>10. ASSUME NEW g \in Generations, CountRemaining(g) PROVE EntryInv'
  <2>0. state[g] = "forced" /\ destroy[g] = "idle" /\ UNCHANGED <<final, destroy>>
    BY <1>10 DEF CountRemaining, EntryInv
  <2>1. CASE state' = [state EXCEPT ![g] = "cleanup_failed"] /\ ReleaseLock(g)
    BY <2>0, <2>1 DEF ReleaseLock, FreeLife, EntryInv, Serving, TypeOK
  <2>2. CASE BeginCleanup(g, life[g].role) /\ UNCHANGED state
    <3>1. \A h \in Generations :
            life'[h] = life[h] \/ (h = g /\ life'[h].pc \in {"destroy", "resume"})
      BY <2>2 DEF BeginCleanup, TypeOK
    <3> QED
      BY <2>0, <2>2, <3>1 DEF EntryInv, Serving
  <2> QED
    BY <1>10, <2>1, <2>2 DEF CountRemaining
<1>11. ASSUME NEW g \in Generations, StartDestroy(g) PROVE EntryInv'
  BY <1>11 DEF StartDestroy, EntryInv, Serving, TypeOK
<1>12. ASSUME NEW g \in Generations, NEW success \in BOOLEAN,
              DestroyReturns(g, success)
       PROVE  EntryInv'
  <2>1. \A h \in Generations : \/ destroy'[h] = destroy[h]
                               \/ h = g /\ destroy'[h] \in {"ok", "failed"}
    BY <1>12 DEF DestroyReturns, TypeOK
  <2> QED
    BY <1>12, <2>1 DEF DestroyReturns, EntryInv, Serving
<1>13. ASSUME NEW g \in Generations, DestroyAgain(g) PROVE EntryInv'
  <2>1. \A h \in Generations :
          life'[h] = life[h] \/ (h = g /\ life'[h].pc = "destroy")
    BY <1>13 DEF DestroyAgain, TypeOK, Life
  <2>2. state[g] \notin Serving
    BY <1>13, HeldIsNotServing DEF DestroyAgain
  <2> QED
    BY <1>13, <2>1, <2>2 DEF DestroyAgain, EntryInv, Serving, TypeOK
<1>14. ASSUME NEW g \in Generations, CleanupFails(g) PROVE EntryInv'
  <2>1. state[g] \notin Serving
    BY <1>14, HeldIsNotServing DEF CleanupFails
  <2>2. destroy'[g] # "destroyed" /\ \A h \in Generations : h # g => destroy'[h] = destroy[h]
    BY <1>14 DEF CleanupFails, TypeOK
  <2>3. /\ life' = [life EXCEPT ![g] = FreeLife]
        /\ state' = [state EXCEPT ![g] = "cleanup_failed"]
        /\ final' = final
    BY <1>14 DEF CleanupFails, ReleaseLock
  <2> QED
    BY <2>1, <2>2, <2>3 DEF FreeLife, EntryInv, Serving, TypeOK
<1>15. ASSUME NEW g \in Generations, CleanupDone(g) PROVE EntryInv'
  <2>1. state[g] \notin Serving
    BY <1>15, HeldIsNotServing DEF CleanupDone
  <2>2. final[g] \in {"drained", "forced"}
    BY <2>1 DEF EntryInv, TypeOK
  <2>3. /\ life' = [life EXCEPT ![g] = FreeLife]
        /\ state' = [state EXCEPT ![g] = final[g]]
        /\ destroy' = [destroy EXCEPT ![g] = "destroyed"]
        /\ final' = final
    BY <1>15 DEF CleanupDone, ReleaseLock
  <2> QED
    BY <2>2, <2>3 DEF FreeLife, EntryInv, Serving, TypeOK
<1>16. ASSUME UNCHANGED <<state, final, destroy, life>> PROVE EntryInv'
  BY <1>16 DEF EntryInv
<1>17. ASSUME NEW s \in Sessions, NEW g \in Generations,
              \/ \E e \in Entities, i \in Ids : RegisterSession(s, g, e, i)
              \/ SkipProgressive(g, s)
       PROVE  EntryInv'
  BY <1>16, <1>17 DEF RegisterSession, SkipProgressive
<1>18. ASSUME NEW s \in Sessions, FinishNaturally(s) \/ RegistryFinish(s)
       PROVE  EntryInv'
  BY <1>16, <1>18 DEF FinishNaturally, RegistryFinish
<1>19. ASSUME NEW k \in LoopKinds, NEW g \in Generations, ForceStep(k, g)
       PROVE  EntryInv'
  BY <1>16, <1>19 DEF ForceStep, ClaimForce, CompleteForce, LoopNext
<1>20. ASSUME NEW g \in Generations, NEW role \in Roles,
              \/ DrainTimerFires(g) \/ RetryTimerFires(g) \/ ProgressiveForced(g)
              \/ AbandonLock(g, role)
       PROVE  EntryInv'
  BY <1>16, <1>20 DEF DrainTimerFires, RetryTimerFires, ProgressiveForced, AbandonLock
<1>21. ASSUME \/ EntitiesForced \/ EnforceLimit \/ CancelActivate
              \/ Close \/ CloseNext \/ CancelClose
       PROVE  EntryInv'
  BY <1>16, <1>21
  DEF EntitiesForced, EnforceLimit, CancelActivate, Close, CloseNext, CancelClose
<1>22. ASSUME UNCHANGED vars PROVE EntryInv'
  BY <1>16, <1>22 DEF vars
<1>23. "natural" \in Roles
  BY DEF Roles
<1> QED
  BY <1>2, <1>3, <1>4, <1>5, <1>6, <1>7, <1>8, <1>9, <1>10, <1>11, <1>12, <1>13, <1>14,
     <1>15, <1>17, <1>18, <1>19, <1>20, <1>21, <1>22, <1>23
  DEF Next, HandleStep, PublisherStep, TimerStep, LockStep, CleanupStep

\* What the transitions of a session handle do to the fields of its record.
LEMMA RecordFields ==
  ASSUME NEW r \in Record
  PROVE  /\ Finished(r).gen = r.gen /\ Finished(r).entity = r.entity
         /\ Finished(r).handle = "finished" /\ Finished(r).unregister = "remove"
         /\ FinishLater(r).gen = r.gen /\ FinishLater(r).entity = r.entity
         /\ FinishLater(r).handle = r.handle
         /\ FinishLater(r).unregister = r.unregister
         /\ FinishLater(r).closeFailed = r.closeFailed
         /\ MadeTerminal(r).gen = r.gen /\ MadeTerminal(r).entity = r.entity
         /\ MadeTerminal(r).handle = r.handle
         /\ MadeTerminal(r).unregister = r.unregister
         /\ MadeTerminal(r).closeFailed = r.closeFailed
         /\ Reopened(r).gen = r.gen /\ Reopened(r).entity = r.entity
         /\ Reopened(r).handle = "active"
         /\ Reopened(r).unregister = r.unregister
         /\ Reopened(r).closeFailed = TRUE
         /\ \A b \in BOOLEAN :
              /\ Claimed(r, b).gen = r.gen /\ Claimed(r, b).entity = r.entity
              /\ Claimed(r, b).handle = "forcing"
              /\ Claimed(r, b).unregister = r.unregister
         /\ \A u \in {"none", "notify"} :
              /\ Unregister(r, u).gen = r.gen /\ Unregister(r, u).entity = r.entity
              /\ Unregister(r, u).handle = r.handle
              /\ Unregister(r, u).unregister = u
              /\ Unregister(r, u).closeFailed = r.closeFailed
BY DEF Record, Finished, FinishLater, Claimed, MadeTerminal, Reopened, Unregister

\* One step of a handle or of a force loop changes one record by one of these
\* transitions, and takes only a finished record out of the registry.
RecordStep(s) ==
  \/ /\ rec[s].handle \in {"active", "forcing"}
     /\ rec' = [rec EXCEPT ![s] = Finished(@)]
     /\ UNCHANGED registered
  \/ rec' = [rec EXCEPT ![s] = FinishLater(@)] /\ UNCHANGED registered
  \/ /\ rec[s].handle = "active"
     /\ \E b \in BOOLEAN : rec' = [rec EXCEPT ![s] = Claimed(@, b)]
     /\ UNCHANGED registered
  \/ rec' = [rec EXCEPT ![s] = MadeTerminal(@)] /\ UNCHANGED registered
  \/ /\ rec[s].handle = "forcing"
     /\ rec' = [rec EXCEPT ![s] = Reopened(@)]
     /\ UNCHANGED registered
  \/ /\ rec[s].unregister = "remove"
     /\ rec' = AfterRemoval(s)
     /\ registered' = registered \ {s}
  \/ /\ rec[s].unregister = "notify"
     /\ rec' = [rec EXCEPT ![s] = Unregister(@, "none")]
     /\ UNCHANGED registered
     /\ OnSessionEmpty(rec[s].gen)
  \/ /\ rec[s].handle = "finished"
     /\ rec[s].unregister # "remove"
     /\ UNCHANGED rec
     /\ registered' = registered \ {s}
  \/ UNCHANGED registry

\* The steps of handles and force loops are record steps.
LEMMA StepsOfRecords ==
  /\ TypeOK => \A s \in Sessions : FinishNaturally(s) \/ HandleStep(s) => RecordStep(s)
  /\ TypeOK => \A k \in LoopKinds, g \in Generations :
       ForceStep(k, g) => \E s \in Sessions : RecordStep(s)
<1> USE DEF registry
<1> SUFFICES ASSUME TypeOK
             PROVE  /\ \A s \in Sessions :
                         FinishNaturally(s) \/ HandleStep(s) => RecordStep(s)
                    /\ \A k \in LoopKinds, g \in Generations :
                         ForceStep(k, g) => \E s \in Sessions : RecordStep(s)
  OBVIOUS
<1>1. ASSUME NEW s \in Sessions, FinishNaturally(s) PROVE RecordStep(s)
  BY <1>1 DEF FinishNaturally, RecordStep
<1>2. ASSUME NEW s \in Sessions, RegistryFinish(s) PROVE RecordStep(s)
  BY <1>2 DEF RegistryFinish, Without, RecordStep
<1>3. ASSUME NEW s \in Sessions, NotifyEmpty(s) PROVE RecordStep(s)
  BY <1>3 DEF NotifyEmpty, RecordStep
<1>4. ASSUME NEW k \in LoopKinds, NEW g \in Generations, NEW s \in Sessions,
             ClaimForce(k, g, s)
      PROVE  RecordStep(s)
  <2>1. Terminal(k) \in BOOLEAN
    BY DEF Terminal
  <2> QED
    BY <1>4, <2>1 DEF ClaimForce, Without, RecordStep
<1>5. ASSUME NEW k \in LoopKinds, NEW g \in Generations, NEW success \in BOOLEAN,
             CompleteForce(k, g, success)
      PROVE  \E s \in Sessions : RecordStep(s)
  <2> DEFINE s == loop[<<k, g>>].current
  <2>1. s \in Sessions
    BY <1>5, LoopAt DEF CompleteForce
  <2>2. RecordStep(s)
    BY <1>5 DEF CompleteForce, RecordStep
  <2> QED
    BY <2>1, <2>2
<1>6. ASSUME NEW k \in LoopKinds, NEW g \in Generations, LoopNext(k, g)
      PROVE  \E s \in Sessions : RecordStep(s)
  <2> DEFINE s == loop[<<k, g>>].current
  <2>1. s \in Sessions
    BY <1>6, LoopAt DEF LoopNext
  <2>2. RecordStep(s)
    BY <1>6 DEF LoopNext, RecordStep
  <2> QED
    BY <2>1, <2>2
<1> QED
  BY <1>1, <1>2, <1>3, <1>4, <1>5, <1>6 DEF HandleStep, ForceStep

\* A record step keeps the identity of every record, brings no finished handle
\* back, and leaves a handle active only as it was or after a failed close.
LEMMA RecordStepKeeps ==
  ASSUME TypeOK, RecordInv, NEW s \in Sessions, RecordStep(s)
  PROVE  /\ registered' \subseteq registered
         /\ registered \ {s} \subseteq registered'
         /\ \A t \in Sessions :
              /\ rec'[t].gen = rec[t].gen /\ rec'[t].entity = rec[t].entity
              /\ rec'[t].handle = "unused" <=> rec[t].handle = "unused"
              /\ rec'[t].handle = "active" =>
                   \/ rec'[t].closeFailed = TRUE
                   \/ /\ rec[t].handle = "active"
                      /\ rec'[t].closeFailed = rec[t].closeFailed
         /\ RecordInv'
<1> DEFINE Good(q) ==
      /\ q.gen = rec[s].gen /\ q.entity = rec[s].entity
      /\ q.handle = "unused" <=> rec[s].handle = "unused"
      /\ q.handle \in {"active", "forcing"} =>
           q.unregister = "none" /\ rec[s].handle \in {"active", "forcing"}
      /\ q.handle = "active" =>
           \/ q.closeFailed = TRUE
           \/ rec[s].handle = "active" /\ q.closeFailed = rec[s].closeFailed
<1>1. rec[s] \in Record /\ registered \subseteq Sessions
  BY DEF TypeOK
<1>2. rec[s].handle \in {"active", "forcing"} => rec[s].unregister = "none"
  BY DEF RecordInv
<1>3. /\ rec[s].handle \in {"active", "forcing"} => Good(Finished(rec[s]))
      /\ Good(FinishLater(rec[s])) /\ Good(MadeTerminal(rec[s])) /\ Good(rec[s])
  <2>1. rec[s].handle \in {"active", "forcing"} => Good(Finished(rec[s]))
    BY <1>1, RecordFields
  <2>2. Good(FinishLater(rec[s]))
    BY <1>1, <1>2, RecordFields
  <2>3. Good(MadeTerminal(rec[s]))
    BY <1>1, <1>2, RecordFields
  <2>4. Good(rec[s])
    BY <1>2
  <2> QED
    BY <2>1, <2>2, <2>3, <2>4
<1>4. rec[s].handle = "active" => \A b \in BOOLEAN : Good(Claimed(rec[s], b))
  BY <1>1, <1>2, RecordFields
<1>5. rec[s].handle = "forcing" => Good(Reopened(rec[s]))
  BY <1>1, <1>2, RecordFields
<1>6. ASSUME rec[s].unregister # "none", NEW u \in {"none", "notify"}
      PROVE  /\ Good(Unregister(rec[s], u))
             /\ Unregister(rec[s], u).handle \notin {"active", "forcing"}
  <2> DEFINE q == Unregister(rec[s], u)
  <2>1. /\ q.gen = rec[s].gen /\ q.entity = rec[s].entity
        /\ q.handle = rec[s].handle
    BY <1>1, RecordFields
  <2>2. rec[s].handle \notin {"active", "forcing"}
    BY <1>2, <1>6
  <2> HIDE DEF q
  <2>3. Good(q)
    BY <2>1, <2>2
  <2> QED
    BY <2>1, <2>2, <2>3 DEF q
<1> HIDE DEF Good
<1>7. \E q : /\ Good(q) /\ rec' = [rec EXCEPT ![s] = q]
             /\ \/ registered' = registered
                \/ registered' = registered \ {s} /\ q.handle \notin {"active", "forcing"}
  <2>1. CASE /\ UNCHANGED registered
             /\ \/ /\ rec[s].handle \in {"active", "forcing"}
                   /\ rec' = [rec EXCEPT ![s] = Finished(@)]
                \/ rec' = [rec EXCEPT ![s] = FinishLater(@)]
                \/ rec' = [rec EXCEPT ![s] = MadeTerminal(@)]
    BY <1>3, <2>1
  <2>2. CASE /\ rec[s].handle = "active" /\ UNCHANGED registered
             /\ \E b \in BOOLEAN : rec' = [rec EXCEPT ![s] = Claimed(@, b)]
    BY <1>4, <2>2
  <2>3. CASE /\ rec[s].handle = "forcing" /\ UNCHANGED registered
             /\ rec' = [rec EXCEPT ![s] = Reopened(@)]
    BY <1>5, <2>3
  <2>4. CASE /\ rec[s].unregister # "none"
             /\ \E u \in {"none", "notify"} : rec' = [rec EXCEPT ![s] = Unregister(@, u)]
             /\ registered' \in {registered, registered \ {s}}
    BY <1>6, <2>4
  <2>5. CASE /\ UNCHANGED rec
             /\ \/ rec[s].handle = "finished" /\ registered' = registered \ {s}
                \/ registered' = registered
    <3>1. rec' = [rec EXCEPT ![s] = rec[s]]
      BY <2>5 DEF TypeOK
    <3> QED
      BY <1>3, <2>5, <3>1
  <2> QED
    BY <2>1, <2>2, <2>3, <2>4, <2>5 DEF RecordStep, AfterRemoval, registry
<1>8. PICK q : /\ Good(q) /\ rec' = [rec EXCEPT ![s] = q]
               /\ \/ registered' = registered
                  \/ registered' = registered \ {s} /\ q.handle \notin {"active", "forcing"}
  BY <1>7
<1>9. rec'[s] = q /\ \A t \in Sessions : t # s => rec'[t] = rec[t]
  BY <1>8 DEF TypeOK
<1>10. RecordInv'
  BY <1>8, <1>9 DEF RecordInv, Good
<1> QED
  BY <1>8, <1>9, <1>10 DEF Good

\* The actions that leave records and registry alone.
ControllerStep ==
  \/ \E g \in Generations, s \in Sessions : SkipProgressive(g, s)
  \/ \E g \in Generations, kind \in TimerKinds, r \in SUBSET Entities :
        Activate(g, kind, r)
  \/ PublisherStep
  \/ CancelActivate
  \/ \E g \in Generations : RetireActive(g)
  \/ \E g \in Generations : TimerStep(g) \/ LockStep(g) \/ CleanupStep(g)
  \/ \E g \in Generations, success \in BOOLEAN : DestroyReturns(g, success)
  \/ Close \/ CloseNext \/ CancelClose

\* They do leave them alone.
LEMMA ControllerKeepsRegistry == ControllerStep => UNCHANGED registry
<1> USE DEF registry
<1>1. (\E g \in Generations, s \in Sessions : SkipProgressive(g, s)) => UNCHANGED registry
  BY DEF SkipProgressive
<1>2. ASSUME NEW g \in Generations, NEW kind \in TimerKinds, NEW r \in SUBSET Entities,
             Activate(g, kind, r)
      PROVE  UNCHANGED registry
  BY <1>2 DEF Activate
<1>3. PublisherStep \/ CancelActivate => UNCHANGED registry
  BY DEF PublisherStep, EntitiesForced, ActivateNotify, EnforceLimit, CancelActivate
<1>4. ASSUME NEW g \in Generations, RetireActive(g) \/ TimerStep(g) PROVE UNCHANGED registry
  BY <1>4 DEF RetireActive, TimerStep, DrainTimerFires, RetryTimerFires,
              ProgressiveForced, NotifyRetired
<1>5. ASSUME NEW g \in Generations, LockStep(g) PROVE UNCHANGED registry
  BY <1>5 DEF LockStep, ForceGeneration, RetryCleanup, AbandonLock, NaturalCleanup
<1>6. ASSUME NEW g \in Generations, CleanupStep(g) PROVE UNCHANGED registry
  BY <1>6 DEF CleanupStep, CountRemaining, StartDestroy, DestroyAgain, CleanupFails,
              CleanupDone
<1>7. (\E g \in Generations, success \in BOOLEAN : DestroyReturns(g, success))
        => UNCHANGED registry
  BY DEF DestroyReturns
<1>8. Close \/ CloseNext \/ CancelClose => UNCHANGED registry
  BY DEF Close, CloseNext, CancelClose
<1> QED
  BY <1>1, <1>2, <1>3, <1>4, <1>5, <1>6, <1>7, <1>8 DEF ControllerStep

\* The steps that change records, apart from a registration.
RegistryStep ==
  \/ \E s \in Sessions : FinishNaturally(s) \/ HandleStep(s)
  \/ \E k \in LoopKinds, g \in Generations : ForceStep(k, g)

\* Next, by what it does to the registry.
LEMMA NextSplit ==
  ASSUME [Next]_vars
  PROVE  \/ \E s \in Sessions, g \in Generations, e \in Entities, i \in Ids :
              RegisterSession(s, g, e, i)
         \/ RegistryStep
         \/ ControllerStep
         \/ UNCHANGED vars
BY DEF Next, RegistryStep, ControllerStep

\* A registration adds one active record under a key nobody else has.
LEMMA RegistrationAdds ==
  ASSUME TypeOK, NEW s \in Sessions, NEW g \in Generations, NEW e \in Entities,
         NEW i \in Ids, RegisterSession(s, g, e, i)
  PROVE  /\ registered' = registered \union {s}
         /\ rec'[s].gen = g /\ rec'[s].entity = e /\ rec'[s].handle = "active"
         /\ rec'[s].unregister = "none"
         /\ \A t \in Sessions : t # s => rec'[t] = rec[t]
<1>1. rec'[s] = NewRecord(g, e, i) /\ \A t \in Sessions : t # s => rec'[t] = rec[t]
  BY DEF RegisterSession, TypeOK
<1>2. /\ NewRecord(g, e, i).gen = g /\ NewRecord(g, e, i).entity = e
      /\ NewRecord(g, e, i).handle = "active" /\ NewRecord(g, e, i).unregister = "none"
  BY DEF NewRecord, UnusedRecord
<1> QED
  BY <1>1, <1>2 DEF RegisterSession

\* A live handle is registered and its removal has not begun.
LEMMA RecordNext == ASSUME TypeOK, RecordInv, [Next]_vars PROVE RecordInv'
<1>1. ASSUME NEW s \in Sessions, NEW g \in Generations, NEW e \in Entities,
             NEW i \in Ids, RegisterSession(s, g, e, i)
      PROVE  RecordInv'
  BY <1>1, RegistrationAdds DEF RecordInv
<1>2. CASE RegistryStep
  BY <1>2, StepsOfRecords, RecordStepKeeps DEF RegistryStep
<1>3. CASE ControllerStep
  BY <1>3, ControllerKeepsRegistry DEF registry, RecordInv
<1>4. CASE UNCHANGED vars
  BY <1>4 DEF vars, registry, RecordInv
<1> QED
  BY <1>1, <1>2, <1>3, <1>4, NextSplit

\* Sessions never reach a generation that is drained or being cleaned up.
LEMMA EmptyNext ==
  ASSUME TypeOK, ActiveInv, EntryInv, RecordInv, EmptyInv, [Next]_vars PROVE EmptyInv'
<1> USE DEF controller, entry, registry, callers
<1>1. ASSUME NEW s \in Sessions, NEW g \in Generations, NEW e \in Entities,
             NEW i \in Ids, RegisterSession(s, g, e, i)
      PROVE  EmptyInv'
  <2>1. UNCHANGED <<state, life, destroy>> /\ state[g] \in {"applied", "draining"}
    BY <1>1 DEF RegisterSession, Accepting
  <2>2. \A h \in Generations : h # g => SessionsOf(h)' \subseteq SessionsOf(h)
    BY <1>1, RegistrationAdds DEF SessionsOf, TypeOK
  <2> QED
    BY <2>1, <2>2 DEF EmptyInv, EntryInv, Serving
<1>2. ASSUME NEW g, OnSessionEmpty(g)
      PROVE  /\ UNCHANGED destroy
             /\ \/ UNCHANGED state
                \/ state' = [state EXCEPT ![g] = "drained"] /\ SessionsOf(g) = {}
  BY <1>2 DEF OnSessionEmpty
<1>3. CASE RegistryStep
  <2>1. \A h \in Generations : SessionsOf(h)' \subseteq SessionsOf(h)
    BY <1>3, StepsOfRecords, RecordStepKeeps DEF RegistryStep, SessionsOf, TypeOK
  <2>2. CASE UNCHANGED <<state, life, destroy>>
    BY <2>1, <2>2 DEF EmptyInv
  <2>3. CASE \E s \in Sessions : NotifyEmpty(s)
    <3>1. PICK s \in Sessions : NotifyEmpty(s)
      BY <2>3
    <3>2. OnSessionEmpty(rec[s].gen) /\ UNCHANGED life
      BY <3>1 DEF NotifyEmpty
    <3> QED
      BY <2>1, <3>2, <1>2 DEF EmptyInv, TypeOK
  <2>4. ASSUME NEW s \in Sessions, FinishNaturally(s) \/ RegistryFinish(s)
        PROVE  EmptyInv'
    BY <2>2, <2>4 DEF FinishNaturally, RegistryFinish
  <2>5. ASSUME NEW k \in LoopKinds, NEW g \in Generations, ForceStep(k, g)
        PROVE  EmptyInv'
    BY <2>2, <2>5 DEF ForceStep, ClaimForce, CompleteForce, LoopNext
  <2> QED
    BY <1>3, <2>3, <2>4, <2>5 DEF RegistryStep, HandleStep
<1>4. CASE ControllerStep
  <2>0. \A h \in Generations : SessionsOf(h)' = SessionsOf(h)
    BY <1>4, ControllerKeepsRegistry DEF SessionsOf
  <2>1. CASE UNCHANGED <<state, life, destroy>>
    BY <2>0, <2>1 DEF EmptyInv
  <2>2. ASSUME NEW g, OnSessionEmpty(g), UNCHANGED life PROVE EmptyInv'
    BY <1>2, <2>0, <2>2 DEF EmptyInv, TypeOK
  <2>3. CASE PublisherStep \/ CancelActivate \/ Close \/ CloseNext \/ CancelClose
    BY <2>1, <2>2, <2>3 DEF PublisherStep, EntitiesForced, ActivateNotify, EnforceLimit,
       CancelActivate, Close, CloseNext, CancelClose
  <2>4. ASSUME NEW g \in Generations, TimerStep(g) PROVE EmptyInv'
    BY <2>1, <2>2, <2>4 DEF TimerStep, DrainTimerFires, RetryTimerFires,
       ProgressiveForced, NotifyRetired
  <2>5. ASSUME NEW g \in Generations, NEW kind \in TimerKinds,
               NEW r \in SUBSET Entities, Activate(g, kind, r)
        PROVE  EmptyInv'
    <3>1. /\ \A h \in Generations : state'[h] \in {state[h], "applied", "draining"}
          /\ UNCHANGED <<life, destroy>>
      BY <2>5 DEF Activate, TypeOK
    <3> QED
      BY <2>0, <3>1 DEF EmptyInv
  <2>6. ASSUME NEW g \in Generations, RetireActive(g) PROVE EmptyInv'
    BY <2>0, <2>6 DEF RetireActive, EmptyInv, TypeOK
  <2>7. ASSUME NEW g \in Generations, NEW role \in Roles, ForceGeneration(g, role)
        PROVE  EmptyInv'
    <3>1. /\ destroy' = destroy
          /\ \A h \in Generations : state'[h] \in {state[h], "forced"}
          /\ \A h \in Generations : \/ life'[h] = life[h]
                                    \/ life'[h].pc = "force"
                                    \/ h = g /\ SessionsOf(g) = {}
      BY <2>7 DEF ForceGeneration, BeginCleanup, CleanupOnly, TypeOK
    <3> QED
      BY <2>0, <3>1 DEF EmptyInv
  <2>8. ASSUME NEW g \in Generations, NEW role \in Roles, RetryCleanup(g, role)
        PROVE  EmptyInv'
    <3>1. /\ UNCHANGED <<destroy, state>>
          /\ \A h \in Generations : life'[h] = life[h] \/ (h = g /\ SessionsOf(g) = {})
      BY <2>8 DEF RetryCleanup, BeginCleanup, TypeOK
    <3> QED
      BY <2>0, <3>1 DEF EmptyInv
  <2>9. ASSUME NEW g \in Generations, NaturalCleanup(g) PROVE EmptyInv'
    <3>1. /\ UNCHANGED <<destroy, state>>
          /\ \A h \in Generations : life'[h] = life[h] \/ (h = g /\ state[g] = "drained")
      BY <2>9 DEF NaturalCleanup, BeginCleanup, TypeOK
    <3> QED
      BY <2>0, <3>1 DEF EmptyInv
  <2>10. ASSUME NEW g \in Generations, NEW role \in Roles, AbandonLock(g, role)
         PROVE  EmptyInv'
    BY <2>1, <2>10 DEF AbandonLock
  <2>11. ASSUME NEW g \in Generations, CountRemaining(g) PROVE EmptyInv'
    <3>1. /\ UNCHANGED destroy
          /\ \A h \in Generations : state'[h] \in {state[h], "cleanup_failed"}
          /\ \A h \in Generations : \/ life'[h] = life[h]
                                    \/ life'[h].pc = "free"
                                    \/ h = g /\ SessionsOf(g) = {}
      BY <2>11 DEF CountRemaining, Remaining, BeginCleanup, ReleaseLock, FreeLife, TypeOK
    <3> QED
      BY <2>0, <3>1 DEF EmptyInv
  <2>12. ASSUME NEW g \in Generations, StartDestroy(g) \/ DestroyAgain(g) PROVE EmptyInv'
    <3>1. /\ UNCHANGED state
          /\ \A h \in Generations : h # g => destroy'[h] = destroy[h] /\ life'[h] = life[h]
          /\ SessionsOf(g) = {}
      BY <2>12 DEF StartDestroy, DestroyAgain, EmptyInv, TypeOK
    <3> QED
      BY <2>0, <3>1 DEF EmptyInv
  <2>13. ASSUME NEW g \in Generations, NEW success \in BOOLEAN, DestroyReturns(g, success)
         PROVE  EmptyInv'
    <3>1. /\ UNCHANGED <<state, life>>
          /\ \A h \in Generations : h # g => destroy'[h] = destroy[h]
          /\ SessionsOf(g) = {}
      BY <2>13 DEF DestroyReturns, EmptyInv, TypeOK
    <3> QED
      BY <2>0, <3>1 DEF EmptyInv
  <2>14. ASSUME NEW g \in Generations, CleanupFails(g) \/ CleanupDone(g) PROVE EmptyInv'
    <3>1. SessionsOf(g) = {}
      BY <2>14 DEF CleanupFails, CleanupDone, EmptyInv
    <3>2. \A h \in Generations : h # g => /\ destroy'[h] = destroy[h]
                                          /\ state'[h] = state[h]
                                          /\ life'[h] = life[h]
      BY <2>14 DEF CleanupFails, CleanupDone, ReleaseLock, TypeOK
    <3> QED
      BY <2>0, <3>1, <3>2 DEF EmptyInv
  <2>15. ASSUME NEW g \in Generations, NEW s \in Sessions, SkipProgressive(g, s)
         PROVE  EmptyInv'
    BY <2>1, <2>15 DEF SkipProgressive
  <2> QED
    BY <1>4, <2>3, <2>4, <2>5, <2>6, <2>7, <2>8, <2>9, <2>10, <2>11, <2>12, <2>13, <2>14,
       <2>15
    DEF ControllerStep, LockStep, CleanupStep
<1>5. CASE UNCHANGED vars
  BY <1>5 DEF vars, EmptyInv, SessionsOf
<1> QED
  BY <1>1, <1>3, <1>4, <1>5, NextSplit

\* Activate waits for the force it asked for, and no other runs in its name.
LEMMA CallerNext == ASSUME TypeOK, CallerInv, [Next]_vars PROVE CallerInv'
<1> USE DEF controller, entry, registry, callers
<1>1. ASSUME UNCHANGED <<pub, life>>,
             \A g \in Generations : "limit" \in waiting'[g] => "limit" \in waiting[g]
      PROVE  CallerInv'
  BY <1>1 DEF CallerInv
<1>2. ASSUME pub.pc # "forcing", UNCHANGED life,
             \A g \in Generations : "limit" \in waiting'[g] => "limit" \in waiting[g]
      PROVE  CallerInv'
  BY <1>2 DEF CallerInv
<1>3. ASSUME NEW g, OnSessionEmpty(g)
      PROVE  \A h \in Generations : "limit" \in waiting'[h] => "limit" \in waiting[h]
  BY <1>3 DEF OnSessionEmpty, TypeOK
<1>4. ASSUME NEW s \in Sessions, HandleStep(s) \/ FinishNaturally(s) PROVE CallerInv'
  BY <1>1, <1>3, <1>4 DEF HandleStep, FinishNaturally, RegistryFinish, NotifyEmpty
<1>5. ASSUME NEW k \in LoopKinds, NEW g \in Generations, ForceStep(k, g) PROVE CallerInv'
  BY <1>1, <1>5 DEF ForceStep, ClaimForce, CompleteForce, LoopNext
<1>6. ASSUME NEW g \in Generations, NEW kind \in TimerKinds, NEW r \in SUBSET Entities,
             Activate(g, kind, r)
      PROVE  CallerInv'
  BY <1>2, <1>6 DEF Activate
<1>7. ASSUME EntitiesForced \/ ActivateNotify PROVE CallerInv'
  BY <1>2, <1>3, <1>7 DEF EntitiesForced, ActivateNotify
<1>8. ASSUME EnforceLimit PROVE CallerInv'
  <2>1. CASE UNCHANGED waiting
    BY <1>2, <1>8, <2>1 DEF EnforceLimit
  <2>2. CASE \E n \in Candidates :
               /\ pub' = [pub EXCEPT !.pc = "forcing", !.gen = order[n],
                                     !.attempted = @ \union {order[n]}]
               /\ waiting' = [waiting EXCEPT ![order[n]] = @ \union {"limit"}]
    <3>1. PICK n \in Candidates :
               /\ pub' = [pub EXCEPT !.pc = "forcing", !.gen = order[n],
                                     !.attempted = @ \union {order[n]}]
               /\ waiting' = [waiting EXCEPT ![order[n]] = @ \union {"limit"}]
      BY <2>2
    <3>2. pub'.pc = "forcing" /\ pub'.gen = order[n]
      BY <3>1 DEF TypeOK, Publisher
    <3>3. /\ \A g \in Generations : "limit" \notin waiting[g] /\ life[g].role # "limit"
          /\ UNCHANGED life
      BY <1>8 DEF EnforceLimit, CallerInv
    <3>4. \A g \in Generations : "limit" \in waiting'[g] => g = order[n]
      BY <3>1, <3>3 DEF TypeOK
    <3> QED
      BY <3>2, <3>3, <3>4 DEF CallerInv
  <2> QED
    BY <1>8, <2>1, <2>2 DEF EnforceLimit
<1>9. ASSUME CancelActivate PROVE CallerInv'
  <2>1. pub'.pc = pub.pc /\ pub'.gen = pub.gen
    BY <1>9 DEF CancelActivate, TypeOK, Publisher
  <2> QED
    BY <1>9, <2>1 DEF CancelActivate, CallerInv
<1>10. ASSUME NEW g \in Generations, RetireActive(g) \/ TimerStep(g) PROVE CallerInv'
  <2>1. CASE RetireActive(g) \/ ProgressiveForced(g) \/ NotifyRetired(g)
    BY <1>1, <1>3, <2>1 DEF RetireActive, ProgressiveForced, NotifyRetired
  <2>2. CASE DrainTimerFires(g) \/ RetryTimerFires(g)
    <3>1. \A h \in Generations : "limit" \in waiting'[h] => "limit" \in waiting[h]
      BY <2>2 DEF DrainTimerFires, RetryTimerFires, TypeOK
    <3> QED
      BY <1>1, <2>2, <3>1 DEF DrainTimerFires, RetryTimerFires
  <2> QED
    BY <1>10, <2>1, <2>2 DEF TimerStep
<1>11. ASSUME NEW g \in Generations, NEW role, TakeLock(g, role),
              \/ UNCHANGED life /\ Return(role)
              \/ UNCHANGED pub /\ \E p : life' = [life EXCEPT ![g] = [role |-> role, pc |-> p]]
       PROVE  CallerInv'
  <2>1. /\ waiting' = [waiting EXCEPT ![g] = @ \ {role}]
        /\ role \in waiting[g]
    BY <1>11 DEF TakeLock
  <2>2. CASE UNCHANGED life /\ Return(role)
    <3>1. CASE role = "limit"
      BY <2>1, <2>2, <3>1 DEF CallerInv, TypeOK
    <3>2. CASE role # "limit"
      BY <1>1, <2>1, <2>2, <3>2 DEF Return, TypeOK
    <3> QED
      BY <3>1, <3>2
  <2>3. CASE UNCHANGED pub /\ \E p : life' = [life EXCEPT ![g] = [role |-> role, pc |-> p]]
    <3>1. life'[g].role = role /\ \A h \in Generations : h # g => life'[h] = life[h]
      BY <2>3 DEF TypeOK
    <3> QED
      BY <2>1, <2>3, <3>1 DEF CallerInv, TypeOK
  <2> QED
    BY <1>11, <2>2, <2>3
<1>12. ASSUME NEW g \in Generations, NEW role \in Roles, ForceGeneration(g, role)
       PROVE  CallerInv'
  BY <1>11, <1>12 DEF ForceGeneration, BeginCleanup
<1>13. ASSUME NEW g \in Generations, NEW role \in Roles, RetryCleanup(g, role)
       PROVE  CallerInv'
  <2>1. TakeLock(g, role) /\ UNCHANGED pub /\ role # "limit"
    BY <1>13 DEF RetryCleanup, RetryRoles
  <2>2. CASE UNCHANGED life
    BY <1>1, <2>1, <2>2 DEF TakeLock, TypeOK
  <2>3. CASE BeginCleanup(g, role)
    BY <1>11, <2>1, <2>3 DEF BeginCleanup
  <2> QED
    BY <1>13, <2>2, <2>3 DEF RetryCleanup
<1>14. ASSUME NEW g \in Generations, NaturalCleanup(g) PROVE CallerInv'
  <2>1. TakeLock(g, "natural") /\ UNCHANGED pub
    BY <1>14 DEF NaturalCleanup
  <2>2. CASE UNCHANGED life
    BY <1>1, <2>1, <2>2 DEF TakeLock, TypeOK
  <2>3. CASE BeginCleanup(g, "natural")
    BY <1>11, <2>1, <2>3 DEF BeginCleanup
  <2> QED
    BY <1>14, <2>2, <2>3 DEF NaturalCleanup
<1>15. ASSUME NEW g \in Generations, NEW role \in Roles, AbandonLock(g, role)
       PROVE  CallerInv'
  <2>1. /\ waiting' = [waiting EXCEPT ![g] = @ \ {role}]
        /\ role \in waiting[g] /\ UNCHANGED life /\ Return(role)
    BY <1>15 DEF AbandonLock
  <2>2. CASE role = "limit"
    BY <2>1, <2>2 DEF CallerInv, TypeOK
  <2>3. CASE role # "limit"
    BY <1>1, <2>1, <2>3 DEF Return, TypeOK
  <2> QED
    BY <2>2, <2>3
<1>16. ASSUME NEW g \in Generations, ReleaseLock(g), Return(life[g].role),
              UNCHANGED waiting
       PROVE  CallerInv'
  <2>1. life'[g].role = "none" /\ \A h \in Generations : h # g => life'[h] = life[h]
    BY <1>16 DEF ReleaseLock, FreeLife, TypeOK
  <2>2. CASE life[g].role = "limit"
    BY <1>16, <2>1, <2>2 DEF CallerInv
  <2>3. CASE life[g].role # "limit"
    BY <1>16, <2>1, <2>3 DEF Return, CallerInv
  <2> QED
    BY <2>2, <2>3
<1>17. ASSUME NEW g \in Generations, CleanupStep(g) PROVE CallerInv'
  <2>1. ASSUME \A h \in Generations : life'[h].role = life[h].role, UNCHANGED <<pub, waiting>>
        PROVE  CallerInv'
    BY <2>1 DEF CallerInv
  <2>2. CASE CountRemaining(g)
    <3>1. CASE BeginCleanup(g, life[g].role) /\ UNCHANGED pub
      <4>1. \A h \in Generations : life'[h].role = life[h].role
        BY <3>1 DEF BeginCleanup, TypeOK
      <4> QED
        BY <2>1, <2>2, <3>1, <4>1 DEF CountRemaining
    <3>2. CASE ReleaseLock(g) /\ Return(life[g].role)
      BY <1>16, <2>2, <3>2 DEF CountRemaining
    <3> QED
      BY <2>2, <3>1, <3>2 DEF CountRemaining
  <2>3. CASE StartDestroy(g)
    BY <2>1, <2>3 DEF StartDestroy
  <2>4. CASE DestroyAgain(g)
    <3>1. \A h \in Generations : life'[h].role = life[h].role
      BY <2>4 DEF DestroyAgain, TypeOK, Life
    <3> QED
      BY <2>1, <2>4, <3>1 DEF DestroyAgain
  <2>5. CASE CleanupFails(g) \/ CleanupDone(g)
    BY <1>16, <2>5 DEF CleanupFails, CleanupDone
  <2> QED
    BY <1>17, <2>2, <2>3, <2>4, <2>5 DEF CleanupStep
<1>18. ASSUME CloseNext PROVE CallerInv'
  <2>1. \A h \in Generations : "limit" \in waiting'[h] => "limit" \in waiting[h]
    BY <1>18 DEF CloseNext, TypeOK
  <2> QED
    BY <1>1, <1>18, <2>1 DEF CloseNext
<1>19. ASSUME Close \/ CancelClose PROVE CallerInv'
  BY <1>1, <1>19 DEF Close, CancelClose
<1>20. ASSUME NEW s \in Sessions, NEW g \in Generations,
              \/ \E e \in Entities, i \in Ids : RegisterSession(s, g, e, i)
              \/ SkipProgressive(g, s)
       PROVE  CallerInv'
  BY <1>1, <1>20 DEF RegisterSession, SkipProgressive
<1>21. ASSUME NEW g \in Generations, NEW success \in BOOLEAN, DestroyReturns(g, success)
       PROVE  CallerInv'
  BY <1>1, <1>21 DEF DestroyReturns
<1>22. ASSUME UNCHANGED vars PROVE CallerInv'
  BY <1>1, <1>22 DEF vars
<1> QED
  BY <1>4, <1>5, <1>6, <1>7, <1>8, <1>9, <1>10, <1>12, <1>13, <1>14, <1>15, <1>17, <1>18,
     <1>19, <1>20, <1>21, <1>22
  DEF Next, PublisherStep, LockStep

\* Changing one loop changes that one and leaves the others.
LEMMA LoopHere ==
  ASSUME TypeOK, NEW k \in LoopKinds, NEW g \in Generations, NEW l
  PROVE  [loop EXCEPT ![<<k, g>>] = l][<<k, g>>] = l
<1> DEFINE x == <<k, g>>
<1>1. x \in Loops /\ loop \in [Loops -> Loop]
  BY DEF Loops, TypeOK
<1> HIDE DEF x
<1>2. [loop EXCEPT ![x] = l][x] = l
  BY <1>1
<1> QED
  BY <1>2 DEF x

\* See LoopHere.
LEMMA LoopOther ==
  ASSUME TypeOK, NEW k \in LoopKinds, NEW g \in Generations, NEW l,
         NEW h \in Generations, k # "revoke" \/ g # h
  PROVE  [loop EXCEPT ![<<k, g>>] = l][<<"revoke", h>>] = loop[<<"revoke", h>>]
<1> DEFINE x == <<k, g>>
           y == <<"revoke", h>>
<1>1. x \in Loops /\ y \in Loops /\ loop \in [Loops -> Loop]
  BY DEF Loops, LoopKinds, TypeOK
<1>2. x # y
  OBVIOUS
<1> HIDE DEF x, y
<1>3. [loop EXCEPT ![x] = l][y] = loop[y]
  BY <1>1, <1>2
<1> QED
  BY <1>3 DEF x, y

\* What the steps of a loop do to its worklist.
LEMMA LoopTodo ==
  ASSUME NEW l \in Loop, NEW s \in Sessions
  PROVE  /\ Closing(l, s).todo = l.todo \ {s}
         /\ Awaiting(l, s).todo = l.todo \ {s}
         /\ Skipping(l, s).todo = l.todo \ {s}
         /\ Closed(l).todo = l.todo
BY DEF Loop, Closing, Awaiting, Skipping, Closed

\* A force loop drops a record from the revoke worklist only when that record
\* is no longer active.
LEMMA RevokeTodo ==
  ASSUME TypeOK, RecordInv, RegistryStep, NEW h \in Generations, NEW t \in Sessions,
         t \in loop[<<"revoke", h>>].todo, rec'[t].handle = "active",
         rec[t].handle = "active"
  PROVE  t \in loop'[<<"revoke", h>>].todo
<1> USE DEF registry
<1>1. CASE UNCHANGED loop
  BY <1>1
<1>2. ASSUME NEW k \in LoopKinds, NEW g \in Generations, NEW s \in Sessions,
             ClaimForce(k, g, s)
      PROVE  t \in loop'[<<"revoke", h>>].todo
  <2>1. PICK l \in {Closing(loop[<<k, g>>], s), Awaiting(loop[<<k, g>>], s),
                    Skipping(loop[<<k, g>>], s)} :
          loop' = [loop EXCEPT ![<<k, g>>] = l]
    BY <1>2 DEF ClaimForce
  <2>2. l.todo = loop[<<k, g>>].todo \ {s}
    BY <2>1, LoopAt, LoopTodo
  <2>3. t # s
    <3>1. rec[s] \in Record /\ Terminal(k) \in BOOLEAN
      BY DEF TypeOK, Terminal
    <3>2. rec[s].handle = "active" => rec'[s] = Claimed(rec[s], Terminal(k))
      BY <1>2 DEF ClaimForce, TypeOK
    <3>3. Claimed(rec[s], Terminal(k)).handle = "forcing"
      BY <3>1, RecordFields
    <3> QED
      BY <3>2, <3>3
  <2>4. loop'[<<k, g>>] = l
    BY <2>1, LoopHere
  <2>5. CASE k = "revoke" /\ g = h
    BY <2>2, <2>3, <2>4, <2>5
  <2>6. CASE k # "revoke" \/ g # h
    <3>1. loop'[<<"revoke", h>>] = loop[<<"revoke", h>>]
      BY <2>1, <2>6, LoopOther
    <3> QED
      BY <3>1
  <2> QED
    BY <2>5, <2>6
<1>3. ASSUME NEW k \in LoopKinds, NEW g \in Generations,
             loop' = [loop EXCEPT ![<<k, g>>] = Closed(@)]
      PROVE  t \in loop'[<<"revoke", h>>].todo
  <2> DEFINE l == Closed(loop[<<k, g>>])
  <2>1. l.todo = loop[<<k, g>>].todo
    BY LoopAt, LoopTodo
  <2>2. loop' = [loop EXCEPT ![<<k, g>>] = l]
    BY <1>3
  <2> HIDE DEF l
  <2>3. loop'[<<k, g>>] = l
    BY <2>2, LoopHere
  <2>4. CASE k = "revoke" /\ g = h
    BY <2>1, <2>3, <2>4
  <2>5. CASE k # "revoke" \/ g # h
    <3>1. loop'[<<"revoke", h>>] = loop[<<"revoke", h>>]
      BY <2>2, <2>5, LoopOther
    <3> QED
      BY <3>1
  <2> QED
    BY <2>4, <2>5
<1>4. ASSUME NEW k \in LoopKinds, NEW g \in Generations, ForceStep(k, g)
      PROVE  t \in loop'[<<"revoke", h>>].todo
  BY <1>1, <1>2, <1>3, <1>4 DEF ForceStep, CompleteForce, LoopNext
<1>5. ASSUME NEW s \in Sessions, FinishNaturally(s) \/ HandleStep(s)
      PROVE  t \in loop'[<<"revoke", h>>].todo
  BY <1>1, <1>5 DEF FinishNaturally, HandleStep, RegistryFinish, NotifyEmpty
<1> QED
  BY <1>4, <1>5 DEF RegistryStep

\* The sessions of revoked entities are before the revoke loop or refused to
\* close.
LEMMA RevokeNext ==
  ASSUME TypeOK, ActiveInv, EntryInv, RecordInv, CallerInv, RevokeInv, [Next]_vars
  PROVE  RevokeInv'
<1> USE DEF controller, entry, registry, callers
<1>0. registered \subseteq Sessions /\ \A s \in Sessions : rec[s] \in Record
  BY DEF TypeOK
<1>1. ASSUME NEW s \in Sessions, NEW g \in Generations, NEW e \in Entities,
             NEW i \in Ids, RegisterSession(s, g, e, i)
      PROVE  RevokeInv'
  <2>1. UNCHANGED <<revoked, pub, loop>> /\ e \notin revoked[g]
    BY <1>1 DEF RegisterSession, Admits
  <2> QED
    BY <1>0, <1>1, <2>1, RegistrationAdds DEF RevokeInv
<1>2. CASE RegistryStep
  <2>1. UNCHANGED <<revoked, pub>>
    <3>1. ASSUME NEW s \in Sessions, FinishNaturally(s) \/ HandleStep(s)
          PROVE  UNCHANGED <<revoked, pub>>
      BY <3>1 DEF FinishNaturally, HandleStep, RegistryFinish, NotifyEmpty, OnSessionEmpty
    <3>2. ASSUME NEW k \in LoopKinds, NEW g \in Generations, ForceStep(k, g)
          PROVE  UNCHANGED <<revoked, pub>>
      BY <3>2 DEF ForceStep, ClaimForce, CompleteForce, LoopNext
    <3> QED
      BY <1>2, <3>1, <3>2 DEF RegistryStep
  <2>2. PICK u \in Sessions : RecordStep(u)
    BY <1>2, StepsOfRecords DEF RegistryStep
  <2>3. ASSUME NEW s \in registered', rec'[s].handle = "active",
               rec'[s].entity \in revoked'[rec'[s].gen], ~rec'[s].closeFailed
        PROVE  /\ pub'.pc = "revoke" /\ pub'.gen = rec'[s].gen
               /\ s \in loop'[<<"revoke", pub'.gen>>].todo
    <3>1. /\ s \in registered /\ s \in Sessions
          /\ rec'[s].gen = rec[s].gen /\ rec'[s].entity = rec[s].entity
          /\ rec[s].handle = "active" /\ rec'[s].closeFailed = rec[s].closeFailed
      BY <1>0, <2>2, <2>3, RecordStepKeeps
    <3>2. /\ pub.pc = "revoke" /\ pub.gen = rec[s].gen
          /\ s \in loop[<<"revoke", pub.gen>>].todo
      BY <2>1, <2>3, <3>1 DEF RevokeInv
    <3>3. pub.gen \in Generations
      BY <3>1, <3>2 DEF RecordInv
    <3> QED
      BY <1>2, <2>1, <2>3, <3>1, <3>2, <3>3, RevokeTodo
  <2> QED
    BY <2>3 DEF RevokeInv
<1>3. CASE ControllerStep
  <2>1. UNCHANGED registry
    BY <1>3, ControllerKeepsRegistry
  <2>2. ASSUME revoked' = revoked, pub'.pc = pub.pc, pub'.gen = pub.gen,
               \A h \in Generations : loop'[<<"revoke", h>>] = loop[<<"revoke", h>>]
        PROVE  RevokeInv'
    BY <1>0, <2>1, <2>2 DEF RevokeInv, RecordInv
  <2>3. ASSUME revoked' = revoked, pub.pc # "revoke" PROVE RevokeInv'
    BY <2>1, <2>3 DEF RevokeInv
  <2>4. ASSUME NEW k \in LoopKinds \ {"revoke"}, NEW g \in Generations, NEW l,
               loop' = [loop EXCEPT ![<<k, g>>] = l], UNCHANGED <<revoked, pub>>
        PROVE  RevokeInv'
    <3>1. ASSUME NEW h \in Generations
          PROVE  loop'[<<"revoke", h>>] = loop[<<"revoke", h>>]
      <4>1. k \in LoopKinds /\ k # "revoke"
        OBVIOUS
      <4>2. [loop EXCEPT ![<<k, g>>] = l][<<"revoke", h>>] = loop[<<"revoke", h>>]
        BY <4>1, LoopOther
      <4> QED
        BY <2>4, <4>2
    <3> QED
      BY <2>2, <2>4, <3>1
  <2>5. {"life", "progressive"} \subseteq LoopKinds \ {"revoke"}
    BY DEF LoopKinds
  <2>6. ASSUME NEW role, Return(role), UNCHANGED <<revoked, loop>>,
               role = "limit" => pub.pc = "forcing"
        PROVE  RevokeInv'
    BY <2>2, <2>3, <2>6 DEF Return
  <2>7. ASSUME NEW g \in Generations, NEW s \in Sessions, SkipProgressive(g, s)
        PROVE  RevokeInv'
    BY <2>4, <2>5, <2>7 DEF SkipProgressive
  <2>8. ASSUME NEW g \in Generations, NEW kind \in TimerKinds, NEW r \in SUBSET Entities,
               Activate(g, kind, r)
        PROVE  RevokeInv'
    <3>1. \A s \in registered : rec[s].handle = "active" /\
                rec[s].entity \in revoked[rec[s].gen] => rec[s].closeFailed
      BY <2>8 DEF Activate, RevokeInv
    <3>2. CASE active = None
      BY <2>1, <2>8, <3>1, <3>2 DEF Activate, RevokeInv
    <3>3. CASE active # None
      <4> DEFINE todo == {s \in SessionsOf(active) : rec[s].entity \in r}
      <4>1. active \in Generations /\ "revoke" \in LoopKinds
        BY <3>3 DEF TypeOK, LoopKinds
      <4>2. /\ revoked' = [revoked EXCEPT ![active] = r]
            /\ pub' = [IdlePublisher EXCEPT !.pc = "revoke", !.gen = active]
            /\ loop' = [loop EXCEPT ![<<"revoke", active>>] = StartedLoop(todo)]
        BY <2>8, <3>3 DEF Activate
      <4>3. pub'.pc = "revoke" /\ pub'.gen = active
        BY <4>2 DEF IdlePublisher
      <4>4. loop'[<<"revoke", active>>].todo = todo
        <5>1. loop'[<<"revoke", active>>] = StartedLoop(todo)
          BY <4>1, <4>2, LoopHere
        <5> QED
          BY <5>1 DEF StartedLoop, IdleLoop
      <4>5. \A h \in Generations : h # active => revoked'[h] = revoked[h]
        BY <4>2 DEF TypeOK
      <4>6. revoked'[active] = r
        BY <4>1, <4>2 DEF TypeOK
      <4> HIDE DEF todo
      <4>7. \A s \in registered : rec[s].gen = active /\ rec[s].entity \in r => s \in todo
        BY DEF todo, SessionsOf
      <4> QED
        BY <1>0, <2>1, <3>1, <4>3, <4>4, <4>5, <4>6, <4>7 DEF RevokeInv, RecordInv
    <3> QED
      BY <3>2, <3>3
  <2>9. CASE EntitiesForced
    <3>1. /\ loop[<<"revoke", pub.gen>>].todo = {} /\ UNCHANGED revoked
      BY <2>9 DEF EntitiesForced, LoopFinished
    <3> QED
      BY <2>1, <3>1 DEF RevokeInv
  <2>10. CASE ActivateNotify \/ EnforceLimit
    BY <2>3, <2>10 DEF ActivateNotify, EnforceLimit, OnSessionEmpty
  <2>11. CASE CancelActivate
    <3>1. pub'.pc = pub.pc /\ pub'.gen = pub.gen
      BY <2>11 DEF CancelActivate, TypeOK, Publisher
    <3> QED
      BY <2>2, <2>11, <3>1 DEF CancelActivate
  <2>12. ASSUME NEW g \in Generations, RetireActive(g) \/ RetryTimerFires(g) \/ NotifyRetired(g)
         PROVE  RevokeInv'
    BY <2>2, <2>12 DEF RetireActive, RetryTimerFires, NotifyRetired, OnSessionEmpty
  <2>13. ASSUME NEW g \in Generations, DrainTimerFires(g) \/ ProgressiveForced(g)
         PROVE  RevokeInv'
    BY <2>2, <2>4, <2>5, <2>13 DEF DrainTimerFires, ProgressiveForced
  <2>14. ASSUME NEW g \in Generations, NEW role \in Roles, ForceGeneration(g, role)
         PROVE  RevokeInv'
    <3>1. role = "limit" => pub.pc = "forcing"
      BY <2>14 DEF ForceGeneration, TakeLock, CallerInv
    <3> QED
      BY <2>2, <2>4, <2>5, <2>6, <2>14, <3>1 DEF ForceGeneration
  <2>15. ASSUME NEW g \in Generations, NEW role \in Roles, AbandonLock(g, role)
         PROVE  RevokeInv'
    <3>1. role = "limit" => pub.pc = "forcing"
      BY <2>15 DEF AbandonLock, CallerInv
    <3> QED
      BY <2>6, <2>15, <3>1 DEF AbandonLock
  <2>16. ASSUME NEW g \in Generations, NEW role \in Roles, NEW success \in BOOLEAN,
                \/ RetryCleanup(g, role) \/ NaturalCleanup(g) \/ StartDestroy(g)
                \/ DestroyAgain(g) \/ DestroyReturns(g, success)
         PROVE  RevokeInv'
    BY <2>2, <2>16 DEF RetryCleanup, NaturalCleanup, StartDestroy, DestroyAgain,
       DestroyReturns
  <2>17. ASSUME NEW g \in Generations, CountRemaining(g) PROVE RevokeInv'
    <3>1. CASE UNCHANGED pub
      BY <2>4, <2>5, <2>17, <3>1 DEF CountRemaining
    <3>2. CASE pub' # pub
      <4>1. life[g].role = "limit"
        BY <2>17, <3>2 DEF CountRemaining, Return
      <4> QED
        BY <2>3, <2>17, <4>1 DEF CountRemaining, CallerInv
    <3> QED
      BY <3>1, <3>2
  <2>18. ASSUME NEW g \in Generations, CleanupFails(g) PROVE RevokeInv'
    BY <2>6, <2>18 DEF CleanupFails, CallerInv
  <2>19. ASSUME NEW g \in Generations, CleanupDone(g) PROVE RevokeInv'
    <3>1. life[g].role = "limit" => pub.pc = "forcing"
      BY DEF CallerInv
    <3>2. \A h \in Generations : revoked'[h] \subseteq revoked[h]
      BY <2>19 DEF CleanupDone, TypeOK
    <3>3. pub' = pub \/ pub.pc = "forcing"
      BY <2>19, <3>1 DEF CleanupDone, Return
    <3>4. UNCHANGED loop
      BY <2>19 DEF CleanupDone
    <3> QED
      BY <1>0, <2>1, <3>2, <3>3, <3>4 DEF RevokeInv, RecordInv
  <2>20. CASE Close \/ CloseNext \/ CancelClose
    BY <2>2, <2>20 DEF Close, CloseNext, CancelClose
  <2>21. "natural" \in Roles /\ TRUE \in BOOLEAN
    BY DEF Roles
  <2> QED
    BY <1>3, <2>7, <2>8, <2>9, <2>10, <2>11, <2>12, <2>13, <2>14, <2>15, <2>16, <2>17,
       <2>18, <2>19, <2>20, <2>21
    DEF ControllerStep, PublisherStep, TimerStep, LockStep, CleanupStep
<1>4. CASE UNCHANGED vars
  BY <1>4 DEF vars, RevokeInv
<1> QED
  BY <1>1, <1>2, <1>3, <1>4, NextSplit

----------------------------------------------------------------------------
(* The inductive invariant and the theorems *)

Inv == /\ TypeOK
       /\ ActiveInv
       /\ EntryInv
       /\ EmptyInv
       /\ RecordInv
       /\ CallerInv
       /\ RevokeInv

\* A new controller satisfies the inductive invariant.
LEMMA InvInit == NewDrainController => Inv
<1> SUFFICES ASSUME NewDrainController PROVE Inv
  OBVIOUS
<1>1. TypeOK
  BY TypeInit
<1>2. ActiveInv /\ EntryInv
  BY DEF NewDrainController, ActiveInv, EntryInv, FreeLife, Serving
<1>3. EmptyInv /\ RevokeInv
  BY DEF NewDrainController, EmptyInv, RevokeInv, SessionsOf
<1>4. RecordInv
  BY DEF NewDrainController, RecordInv, UnusedRecord
<1>5. CallerInv
  BY DEF NewDrainController, CallerInv, FreeLife
<1> QED
  BY <1>1, <1>2, <1>3, <1>4, <1>5 DEF Inv

\* Every step of the controller keeps it.
LEMMA InvNext == Inv /\ [Next]_vars => Inv'
BY TypeNext, ActiveNext, EntryNext, EmptyNext, RecordNext, CallerNext, RevokeNext DEF Inv

\* The inductive invariant always holds.
THEOREM Invariance == Spec => []Inv
BY InvInit, InvNext, PTL DEF Spec

\* Every reachable state of the controller, its registry and its goroutines has
\* the declared type.
THEOREM TypeCorrect == Spec => []TypeOK
<1>1. Inv => TypeOK
  BY DEF Inv
<1> QED
  BY <1>1, Invariance, PTL

\* No session is registered on a generation whose resource is being, or has
\* been, destroyed (RegisterSession, onSessionEmpty, forceGeneration).
THEOREM DestroySafety == Spec => []NoSessionOnDestroyedResource
<1>1. Inv => NoSessionOnDestroyedResource
  BY DEF Inv, EmptyInv, NoSessionOnDestroyedResource
<1> QED
  BY <1>1, Invariance, PTL

\* A session in use is in the registry (SessionRegistry.finish).
THEOREM RegistrySafety == Spec => []LiveHandleIsRegistered
<1>1. Inv => LiveHandleIsRegistered
  BY DEF Inv, RecordInv, LiveHandleIsRegistered
<1> QED
  BY <1>1, Invariance, PTL

\* After the revoke loop, a revoked entity's session is one that failed to
\* close (activate, RegisterSession).
THEOREM RevocationSafety == Spec => []RevokedEntitiesAreClosed
<1>1. Inv => RevokedEntitiesAreClosed
  BY DEF Inv, RevokeInv, RevokedEntitiesAreClosed
<1> QED
  BY <1>1, Invariance, PTL

\* What a step may do to the outcome of a generation.
OutcomeStep ==
  \A g \in Generations :
    /\ final[g] = "forced" => final'[g] = "forced"
    /\ Released(g) => state'[g] = state[g]

\* No step takes a forced outcome back or changes a final state.
LEMMA OutcomeNext == ASSUME Inv, [Next]_vars PROVE OutcomeStep
<1> USE DEF controller, entry, registry, callers
<1>0. TypeOK /\ EntryInv /\ ActiveInv
  BY DEF Inv
<1>1. CASE UNCHANGED <<state, final>>
  BY <1>1 DEF OutcomeStep
<1>2. ASSUME NEW g, OnSessionEmpty(g) PROVE OutcomeStep
  <2>1. \/ UNCHANGED <<state, final>>
        \/ /\ state[g] = "draining"
           /\ state' = [state EXCEPT ![g] = "drained"]
           /\ final' = [final EXCEPT ![g] = "drained"]
    BY <1>2 DEF OnSessionEmpty, DrainsNaturally
  <2> QED
    BY <1>0, <2>1 DEF OutcomeStep, Released, EntryInv, Serving, TypeOK
<1>3. ASSUME NEW g \in Generations, NEW kind \in TimerKinds, NEW r \in SUBSET Entities,
             Activate(g, kind, r)
      PROVE  OutcomeStep
  <2>1. \A h \in Generations : state'[h] # state[h] => state[h] \in Serving
    BY <1>0, <1>3 DEF Activate, ActiveInv, Serving, TypeOK
  <2> QED
    BY <1>0, <1>3, <2>1 DEF Activate, OutcomeStep, Released, EntryInv
<1>4. ASSUME NEW g \in Generations, RetireActive(g) PROVE OutcomeStep
  BY <1>0, <1>4 DEF RetireActive, OutcomeStep, Released, EntryInv, Serving, TypeOK
<1>5. ASSUME NEW g \in Generations, NEW role \in Roles, ForceGeneration(g, role)
      PROVE  OutcomeStep
  <2>1. \/ UNCHANGED <<state, final>>
        \/ /\ ~Released(g)
           /\ state' = [state EXCEPT ![g] = "forced"]
           /\ final' = [final EXCEPT ![g] = "forced"]
    BY <1>5 DEF ForceGeneration
  <2> QED
    BY <1>0, <2>1 DEF OutcomeStep, TypeOK
<1>6. ASSUME NEW g \in Generations, CountRemaining(g) PROVE OutcomeStep
  <2>1. ~Released(g) /\ UNCHANGED final
    BY <1>0, <1>6 DEF CountRemaining, Released, EntryInv
  <2>2. \A h \in Generations : h # g => state'[h] = state[h]
    BY <1>0, <1>6 DEF CountRemaining, TypeOK
  <2> QED
    BY <2>1, <2>2 DEF OutcomeStep
<1>7. ASSUME NEW g \in Generations, CleanupFails(g) \/ CleanupDone(g) PROVE OutcomeStep
  <2>1. ~Released(g) /\ UNCHANGED final
    BY <1>7 DEF CleanupFails, CleanupDone, Released
  <2>2. \A h \in Generations : h # g => state'[h] = state[h]
    BY <1>0, <1>7 DEF CleanupFails, CleanupDone, TypeOK
  <2> QED
    BY <2>1, <2>2 DEF OutcomeStep
<1>8. ASSUME NEW s \in Sessions, FinishNaturally(s) \/ HandleStep(s) PROVE OutcomeStep
  BY <1>1, <1>2, <1>8 DEF FinishNaturally, HandleStep, RegistryFinish, NotifyEmpty
<1>9. ASSUME NEW k \in LoopKinds, NEW g \in Generations, ForceStep(k, g) PROVE OutcomeStep
  BY <1>1, <1>9 DEF ForceStep, ClaimForce, CompleteForce, LoopNext
<1>10. CASE PublisherStep \/ CancelActivate
  BY <1>1, <1>2, <1>10
  DEF PublisherStep, EntitiesForced, ActivateNotify, EnforceLimit, CancelActivate
<1>11. ASSUME NEW g \in Generations, TimerStep(g) PROVE OutcomeStep
  BY <1>1, <1>2, <1>11
  DEF TimerStep, DrainTimerFires, RetryTimerFires, ProgressiveForced, NotifyRetired
<1>12. ASSUME NEW g \in Generations, NEW role \in Roles,
              RetryCleanup(g, role) \/ AbandonLock(g, role) \/ NaturalCleanup(g)
       PROVE  OutcomeStep
  BY <1>1, <1>12 DEF RetryCleanup, AbandonLock, NaturalCleanup
<1>13. ASSUME NEW g \in Generations, NEW success \in BOOLEAN,
              StartDestroy(g) \/ DestroyAgain(g) \/ DestroyReturns(g, success)
       PROVE  OutcomeStep
  BY <1>1, <1>13 DEF StartDestroy, DestroyAgain, DestroyReturns
<1>14. CASE Close \/ CloseNext \/ CancelClose
  BY <1>1, <1>14 DEF Close, CloseNext, CancelClose
<1>15. ASSUME NEW s \in Sessions, NEW g \in Generations,
              \/ \E e \in Entities, i \in Ids : RegisterSession(s, g, e, i)
              \/ SkipProgressive(g, s)
       PROVE  OutcomeStep
  BY <1>1, <1>15 DEF RegisterSession, SkipProgressive
<1>16. CASE UNCHANGED vars
  BY <1>1, <1>16 DEF vars
<1>17. "natural" \in Roles /\ TRUE \in BOOLEAN
  BY DEF Roles
<1> QED
  BY <1>3, <1>4, <1>5, <1>6, <1>7, <1>8, <1>9, <1>10, <1>11, <1>12, <1>13, <1>14, <1>15,
     <1>16, <1>17
  DEF Next, LockStep, CleanupStep

\* The outcome a drain report may carry never changes once it is final, and a
\* forced generation is never reported as drained (status.State).
THEOREM OutcomeSafety == Spec => OutcomeSticks
<1>1. Inv /\ [Next]_vars => [OutcomeStep]_vars
  BY OutcomeNext
<1>2. OutcomeSticks <=> [][OutcomeStep]_vars
  BY DEF OutcomeSticks, OutcomeStep
<1> QED
  BY <1>1, <1>2, Invariance, PTL DEF Spec

----------------------------------------------------------------------------
(* Owners, the limit and the refinement                                    *)
(*                                                                         *)
(* OwnerInv says who owes a retired generation its next step, by the state *)
(* it is in: RetiredHasOwner alone is not inductive, because a timer, a    *)
(* waiting goroutine or a callback counts only in the states in which it   *)
(* does not come to nothing.  LimitInv adds what enforceLimit has done for *)
(* the generations it attempted.                                           *)

\* The registry will still call onSessionEmpty for g.
Callback(g) ==
  \/ SessionsOf(g) # {}
  \/ \E s \in Sessions : rec[s].gen = g /\ rec[s].unregister = "notify"

\* A record that was never registered belongs to no generation, and a finished
\* one leaves the registry only by the goroutine that then looks whether it was
\* the last.
FinishInv ==
  \A s \in Sessions :
    /\ rec[s].handle = "unused" => rec[s].gen = None
    /\ s \in registered /\ rec[s].handle = "finished" => rec[s].unregister = "remove"

\* Close only forces generations that were activated.
KnownInv ==
  /\ \A n \in 1..Len(order) : state[order[n]] # "absent"
  /\ \A n \in 1..Len(closer.todo) : state[closer.todo[n]] # "absent"
  /\ \A g \in Generations : "shutdown" \in waiting[g] => state[g] # "absent"

\* Who ends the drain of g.
DrainOwned(g) ==
  \/ timer[g] # "none"
  \/ "timeout" \in waiting[g]
  \/ prog[g] # "idle"
  \/ pub.pc \in {"revoke", "notify"} /\ pub.gen = g
  \/ Callback(g)

\* Who repeats the cleanup of g.
RetryOwned(g) ==
  \/ g \in retry
  \/ \E role \in RetryRoles : role \in waiting[g]
  \/ Callback(g)

Owned(g) ==
  /\ state[g] # "absent" /\ ~Released(g) => g \in entries
  /\ state[g] = "draining" => closed \/ DrainOwned(g)
  /\ state[g] = "drained" /\ ~Released(g) =>
       life[g].pc # "free" \/ "natural" \in waiting[g]
  /\ state[g] = "cleanup_failed" => life[g].pc # "free" \/ closed \/ RetryOwned(g)

OwnerInv == \A g \in Generations : Owned(g)

\* The generations that enforceLimit attempted have left the drain, unless it is
\* being done right now or was cut short.
LimitInv ==
  /\ IsFiniteSet(entries)
  /\ \A g \in entries : \E n \in 1..Len(order) : order[n] = g
  /\ pub.cancelled \/ \A g \in pub.attempted :
       state[g] # "draining" \/ (pub.pc = "forcing" /\ pub.gen = g)
  /\ LimitStopsDraining
----------------------------------------------------------------------------
(* Records and callbacks *)

\* The removal that a record awaits, after each transition of its handle.
LEMMA Removals ==
  ASSUME TypeOK, NEW s \in Sessions
  PROVE  /\ rec' = [rec EXCEPT ![s] = Finished(@)] => rec'[s].unregister = "remove"
         /\ \/ rec' = [rec EXCEPT ![s] = FinishLater(@)]
            \/ rec' = [rec EXCEPT ![s] = MadeTerminal(@)]
            => rec'[s].handle = rec[s].handle /\ rec'[s].unregister = rec[s].unregister
         /\ \/ \E b \in BOOLEAN : rec' = [rec EXCEPT ![s] = Claimed(@, b)]
            \/ rec' = [rec EXCEPT ![s] = Reopened(@)]
            => rec'[s].handle # "finished"
         /\ \A u \in {"none", "notify"} :
              rec' = [rec EXCEPT ![s] = Unregister(@, u)]
              => rec'[s].handle = rec[s].handle /\ rec'[s].unregister = u
<1>1. rec[s] \in Record
  BY DEF TypeOK
<1>2. \A q : rec' = [rec EXCEPT ![s] = q] => rec'[s] = q
  BY DEF TypeOK
<1>3. Finished(rec[s]).unregister = "remove"
  BY <1>1, RecordFields
<1>4. /\ FinishLater(rec[s]).handle = rec[s].handle
      /\ FinishLater(rec[s]).unregister = rec[s].unregister
      /\ MadeTerminal(rec[s]).handle = rec[s].handle
      /\ MadeTerminal(rec[s]).unregister = rec[s].unregister
  BY <1>1, RecordFields
<1>5. /\ \A b \in BOOLEAN : Claimed(rec[s], b).handle = "forcing"
      /\ Reopened(rec[s]).handle = "active"
  BY <1>1, RecordFields
<1>6. \A u \in {"none", "notify"} : /\ Unregister(rec[s], u).handle = rec[s].handle
                                    /\ Unregister(rec[s], u).unregister = u
  BY <1>1, RecordFields, ZenonT(30)
<1>7. rec' = [rec EXCEPT ![s] = Finished(@)] => rec'[s] = Finished(rec[s])
  BY <1>2
<1>8. \/ rec' = [rec EXCEPT ![s] = FinishLater(@)]
      \/ rec' = [rec EXCEPT ![s] = MadeTerminal(@)]
      => rec'[s] \in {FinishLater(rec[s]), MadeTerminal(rec[s])}
  BY <1>2
<1>9. ASSUME NEW b \in BOOLEAN, rec' = [rec EXCEPT ![s] = Claimed(@, b)]
      PROVE  rec'[s].handle = "forcing"
  BY <1>2, <1>5, <1>9
<1>10. rec' = [rec EXCEPT ![s] = Reopened(@)] => rec'[s].handle = "active"
  BY <1>2, <1>5
<1>11. ASSUME NEW u \in {"none", "notify"}, rec' = [rec EXCEPT ![s] = Unregister(@, u)]
       PROVE  rec'[s].handle = rec[s].handle /\ rec'[s].unregister = u
  BY <1>2, <1>6, <1>11
<1> QED
  BY <1>3, <1>4, <1>7, <1>8, <1>9, <1>10, <1>11

\* A record step keeps FinishInv.
LEMMA FinishStep ==
  ASSUME TypeOK, RecordInv, FinishInv, NEW s \in Sessions, RecordStep(s)
  PROVE  FinishInv'
<1>1. /\ registered \subseteq Sessions /\ registered' \subseteq registered
      /\ \A t \in Sessions : /\ rec'[t].gen = rec[t].gen
                             /\ rec'[t].handle = "unused" <=> rec[t].handle = "unused"
  BY RecordStepKeeps DEF TypeOK
<1>2. \A t \in Sessions : t # s => rec'[t] = rec[t]
  BY DEF RecordStep, AfterRemoval, TypeOK, registry
<1>3. ASSUME s \in registered', rec'[s].handle = "finished"
      PROVE  rec'[s].unregister = "remove"
  <2>0. rec[s] \in Record /\ s \in registered
    BY <1>1, <1>3 DEF TypeOK
  <2>1. CASE rec' = [rec EXCEPT ![s] = Finished(@)]
    BY <2>1, Removals
  <2>2. CASE \/ rec' = [rec EXCEPT ![s] = FinishLater(@)]
             \/ rec' = [rec EXCEPT ![s] = MadeTerminal(@)]
             \/ rec' = rec
    BY <1>3, <2>0, <2>2, Removals DEF FinishInv
  <2>3. CASE \/ \E b \in BOOLEAN : rec' = [rec EXCEPT ![s] = Claimed(@, b)]
             \/ rec' = [rec EXCEPT ![s] = Reopened(@)]
    BY <1>3, <2>3, Removals
  <2>4. CASE /\ rec[s].unregister = "notify"
             /\ rec' = [rec EXCEPT ![s] = Unregister(@, "none")]
    <3>1. rec'[s].handle = rec[s].handle
      BY <2>4, Removals
    <3> QED
      BY <1>3, <2>0, <2>4, <3>1 DEF FinishInv
  <2>5. CASE registered' = registered \ {s}
    BY <1>3, <2>5
  <2> QED
    BY <2>1, <2>2, <2>3, <2>4, <2>5 DEF RecordStep, registry
<1> QED
  BY <1>1, <1>2, <1>3 DEF FinishInv

\* Registration and the other steps keep FinishInv, too.
LEMMA FinishNext == ASSUME TypeOK, RecordInv, FinishInv, [Next]_vars PROVE FinishInv'
<1>1. ASSUME NEW s \in Sessions, NEW g \in Generations, NEW e \in Entities,
             NEW i \in Ids, RegisterSession(s, g, e, i)
      PROVE  FinishInv'
  BY <1>1, RegistrationAdds DEF FinishInv
<1>2. CASE RegistryStep
  BY <1>2, StepsOfRecords, FinishStep DEF RegistryStep
<1>3. CASE ControllerStep
  BY <1>3, ControllerKeepsRegistry DEF registry, FinishInv
<1>4. CASE UNCHANGED vars
  BY <1>4 DEF vars, registry, FinishInv
<1> QED
  BY <1>1, <1>2, <1>3, <1>4, NextSplit

\* The callback of the last session of g is not lost: it is still due after
\* the step, or the step is the callback and found no session.
LEMMA CallbackStep ==
  ASSUME TypeOK, RecordInv, FinishInv, NEW s \in Sessions, RecordStep(s),
         NEW g \in Generations, Callback(g)
  PROVE  Callback(g)' \/ (OnSessionEmpty(g) /\ SessionsOf(g) = {})
<1>1. /\ registered \subseteq Sessions /\ registered \ {s} \subseteq registered'
      /\ \A t \in Sessions : rec'[t].gen = rec[t].gen
      /\ rec[s] \in Record
  BY RecordStepKeeps DEF TypeOK
<1>2. \A t \in Sessions : t # s => rec'[t] = rec[t]
  BY DEF RecordStep, AfterRemoval, TypeOK, registry
<1>3. CASE \E t \in SessionsOf(g) : t # s
  BY <1>1, <1>3 DEF Callback, SessionsOf
<1>4. CASE \E t \in Sessions : t # s /\ rec[t].gen = g /\ rec[t].unregister = "notify"
  BY <1>2, <1>4 DEF Callback
<1>5. CASE s \in registered' /\ s \in SessionsOf(g)
  BY <1>1, <1>5 DEF Callback, SessionsOf
<1>6. CASE s \in SessionsOf(g) /\ s \notin registered' /\ SessionsOf(g) = {s}
  <2>1. rec[s].unregister = "remove" /\ rec' = AfterRemoval(s)
    <3>1. s \in registered
      BY <1>6 DEF SessionsOf
    <3>2. rec[s].unregister = "remove" \/ rec[s].handle # "finished"
      BY <3>1 DEF FinishInv
    <3> QED
      BY <1>6, <3>1, <3>2 DEF RecordStep, registry
  <2>2. rec' = [rec EXCEPT ![s] = Unregister(@, "notify")] /\ rec[s].gen = g
    BY <1>6, <2>1 DEF AfterRemoval, SessionsOf
  <2>3. rec'[s].unregister = "notify"
    BY <2>2, Removals
  <2> QED
    BY <1>1, <2>2, <2>3 DEF Callback
<1>7. CASE SessionsOf(g) = {} /\ rec[s].gen = g /\ rec[s].unregister = "notify"
  <2>0. s \notin registered /\ rec[s].handle \notin {"active", "forcing"}
    BY <1>7 DEF SessionsOf, RecordInv
  <2>1. CASE OnSessionEmpty(rec[s].gen)
    BY <1>7, <2>1
  <2>2. CASE \/ rec' = [rec EXCEPT ![s] = FinishLater(@)]
             \/ rec' = [rec EXCEPT ![s] = MadeTerminal(@)]
             \/ rec' = rec
    <3>1. rec'[s].unregister = "notify" /\ rec'[s].gen = g
      BY <1>1, <1>7, <2>2, Removals
    <3> QED
      BY <3>1 DEF Callback
  <2> QED
    BY <1>7, <2>0, <2>1, <2>2 DEF RecordStep, registry
<1> QED
  BY <1>3, <1>4, <1>5, <1>6, <1>7 DEF Callback, SessionsOf

----------------------------------------------------------------------------
(* Owners *)

\* What a step must leave to a generation for its owner to stay.
LeftAlone(g) ==
  /\ state'[g] = state[g] /\ destroy'[g] = destroy[g] /\ life'[g] = life[g]
  /\ waiting[g] \subseteq waiting'[g]
  /\ timer[g] # "none" => timer'[g] # "none"
  /\ g \in retry => g \in retry'
  /\ g \in entries => g \in entries'
  /\ closed => closed'
  /\ prog[g] # "idle" => prog'[g] # "idle"
  /\ pub.pc \in {"revoke", "notify"} /\ pub.gen = g =>
       pub'.pc \in {"revoke", "notify"} /\ pub'.gen = g
  /\ Callback(g) => Callback(g)'

\* A generation that is left alone keeps its owner.
LEMMA OwnerKept == ASSUME NEW g, Owned(g), LeftAlone(g) PROVE Owned(g)'
BY DEF Owned, LeftAlone, DrainOwned, RetryOwned, Released

\* onSessionEmpty, called for a generation without sessions, hands it to the
\* goroutine that cleans up.
LEMMA EmptyOwner ==
  ASSUME TypeOK, EntryInv, NEW g \in Generations, Owned(g), OnSessionEmpty(g),
         SessionsOf(g) = {}, UNCHANGED <<closed, entries, life>>
  PROVE  Owned(g)'
<1>1. /\ UNCHANGED <<destroy, retry>>
      /\ state[g] = "draining" => ~Released(g)
  BY DEF OnSessionEmpty, EntryInv, Serving, Released, entry
<1>2. CASE state[g] = "draining"
  <2>1. state'[g] = "drained" /\ "natural" \in waiting'[g]
    BY <1>2 DEF OnSessionEmpty, DrainsNaturally, TypeOK
  <2> QED
    BY <1>1, <1>2, <2>1 DEF Owned, Released
<1>3. CASE state[g] = "cleanup_failed"
  <2>1. UNCHANGED state /\ "emptied" \in waiting'[g]
    BY <1>3 DEF OnSessionEmpty, DrainsNaturally, TypeOK, entry
  <2> QED
    BY <1>1, <1>3, <2>1 DEF Owned, RetryOwned, RetryRoles, Released
<1>4. CASE state[g] \notin {"draining", "cleanup_failed"}
  <2>1. UNCHANGED <<state, waiting>>
    BY <1>4 DEF OnSessionEmpty, DrainsNaturally, TypeOK, entry
  <2> QED
    BY <1>1, <1>4, <2>1 DEF Owned, Released
<1> QED
  BY <1>2, <1>3, <1>4

\* It touches nothing else.
LEMMA EmptyElsewhere ==
  ASSUME TypeOK, NEW g, OnSessionEmpty(g), NEW h \in Generations,
         h # g \/ SessionsOf(h) # {}
  PROVE  /\ state'[h] = state[h] /\ destroy'[h] = destroy[h]
         /\ timer'[h] = timer[h] /\ waiting'[h] = waiting[h]
         /\ retry' = retry
BY DEF OnSessionEmpty, TypeOK, entry

\* Sessions and handles: the owner of every generation survives their steps.
LEMMA OwnerRegistry ==
  ASSUME TypeOK, EntryInv, RecordInv, FinishInv, OwnerInv, RegistryStep
  PROVE  OwnerInv'
<1> USE DEF controller, entry, registry, callers
<1> SUFFICES ASSUME NEW h \in Generations PROVE Owned(h)'
  BY DEF OwnerInv
<1>0. Owned(h)
  BY DEF OwnerInv
<1>1. Callback(h) => Callback(h)' \/ (OnSessionEmpty(h) /\ SessionsOf(h) = {})
  BY StepsOfRecords, CallbackStep DEF RegistryStep
<1>2. UNCHANGED <<closed, entries, life, prog, pub>>
  <2>1. ASSUME NEW s \in Sessions, FinishNaturally(s) \/ HandleStep(s)
        PROVE  UNCHANGED <<closed, entries, life, prog, pub>>
    BY <2>1 DEF HandleStep, FinishNaturally, RegistryFinish, NotifyEmpty
  <2>2. ASSUME NEW k \in LoopKinds, NEW g \in Generations, ForceStep(k, g)
        PROVE  UNCHANGED <<closed, entries, life, prog, pub>>
    BY <2>2 DEF ForceStep, ClaimForce, CompleteForce, LoopNext
  <2> QED
    BY <2>1, <2>2 DEF RegistryStep
<1>3. CASE OnSessionEmpty(h) /\ SessionsOf(h) = {}
  BY <1>0, <1>2, <1>3, EmptyOwner
<1>4. CASE ~(OnSessionEmpty(h) /\ SessionsOf(h) = {})
  <2>1. CASE UNCHANGED <<entry, waiting>>
    BY <1>0, <1>1, <1>2, <1>4, <2>1, OwnerKept DEF LeftAlone
  <2>2. ASSUME NEW s \in Sessions, NotifyEmpty(s) PROVE Owned(h)'
    <3>1. OnSessionEmpty(rec[s].gen)
      BY <2>2 DEF NotifyEmpty
    <3>2. h # rec[s].gen \/ SessionsOf(h) # {}
      BY <1>4, <3>1
    <3>3. /\ state'[h] = state[h] /\ destroy'[h] = destroy[h]
          /\ timer'[h] = timer[h] /\ waiting'[h] = waiting[h] /\ retry' = retry
      BY <3>1, <3>2, EmptyElsewhere
    <3> QED
      BY <1>0, <1>1, <1>2, <1>4, <3>3, OwnerKept DEF LeftAlone
  <2>3. ASSUME NEW s \in Sessions, FinishNaturally(s) \/ RegistryFinish(s)
        PROVE  Owned(h)'
    BY <2>1, <2>3 DEF FinishNaturally, RegistryFinish
  <2>4. ASSUME NEW k \in LoopKinds, NEW g \in Generations, ForceStep(k, g)
        PROVE  Owned(h)'
    BY <2>1, <2>4 DEF ForceStep, ClaimForce, CompleteForce, LoopNext
  <2> QED
    BY <2>2, <2>3, <2>4 DEF RegistryStep, HandleStep
<1> QED
  BY <1>3, <1>4

\* Activate and enforceLimit.
LEMMA OwnerPublisher ==
  ASSUME TypeOK, ActiveInv, EntryInv, OwnerInv,
         UNCHANGED registry,
         \/ \E g \in Generations, kind \in TimerKinds, r \in SUBSET Entities :
               Activate(g, kind, r)
         \/ PublisherStep
         \/ CancelActivate
  PROVE  OwnerInv'
<1> USE DEF controller, entry, callers
<1> SUFFICES ASSUME NEW h \in Generations PROVE Owned(h)'
  BY DEF OwnerInv
<1>0. Owned(h) /\ Callback(h)' = Callback(h) /\ SessionsOf(h)' = SessionsOf(h)
  BY DEF OwnerInv, Callback, SessionsOf, registry
<1>1. ASSUME NEW g \in Generations, NEW kind \in TimerKinds, NEW r \in SUBSET Entities,
             Activate(g, kind, r)
      PROVE  Owned(h)'
  <2>1. CASE h = g
    <3>1. state'[h] = "applied" /\ h \in entries'
      BY <1>1, <2>1 DEF Activate, ActiveInv, TypeOK
    <3> QED
      BY <3>1 DEF Owned
  <2>2. CASE h # g /\ h = active
    <3>1. /\ state'[h] = "draining" /\ pub'.pc = "revoke" /\ pub'.gen = h
          /\ destroy' = destroy /\ state[h] = "applied" /\ entries \subseteq entries'
      BY <1>1, <2>2, NoneAssumption DEF Activate, ActiveInv, TypeOK, IdlePublisher
    <3> QED
      BY <1>0, <3>1 DEF Owned, DrainOwned, Released
  <2>3. CASE h # g /\ h # active
    <3>1. LeftAlone(h)
      BY <1>0, <1>1, <2>3 DEF Activate, LeftAlone, TypeOK
    <3> QED
      BY <1>0, <3>1, OwnerKept
  <2> QED
    BY <2>1, <2>2, <2>3
<1>2. CASE EntitiesForced \/ CancelActivate
  <2>1. LeftAlone(h)
    BY <1>0, <1>2 DEF EntitiesForced, CancelActivate, LeftAlone, TypeOK, Publisher
  <2> QED
    BY <1>0, <2>1, OwnerKept
<1>3. CASE ActivateNotify
  <2>0. OnSessionEmpty(pub.gen) /\ UNCHANGED <<closed, entries, life, prog>>
    BY <1>3 DEF ActivateNotify
  <2>1. CASE h = pub.gen /\ SessionsOf(h) = {}
    BY <1>0, <2>0, <2>1, EmptyOwner
  <2>2. CASE h = pub.gen /\ SessionsOf(h) # {}
    <3>1. UNCHANGED <<entry, waiting>>
      BY <2>0, <2>2 DEF OnSessionEmpty
    <3>2. Callback(h)'
      BY <1>0, <2>2 DEF Callback
    <3> QED
      BY <1>0, <2>0, <3>1, <3>2 DEF Owned, DrainOwned, RetryOwned, Released
  <2>3. CASE h # pub.gen
    <3>1. LeftAlone(h)
      BY <1>0, <2>0, <2>3, EmptyElsewhere DEF LeftAlone
    <3> QED
      BY <1>0, <3>1, OwnerKept
  <2> QED
    BY <2>1, <2>2, <2>3
<1>4. CASE EnforceLimit
  <2>1. LeftAlone(h)
    <3>1. waiting[h] \subseteq waiting'[h] /\ pub.pc = "limit"
      <4>1. \/ waiting' = waiting
            \/ \E n \in Candidates :
                 waiting' = [waiting EXCEPT ![order[n]] = @ \union {"limit"}]
        BY <1>4 DEF EnforceLimit
      <4> QED
        BY <1>4, <4>1 DEF EnforceLimit, TypeOK
    <3> QED
      BY <1>0, <1>4, <3>1 DEF EnforceLimit, LeftAlone
  <2> QED
    BY <1>0, <2>1, OwnerKept
<1> QED
  BY <1>1, <1>2, <1>3, <1>4 DEF PublisherStep

\* The result of a force reaches an Activate that waits for it, and none that
\* is still revoking.
LEMMA ReturnKeeps ==
  ASSUME TypeOK, CallerInv, NEW g \in Generations, NEW role, Return(role),
         role \in waiting[g] \/ role = life[g].role
  PROVE  pub.pc \in {"revoke", "notify"} => pub' = pub
BY DEF Return, CallerInv

\* The timers.
LEMMA OwnerTimers ==
  ASSUME TypeOK, ActiveInv, EntryInv, OwnerInv, UNCHANGED registry,
         \E g \in Generations : RetireActive(g) \/ TimerStep(g)
  PROVE  OwnerInv'
<1> USE DEF controller, entry, callers
<1> SUFFICES ASSUME NEW h \in Generations PROVE Owned(h)'
  BY DEF OwnerInv
<1>0. /\ Owned(h)
      /\ Callback(h)' = Callback(h) /\ SessionsOf(h)' = SessionsOf(h)
      /\ h \in Generations
  BY DEF OwnerInv, Callback, SessionsOf, registry
<1>1. ASSUME NEW g \in Generations, RetireActive(g) PROVE Owned(h)'
  <2>1. CASE h = g
    BY <1>0, <1>1, <2>1 DEF RetireActive, Owned, DrainOwned, Released, TypeOK
  <2>2. CASE h # g
    <3>1. LeftAlone(h)
      BY <1>0, <1>1, <2>2 DEF RetireActive, LeftAlone, TypeOK
    <3> QED
      BY <1>0, <3>1, OwnerKept
  <2> QED
    BY <2>1, <2>2
<1>2. ASSUME NEW g \in Generations, DrainTimerFires(g) PROVE Owned(h)'
  <2>1. CASE h = g
    <3>1. /\ UNCHANGED <<closed, entries, state, destroy, retry, life, pub>>
          /\ waiting[h] \subseteq waiting'[h]
          /\ state[h] = "draining" =>
               "timeout" \in waiting'[h] \/ prog'[h] # "idle"
      BY <1>0, <1>2, <2>1 DEF DrainTimerFires, EntryInv, Serving, Released, TypeOK
    <3> QED
      BY <1>0, <3>1 DEF Owned, DrainOwned, RetryOwned, Released
  <2>2. CASE h # g
    <3>1. LeftAlone(h)
      BY <1>0, <1>2, <2>2 DEF DrainTimerFires, LeftAlone, TypeOK
    <3> QED
      BY <1>0, <3>1, OwnerKept
  <2> QED
    BY <2>1, <2>2
<1>3. ASSUME NEW g \in Generations, RetryTimerFires(g) PROVE Owned(h)'
  <2>1. /\ UNCHANGED <<closed, entries, state, destroy, timer, life, prog, pub>>
        /\ waiting[h] \subseteq waiting'[h]
        /\ h \in retry => h \in retry' \/ "retry" \in waiting'[h]
    BY <1>0, <1>3 DEF RetryTimerFires, TypeOK
  <2> QED
    BY <1>0, <2>1 DEF Owned, DrainOwned, RetryOwned, RetryRoles, Released
<1>4. ASSUME NEW g \in Generations, ProgressiveForced(g) PROVE Owned(h)'
  <2>1. LeftAlone(h)
    BY <1>0, <1>4 DEF ProgressiveForced, LeftAlone, TypeOK
  <2> QED
    BY <1>0, <2>1, OwnerKept
<1>5. ASSUME NEW g \in Generations, NotifyRetired(g) PROVE Owned(h)'
  <2>0. OnSessionEmpty(g) /\ UNCHANGED <<closed, entries, life, pub>>
    BY <1>5 DEF NotifyRetired
  <2>1. CASE h = g /\ SessionsOf(h) = {}
    BY <1>0, <2>0, <2>1, EmptyOwner
  <2>2. CASE h = g /\ SessionsOf(h) # {}
    <3>1. UNCHANGED <<entry, waiting>>
      BY <2>0, <2>2 DEF OnSessionEmpty
    <3>2. Callback(h)'
      BY <1>0, <2>2 DEF Callback
    <3> QED
      BY <1>0, <2>0, <3>1, <3>2 DEF Owned, DrainOwned, RetryOwned, Released
  <2>3. CASE h # g
    <3>1. LeftAlone(h)
      BY <1>0, <1>5, <2>0, <2>3, EmptyElsewhere DEF NotifyRetired, LeftAlone, TypeOK
    <3> QED
      BY <1>0, <3>1, OwnerKept
  <2> QED
    BY <2>1, <2>2, <2>3
<1> QED
  BY <1>1, <1>2, <1>3, <1>4, <1>5 DEF TimerStep

\* The lifecycle lock.
LEMMA OwnerLocks ==
  ASSUME TypeOK, ActiveInv, EntryInv, CallerInv, KnownInv, OwnerInv,
         UNCHANGED registry, NEW g \in Generations, LockStep(g)
  PROVE  OwnerInv'
<1> USE DEF controller, entry, callers
<1> SUFFICES ASSUME NEW h \in Generations PROVE Owned(h)'
  BY DEF OwnerInv
<1>0. /\ Owned(h)
      /\ Callback(h)' = Callback(h) /\ SessionsOf(h)' = SessionsOf(h)
  BY DEF OwnerInv, Callback, SessionsOf, registry
<1>1. ASSUME NEW role \in Roles, ForceGeneration(g, role) PROVE Owned(h)'
  <2>0. /\ role \in ForceRoles /\ life[g].pc = "free"
        /\ UNCHANGED <<closed, entries, destroy, retry, prog>>
        /\ waiting' = [waiting EXCEPT ![g] = @ \ {role}] /\ role \in waiting[g]
        /\ role = "shutdown" => closed /\ state[g] # "absent"
    BY <1>1 DEF ForceGeneration, TakeLock, ActiveInv, KnownInv
  <2>1. pub.pc \in {"revoke", "notify"} => pub' = pub
    BY <1>1, <2>0, ReturnKeeps DEF ForceGeneration
  <2>2. CASE h # g
    <3>1. state'[h] = state[h] /\ life'[h] = life[h] /\ timer'[h] = timer[h]
      BY <1>1, <2>2 DEF ForceGeneration, BeginCleanup, TypeOK
    <3>2. LeftAlone(h)
      BY <1>0, <2>0, <2>1, <2>2, <3>1 DEF LeftAlone, TypeOK
    <3> QED
      BY <1>0, <3>2, OwnerKept
  <2>3. CASE h = g /\ UNCHANGED <<entry, life>> /\ (Released(g) \/ ~Forceable(g, role))
    <3>1. state[g] # "draining"
      BY <2>3 DEF Forceable, Released, EntryInv, Serving
    <3>2. \A r \in RetryRoles \union {"natural"} : r \in waiting[g] => r \in waiting'[g]
      BY <2>0 DEF ForceRoles, RetryRoles, TypeOK
    <3> QED
      BY <1>0, <2>0, <2>3, <3>1, <3>2 DEF Owned, RetryOwned, Released
  <2>4. CASE h = g /\ CleanupOnly(g) /\ BeginCleanup(g, role) /\ UNCHANGED entry
    <3>1. life'[g].pc # "free" /\ state[g] # "draining"
      BY <2>4 DEF CleanupOnly, BeginCleanup, TypeOK
    <3> QED
      BY <1>0, <2>0, <2>4, <3>1 DEF Owned, Released
  <2>5. CASE h = g /\ Forceable(g, role) /\ state' = [state EXCEPT ![g] = "forced"]
    <3>1. state'[g] = "forced" /\ state[g] # "absent"
      BY <2>0, <2>5 DEF Forceable, TypeOK
    <3> QED
      BY <1>0, <2>0, <2>5, <3>1 DEF Owned, Released
  <2> QED
    BY <1>1, <2>2, <2>3, <2>4, <2>5 DEF ForceGeneration
<1>2. ASSUME NEW role \in Roles, RetryCleanup(g, role) PROVE Owned(h)'
  <2>0. /\ role \in RetryRoles
        /\ UNCHANGED <<closed, entries, state, destroy, timer, prog, pub>>
        /\ waiting' = [waiting EXCEPT ![g] = @ \ {role}]
    BY <1>2 DEF RetryCleanup, TakeLock
  <2>2. CASE h # g
    <3>1. life'[h] = life[h] /\ (h \in retry => h \in retry')
      BY <1>2, <2>2 DEF RetryCleanup, BeginCleanup, TypeOK
    <3>2. LeftAlone(h)
      BY <1>0, <2>0, <2>2, <3>1 DEF LeftAlone, TypeOK
    <3> QED
      BY <1>0, <3>2, OwnerKept
  <2>3. CASE h = g /\ UNCHANGED life /\ (state[g] # "cleanup_failed" \/ SessionsOf(g) # {})
    <3>1. \A r \in {"natural", "timeout"} : r \in waiting[g] => r \in waiting'[g]
      BY <2>0 DEF RetryRoles, TypeOK
    <3>2. SessionsOf(g) # {} => Callback(g)'
      BY <1>0, <2>3 DEF Callback
    <3> QED
      BY <1>0, <2>0, <2>3, <3>1, <3>2 DEF Owned, DrainOwned, RetryOwned, Released
  <2>4. CASE h = g /\ state[g] = "cleanup_failed" /\ BeginCleanup(g, role)
    <3>1. life'[g].pc # "free"
      BY <2>4 DEF BeginCleanup, TypeOK
    <3> QED
      BY <1>0, <2>0, <2>4, <3>1 DEF Owned, Released
  <2> QED
    BY <1>2, <2>2, <2>3, <2>4 DEF RetryCleanup
<1>3. ASSUME NEW role \in Roles, AbandonLock(g, role) PROVE Owned(h)'
  <2>0. /\ role \in {"limit", "shutdown"} /\ role \in waiting[g]
        /\ UNCHANGED <<closed, entries, state, destroy, timer, retry, life, prog>>
        /\ waiting' = [waiting EXCEPT ![g] = @ \ {role}]
    BY <1>3 DEF AbandonLock, Cancelled
  <2>1. pub.pc \in {"revoke", "notify"} => pub' = pub
    BY <1>3, <2>0, ReturnKeeps DEF AbandonLock
  <2>2. \A r \in RetryRoles \union {"natural", "timeout"} :
          r \in waiting[h] => r \in waiting'[h]
    BY <2>0 DEF RetryRoles, TypeOK
  <2> QED
    BY <1>0, <2>0, <2>1, <2>2 DEF Owned, DrainOwned, RetryOwned, Released
<1>4. ASSUME NaturalCleanup(g) PROVE Owned(h)'
  <2>0. /\ UNCHANGED <<closed, entries, state, destroy, timer, retry, prog, pub>>
        /\ waiting' = [waiting EXCEPT ![g] = @ \ {"natural"}]
    BY <1>4 DEF NaturalCleanup, TakeLock
  <2>1. \A r \in RetryRoles \union {"timeout"} : r \in waiting[h] => r \in waiting'[h]
    BY <2>0 DEF RetryRoles, TypeOK
  <2>2. CASE h # g
    <3>1. life'[h] = life[h]
      BY <1>4, <2>2 DEF NaturalCleanup, BeginCleanup, TypeOK
    <3>2. LeftAlone(h)
      BY <1>0, <2>0, <2>2, <3>1 DEF LeftAlone, TypeOK
    <3> QED
      BY <1>0, <3>2, OwnerKept
  <2>3. CASE h = g /\ UNCHANGED life /\ (Released(g) \/ state[g] # "drained")
    BY <1>0, <2>0, <2>1, <2>3 DEF Owned, DrainOwned, RetryOwned, Released
  <2>4. CASE h = g /\ state[g] = "drained" /\ BeginCleanup(g, "natural")
    <3>1. life'[g].pc # "free"
      BY <2>4 DEF BeginCleanup, TypeOK
    <3> QED
      BY <1>0, <2>0, <2>4, <3>1 DEF Owned, Released
  <2> QED
    BY <1>4, <2>2, <2>3, <2>4 DEF NaturalCleanup
<1> QED
  BY <1>1, <1>2, <1>3, <1>4 DEF LockStep

\* The cleanup: whoever gives the lock up leaves a retry, a session or a
\* released generation behind.
LEMMA OwnerCleanup ==
  ASSUME TypeOK, ActiveInv, EntryInv, CallerInv, OwnerInv, UNCHANGED registry,
         NEW g \in Generations,
         CleanupStep(g) \/ \E success \in BOOLEAN : DestroyReturns(g, success)
  PROVE  OwnerInv'
<1> USE DEF controller, entry, callers
<1> SUFFICES ASSUME NEW h \in Generations PROVE Owned(h)'
  BY DEF OwnerInv
<1>0. /\ Owned(h) /\ Owned(g)
      /\ Callback(h)' = Callback(h) /\ SessionsOf(h)' = SessionsOf(h)
  BY DEF OwnerInv, Callback, SessionsOf, registry
<1>1. ASSUME CountRemaining(g) PROVE Owned(h)'
  <2>0. /\ life[g].pc = "force" /\ state[g] = "forced" /\ destroy[g] = "idle"
        /\ UNCHANGED <<closed, entries, destroy, timer, retry, waiting, prog>>
    BY <1>1 DEF CountRemaining, EntryInv
  <2>1. pub.pc \in {"revoke", "notify"} => pub' = pub
    BY <1>1, ReturnKeeps DEF CountRemaining
  <2>2. CASE h # g
    <3>1. life'[h] = life[h] /\ state'[h] = state[h]
      BY <1>1, <2>2 DEF CountRemaining, BeginCleanup, ReleaseLock, TypeOK
    <3>2. LeftAlone(h)
      BY <1>0, <2>0, <2>1, <3>1 DEF LeftAlone
    <3> QED
      BY <1>0, <3>2, OwnerKept
  <2>3. CASE h = g /\ SessionsOf(g) # {} /\ state' = [state EXCEPT ![g] = "cleanup_failed"]
    <3>1. Callback(g)' /\ state'[g] = "cleanup_failed" /\ g \in entries
      BY <1>0, <2>0, <2>3 DEF Callback, Owned, Released, TypeOK
    <3> QED
      BY <2>0, <2>3, <3>1 DEF Owned, RetryOwned
  <2>4. CASE h = g /\ UNCHANGED state /\ BeginCleanup(g, life[g].role)
    BY <1>0, <2>0, <2>4 DEF Owned, Released
  <2> QED
    BY <1>1, <2>2, <2>3, <2>4 DEF CountRemaining, Remaining
<1>2. ASSUME \/ StartDestroy(g) \/ DestroyAgain(g)
             \/ \E success \in BOOLEAN : DestroyReturns(g, success)
      PROVE  Owned(h)'
  <2>0. /\ UNCHANGED <<closed, entries, state, timer, retry, waiting, prog, pub>>
        /\ destroy'[h] = "destroyed" <=> destroy[h] = "destroyed"
    BY <1>2 DEF StartDestroy, DestroyAgain, DestroyReturns, TypeOK
  <2>1. life[h].pc # "free" => life'[h].pc # "free"
    BY <1>2, SMTT(30) DEF StartDestroy, DestroyAgain, DestroyReturns, TypeOK, Life
  <2> QED
    BY <1>0, <2>0, <2>1 DEF Owned, DrainOwned, RetryOwned, Released
<1>3. ASSUME CleanupFails(g) PROVE Owned(h)'
  <2>0. /\ life[g].pc # "free" /\ state[g] \notin Serving
        /\ UNCHANGED <<closed, entries, timer, waiting, prog>>
        /\ destroy[g] # "destroyed" /\ retry' = RetryScheduled(g)
    BY <1>3, HeldIsNotServing DEF CleanupFails
  <2>1. pub.pc \in {"revoke", "notify"} => pub' = pub
    BY <1>3, ReturnKeeps DEF CleanupFails
  <2>2. CASE h # g
    <3>1. life'[h] = life[h] /\ state'[h] = state[h] /\ destroy'[h] = destroy[h]
      BY <1>3, <2>2 DEF CleanupFails, ReleaseLock, TypeOK
    <3>2. LeftAlone(h)
      BY <1>0, <2>0, <2>1, <3>1 DEF LeftAlone, RetryScheduled
    <3> QED
      BY <1>0, <3>2, OwnerKept
  <2>3. CASE h = g
    <3>1. state'[g] = "cleanup_failed" /\ g \in entries'
      BY <1>0, <1>3, <2>0 DEF CleanupFails, Owned, Released, Serving, TypeOK
    <3>2. closed' \/ g \in retry'
      BY <2>0 DEF RetryScheduled
    <3> QED
      BY <2>3, <3>1, <3>2 DEF Owned, RetryOwned
  <2> QED
    BY <2>2, <2>3
<1>4. ASSUME CleanupDone(g) PROVE Owned(h)'
  <2>0. UNCHANGED <<closed, waiting, prog>> /\ entries' = Retained(g)
    BY <1>4 DEF CleanupDone
  <2>1. pub.pc \in {"revoke", "notify"} => pub' = pub
    BY <1>4, ReturnKeeps DEF CleanupDone
  <2>2. CASE h # g
    <3>1. /\ life'[h] = life[h] /\ state'[h] = state[h] /\ destroy'[h] = destroy[h]
          /\ timer'[h] = timer[h] /\ (h \in retry => h \in retry')
      BY <1>4, <2>2 DEF CleanupDone, ReleaseLock, TypeOK
    <3>2. h \in entries /\ ~Released(h) => h \in entries'
      BY <2>0, <2>2 DEF Retained
    <3> QED
      BY <1>0, <2>0, <2>1, <3>1, <3>2 DEF Owned, DrainOwned, RetryOwned, Released
  <2>3. CASE h = g
    <3>1. /\ state'[g] = final[g] /\ destroy'[g] = "destroyed"
          /\ state'[g] \notin {"draining", "cleanup_failed"}
      BY <1>4 DEF CleanupDone, TypeOK
    <3> QED
      BY <2>3, <3>1 DEF Owned, Released
  <2> QED
    BY <2>2, <2>3
<1> QED
  BY <1>1, <1>2, <1>3, <1>4 DEF CleanupStep

----------------------------------------------------------------------------
(* What no step undoes *)

\* Apart from Activate and RetireActive, no step makes a generation draining or
\* takes back that it was activated or released.
Forward ==
  \A g \in Generations :
    /\ state[g] # "absent" => state'[g] # "absent"
    /\ state'[g] = "draining" => state[g] = "draining"
    /\ Released(g) => destroy'[g] = "destroyed"

\* Activate and RetireActive.
Retiring ==
  \/ \E g \in Generations, kind \in TimerKinds, r \in SUBSET Entities :
        Activate(g, kind, r)
  \/ \E g \in Generations : RetireActive(g)

\* onSessionEmpty only goes forward.
LEMMA EmptyForward == ASSUME TypeOK, NEW g, OnSessionEmpty(g) PROVE Forward
BY DEF OnSessionEmpty, Forward, Released, TypeOK, entry

\* So does every step but these two.
LEMMA ForwardNext == ASSUME TypeOK, EntryInv, [Next]_vars PROVE Forward \/ Retiring
<1> USE DEF controller, entry, registry, callers
<1>1. ASSUME UNCHANGED <<state, destroy>> PROVE Forward
  BY <1>1 DEF Forward, Released
<1>2. ASSUME NEW s \in Sessions, FinishNaturally(s) \/ HandleStep(s) PROVE Forward
  BY <1>1, <1>2, EmptyForward DEF FinishNaturally, HandleStep, RegistryFinish, NotifyEmpty
<1>3. ASSUME NEW k \in LoopKinds, NEW g \in Generations, ForceStep(k, g) PROVE Forward
  BY <1>1, <1>3 DEF ForceStep, ClaimForce, CompleteForce, LoopNext
<1>4. CASE PublisherStep \/ CancelActivate
  BY <1>1, <1>4, EmptyForward
  DEF PublisherStep, EntitiesForced, ActivateNotify, EnforceLimit, CancelActivate
<1>5. ASSUME NEW g \in Generations, TimerStep(g) PROVE Forward
  BY <1>1, <1>5, EmptyForward
  DEF TimerStep, DrainTimerFires, RetryTimerFires, ProgressiveForced, NotifyRetired
<1>6. ASSUME NEW g \in Generations, NEW role \in Roles, ForceGeneration(g, role)
      PROVE  Forward
  <2>1. UNCHANGED destroy /\ (state' = state \/ state' = [state EXCEPT ![g] = "forced"])
    BY <1>6 DEF ForceGeneration
  <2> QED
    BY <2>1 DEF Forward, Released, TypeOK
<1>7. ASSUME NEW g \in Generations, NEW role \in Roles,
             RetryCleanup(g, role) \/ AbandonLock(g, role) \/ NaturalCleanup(g)
      PROVE  Forward
  BY <1>1, <1>7 DEF RetryCleanup, AbandonLock, NaturalCleanup
<1>8. ASSUME NEW g \in Generations, CountRemaining(g) PROVE Forward
  <2>1. /\ UNCHANGED destroy
        /\ state' = state \/ state' = [state EXCEPT ![g] = "cleanup_failed"]
    BY <1>8 DEF CountRemaining
  <2> QED
    BY <2>1 DEF Forward, Released, TypeOK
<1>9. ASSUME NEW g \in Generations, NEW success \in BOOLEAN,
             StartDestroy(g) \/ DestroyAgain(g) \/ DestroyReturns(g, success)
      PROVE  Forward
  BY <1>9 DEF StartDestroy, DestroyAgain, DestroyReturns, Forward, Released, TypeOK
<1>10. ASSUME NEW g \in Generations, CleanupFails(g) PROVE Forward
  BY <1>10 DEF CleanupFails, Forward, Released, TypeOK
<1>11. ASSUME NEW g \in Generations, CleanupDone(g) PROVE Forward
  <2>1. final[g] \in {"drained", "forced"}
    BY <1>11, HeldIsNotServing DEF CleanupDone, EntryInv, TypeOK
  <2> QED
    BY <1>11, <2>1 DEF CleanupDone, Forward, Released, TypeOK
<1>12. CASE Close \/ CloseNext \/ CancelClose
  BY <1>1, <1>12 DEF Close, CloseNext, CancelClose
<1>13. ASSUME NEW s \in Sessions, NEW g \in Generations,
              \/ \E e \in Entities, i \in Ids : RegisterSession(s, g, e, i)
              \/ SkipProgressive(g, s)
       PROVE  Forward
  BY <1>1, <1>13 DEF RegisterSession, SkipProgressive
<1>14. CASE UNCHANGED vars
  BY <1>1, <1>14 DEF vars
<1>15. "natural" \in Roles
  BY DEF Roles
<1> QED
  BY <1>2, <1>3, <1>4, <1>5, <1>6, <1>7, <1>8, <1>9, <1>10, <1>11, <1>12, <1>13, <1>14,
     <1>15
  DEF Next, LockStep, CleanupStep, Retiring

\* An activated generation stays activated, whatever the step.
LEMMA StaysActivated ==
  ASSUME TypeOK, EntryInv, [Next]_vars, NEW g \in Generations, state[g] # "absent"
  PROVE  state'[g] # "absent"
<1>1. CASE Forward
  BY <1>1 DEF Forward
<1>2. ASSUME NEW h \in Generations, NEW kind \in TimerKinds, NEW r \in SUBSET Entities,
             Activate(h, kind, r)
      PROVE  state'[g] # "absent"
  <2>1. \/ state' = [state EXCEPT ![h] = "applied"]
        \/ state' = [state EXCEPT ![h] = "applied", ![active] = "draining"]
    BY <1>2 DEF Activate
  <2> QED
    BY <2>1 DEF TypeOK
<1>3. ASSUME NEW h \in Generations, RetireActive(h) PROVE state'[g] # "absent"
  BY <1>3 DEF RetireActive, TypeOK
<1> QED
  BY <1>1, <1>2, <1>3, ForwardNext DEF Retiring

\* Nobody else begins to wait with whoever does.
LEMMA OneWaiter ==
  ASSUME TypeOK, NEW g, NEW role, waiting' = [waiting EXCEPT ![g] = @ \union {role}],
         NEW h \in Generations, NEW other \in waiting'[h]
  PROVE  other \in waiting[h] \/ (other = role /\ h = g)
BY DEF TypeOK

\* What a step can do to the lists and waiters of Close.
LEMMA CloseLists ==
  ASSUME TypeOK, ActiveInv, [Next]_vars
  PROVE  /\ \/ order' = order
            \/ \E g \in Generations : order' = Append(order, g) /\ state'[g] = "applied"
         /\ \/ closer'.todo = closer.todo
            \/ closer'.todo = order
            \/ closer.todo # <<>> /\ closer'.todo = Tail(closer.todo)
         /\ \A g \in Generations : "shutdown" \in waiting'[g] =>
              "shutdown" \in waiting[g] \/ (closer.todo # <<>> /\ g = Head(closer.todo))
<1> USE DEF controller, entry, registry, callers
<1> DEFINE Lists ==
      /\ \/ order' = order
         \/ \E g \in Generations : order' = Append(order, g) /\ state'[g] = "applied"
      /\ \/ closer'.todo = closer.todo
         \/ closer'.todo = order
         \/ closer.todo # <<>> /\ closer'.todo = Tail(closer.todo)
      /\ \A g \in Generations : "shutdown" \in waiting'[g] =>
           "shutdown" \in waiting[g] \/ (closer.todo # <<>> /\ g = Head(closer.todo))
<1>1. ASSUME UNCHANGED <<order, closer>>,
             \A g \in Generations : "shutdown" \in waiting'[g] => "shutdown" \in waiting[g]
      PROVE  Lists
  BY <1>1
<1>2. ASSUME NEW g, OnSessionEmpty(g)
      PROVE  \A h \in Generations : "shutdown" \in waiting'[h] => "shutdown" \in waiting[h]
  BY <1>2 DEF OnSessionEmpty, TypeOK
<1>3. ASSUME NEW role, Return(role) PROVE closer'.todo = closer.todo
  BY <1>3 DEF Return, TypeOK, Closer
<1>4. ASSUME NEW s \in Sessions, FinishNaturally(s) \/ HandleStep(s) PROVE Lists
  BY <1>1, <1>2, <1>4 DEF FinishNaturally, HandleStep, RegistryFinish, NotifyEmpty
<1>5. ASSUME NEW k \in LoopKinds, NEW g \in Generations, ForceStep(k, g) PROVE Lists
  BY <1>1, <1>5 DEF ForceStep, ClaimForce, CompleteForce, LoopNext
<1>6. ASSUME EntitiesForced \/ ActivateNotify \/ CancelActivate PROVE Lists
  BY <1>1, <1>2, <1>6 DEF EntitiesForced, ActivateNotify, CancelActivate
<1>7. ASSUME EnforceLimit PROVE Lists
  <2>1. \/ waiting' = waiting
        \/ \E n \in Candidates :
             waiting' = [waiting EXCEPT ![order[n]] = @ \union {"limit"}]
    BY <1>7 DEF EnforceLimit
  <2>2. ASSUME NEW n \in Candidates, NEW g \in Generations, "shutdown" \in waiting'[g],
               waiting' = [waiting EXCEPT ![order[n]] = @ \union {"limit"}]
        PROVE  "shutdown" \in waiting[g]
    BY <2>2, OneWaiter
  <2>3. UNCHANGED <<order, closer>>
    BY <1>7 DEF EnforceLimit
  <2>4. \A g \in Generations : "shutdown" \in waiting'[g] => "shutdown" \in waiting[g]
    BY <2>1, <2>2
  <2> QED
    BY <1>1, <2>3, <2>4
<1>8. ASSUME NEW g \in Generations, NEW kind \in TimerKinds, NEW r \in SUBSET Entities,
             Activate(g, kind, r)
      PROVE  Lists
  <2>1. state'[g] = "applied"
    BY <1>8, NoneAssumption DEF Activate, ActiveInv, TypeOK
  <2> QED
    BY <1>8, <2>1 DEF Activate
<1>9. ASSUME NEW g \in Generations, RetireActive(g) PROVE Lists
  BY <1>1, <1>9 DEF RetireActive
<1>10. ASSUME NEW g \in Generations, TimerStep(g) PROVE Lists
  <2>1. \A h \in Generations : "shutdown" \in waiting'[h] => "shutdown" \in waiting[h]
    <3>1. \/ UNCHANGED waiting
          \/ OnSessionEmpty(g)
          \/ \E role \in {"timeout", "retry"} :
               waiting' = [waiting EXCEPT ![g] = @ \union {role}]
      BY <1>10
      DEF TimerStep, DrainTimerFires, RetryTimerFires, ProgressiveForced, NotifyRetired
    <3>2. ASSUME NEW role \in {"timeout", "retry"},
                 waiting' = [waiting EXCEPT ![g] = @ \union {role}], NEW h \in Generations,
                 "shutdown" \in waiting'[h]
          PROVE  "shutdown" \in waiting[h]
      BY <3>2, OneWaiter
    <3> QED
      BY <1>2, <3>1, <3>2
  <2> QED
    BY <1>1, <1>10, <2>1
    DEF TimerStep, DrainTimerFires, RetryTimerFires, ProgressiveForced, NotifyRetired
<1>11. ASSUME NEW g \in Generations, LockStep(g) PROVE Lists
  <2>1. /\ order' = order
        /\ \E role : waiting' = [waiting EXCEPT ![g] = @ \ {role}]
    BY <1>11 DEF LockStep, ForceGeneration, RetryCleanup, AbandonLock, NaturalCleanup,
                 TakeLock
  <2>2. closer'.todo = closer.todo
    BY <1>3, <1>11 DEF LockStep, ForceGeneration, RetryCleanup, AbandonLock, NaturalCleanup
  <2> QED
    BY <2>1, <2>2 DEF TypeOK
<1>12. ASSUME NEW g \in Generations, CleanupStep(g) PROVE Lists
  <2>1. UNCHANGED <<order, waiting>>
    BY <1>12 DEF CleanupStep, CountRemaining, StartDestroy, DestroyAgain, CleanupFails,
                 CleanupDone
  <2>2. closer'.todo = closer.todo
    BY <1>3, <1>12
    DEF CleanupStep, CountRemaining, StartDestroy, DestroyAgain, CleanupFails, CleanupDone
  <2> QED
    BY <2>1, <2>2
<1>13. ASSUME NEW g \in Generations, NEW success \in BOOLEAN, DestroyReturns(g, success)
       PROVE  Lists
  BY <1>1, <1>13 DEF DestroyReturns
<1>14. ASSUME Close \/ CancelClose PROVE Lists
  BY <1>14 DEF Close, CancelClose, TypeOK, Closer
<1>15. ASSUME CloseNext PROVE Lists
  <2>1. /\ order' = order
        /\ \/ closer'.todo = closer.todo
           \/ closer.todo # <<>> /\ closer'.todo = Tail(closer.todo)
    BY <1>15 DEF CloseNext, TypeOK, Closer
  <2>2. \/ waiting' = waiting
        \/ /\ closer.todo # <<>>
           /\ waiting' = [waiting EXCEPT ![Head(closer.todo)] = @ \union {"shutdown"}]
    BY <1>15 DEF CloseNext
  <2>3. \A g \in Generations : "shutdown" \in waiting'[g] =>
          "shutdown" \in waiting[g] \/ (closer.todo # <<>> /\ g = Head(closer.todo))
    BY <2>2, OneWaiter
  <2> QED
    BY <2>1, <2>3
<1>16. ASSUME NEW s \in Sessions, NEW g \in Generations,
              \/ \E e \in Entities, i \in Ids : RegisterSession(s, g, e, i)
              \/ SkipProgressive(g, s)
       PROVE  Lists
  BY <1>1, <1>16 DEF RegisterSession, SkipProgressive
<1>17. ASSUME UNCHANGED vars PROVE Lists
  BY <1>1, <1>17 DEF vars
<1> HIDE DEF Lists
<1>18. Lists
  BY <1>4, <1>5, <1>6, <1>7, <1>8, <1>9, <1>10, <1>11, <1>12, <1>13, <1>14, <1>15, <1>16,
     <1>17
  DEF Next, PublisherStep
<1> QED
  BY <1>18 DEF Lists

\* Close never comes to a generation that was not activated.
LEMMA KnownNext ==
  ASSUME TypeOK, ActiveInv, EntryInv, KnownInv, [Next]_vars PROVE KnownInv'
<1>0. /\ order \in Seq(Generations) /\ closer.todo \in Seq(Generations)
      /\ \A g \in Generations : state[g] # "absent" => state'[g] # "absent"
  BY StaysActivated DEF TypeOK, Closer
<1>1. \A n \in 1..Len(order') : state'[order'[n]] # "absent"
  <2>1. CASE order' = order
    BY <1>0, <2>1 DEF KnownInv
  <2>2. ASSUME NEW g \in Generations, order' = Append(order, g), state'[g] = "applied"
        PROVE  \A n \in 1..Len(order') : state'[order'[n]] # "absent"
    BY <1>0, <2>2 DEF KnownInv
  <2> QED
    BY <2>1, <2>2, CloseLists
<1>2. \A n \in 1..Len(closer'.todo) : state'[closer'.todo[n]] # "absent"
  <2>1. CASE closer'.todo = closer.todo \/ closer'.todo = order
    BY <1>0, <2>1 DEF KnownInv
  <2>2. CASE closer.todo # <<>> /\ closer'.todo = Tail(closer.todo)
    BY <1>0, <2>2 DEF KnownInv
  <2> QED
    BY <2>1, <2>2, CloseLists
<1>3. \A g \in Generations : "shutdown" \in waiting'[g] => state'[g] # "absent"
  <2>1. closer.todo # <<>> => state[Head(closer.todo)] # "absent"
    BY <1>0 DEF KnownInv
  <2> QED
    BY <1>0, <2>1, CloseLists DEF KnownInv
<1> QED
  BY <1>1, <1>2, <1>3 DEF KnownInv

----------------------------------------------------------------------------
(* Every retired generation has an owner *)

\* Every step leaves every generation with its owner.
LEMMA OwnerNext ==
  ASSUME Inv, FinishInv, KnownInv, OwnerInv, [Next]_vars PROVE OwnerInv'
<1>0. TypeOK /\ ActiveInv /\ EntryInv /\ RecordInv /\ CallerInv
  BY DEF Inv
<1> USE DEF controller, entry, registry, callers
<1>1. ASSUME NEW s \in Sessions, NEW g \in Generations, NEW e \in Entities,
             NEW i \in Ids, RegisterSession(s, g, e, i), NEW h \in Generations
      PROVE  Owned(h)'
  <2>1. Callback(h) => Callback(h)'
    <3>1. \A t \in Sessions : t # s => rec'[t] = rec[t]
      BY <1>0, <1>1 DEF RegisterSession, TypeOK
    <3>2. rec[s].handle = "unused" /\ registered' = registered \union {s}
      BY <1>1 DEF RegisterSession
    <3>3. rec[s].gen = None /\ s \notin registered /\ None \notin Generations
      BY <1>0, <3>2, NoneAssumption DEF FinishInv, RecordInv
    <3>4. ASSUME NEW t \in SessionsOf(h) PROVE t \in SessionsOf(h)'
      BY <1>0, <3>1, <3>2, <3>3, <3>4 DEF SessionsOf, TypeOK
    <3>5. ASSUME NEW t \in Sessions, rec[t].gen = h, rec[t].unregister = "notify"
          PROVE  rec'[t].gen = h /\ rec'[t].unregister = "notify"
      BY <3>1, <3>3, <3>5
    <3> QED
      BY <3>4, <3>5 DEF Callback
  <2>2. LeftAlone(h)
    BY <1>1, <2>1 DEF RegisterSession, LeftAlone
  <2> QED
    BY <2>2, OwnerKept DEF OwnerInv
<1>2. CASE RegistryStep
  BY <1>0, <1>2, OwnerRegistry
<1>3. ASSUME NEW g \in Generations, NEW s \in Sessions, SkipProgressive(g, s),
             NEW h \in Generations
      PROVE  Owned(h)'
  <2>1. LeftAlone(h)
    BY <1>3 DEF SkipProgressive, LeftAlone, Callback, SessionsOf
  <2> QED
    BY <2>1, OwnerKept DEF OwnerInv
<1>4. ASSUME Close \/ CloseNext \/ CancelClose, NEW h \in Generations PROVE Owned(h)'
  <2>0. Callback(h)' = Callback(h)
    BY <1>4 DEF Close, CloseNext, CancelClose, Callback, SessionsOf
  <2>1. CASE Close
    BY <2>1 DEF Close, OwnerInv, Owned, Released
  <2>2. CASE CloseNext \/ CancelClose
    <3>1. waiting[h] \subseteq waiting'[h]
      <4>1. \/ waiting' = waiting
            \/ waiting' = [waiting EXCEPT ![Head(closer.todo)] = @ \union {"shutdown"}]
        BY <2>2 DEF CloseNext, CancelClose
      <4> QED
        BY <1>0, <4>1 DEF TypeOK
    <3>2. LeftAlone(h)
      BY <2>0, <2>2, <3>1 DEF CloseNext, CancelClose, LeftAlone
    <3> QED
      BY <3>2, OwnerKept DEF OwnerInv
  <2> QED
    BY <1>4, <2>1, <2>2
<1>5. CASE ControllerStep
  <2>0. UNCHANGED registry
    BY <1>5, ControllerKeepsRegistry
  <2>1. CASE \/ \E g \in Generations, kind \in TimerKinds, r \in SUBSET Entities :
                  Activate(g, kind, r)
             \/ PublisherStep
             \/ CancelActivate
    BY <1>0, <2>0, <2>1, OwnerPublisher
  <2>2. CASE \E g \in Generations : RetireActive(g) \/ TimerStep(g)
    BY <1>0, <2>0, <2>2, OwnerTimers
  <2>3. ASSUME NEW g \in Generations, LockStep(g) PROVE OwnerInv'
    BY <1>0, <2>0, <2>3, OwnerLocks
  <2>4. ASSUME NEW g \in Generations,
               CleanupStep(g) \/ \E success \in BOOLEAN : DestroyReturns(g, success)
        PROVE  OwnerInv'
    BY <1>0, <2>0, <2>4, OwnerCleanup
  <2> QED
    BY <1>3, <1>4, <1>5, <2>1, <2>2, <2>3, <2>4 DEF ControllerStep, OwnerInv
<1>6. CASE UNCHANGED vars
  BY <1>6 DEF vars, OwnerInv, Owned, DrainOwned, RetryOwned, Callback, SessionsOf, Released
<1> QED
  BY <1>1, <1>2, <1>5, <1>6, NextSplit DEF OwnerInv

\* The inductive invariant together with what it lacks for the owners.
OwnedInv == Inv /\ FinishInv /\ KnownInv /\ OwnerInv

\* A new controller has nothing that needs an owner.
LEMMA OwnedInit == NewDrainController => OwnedInv
<1> SUFFICES ASSUME NewDrainController PROVE OwnedInv
  OBVIOUS
<1>1. FinishInv
  BY DEF NewDrainController, FinishInv, UnusedRecord
<1>2. KnownInv
  BY DEF NewDrainController, KnownInv
<1>3. OwnerInv
  BY DEF NewDrainController, OwnerInv, Owned
<1> QED
  BY <1>1, <1>2, <1>3, InvInit DEF OwnedInv

\* A retired generation has a next step that its state does not turn into nothing
\* (onSessionEmpty, forceGeneration, scheduleCleanupRetryLocked).
THEOREM OwnedInvariance == Spec => []OwnedInv
<1>1. OwnedInv /\ [Next]_vars => OwnedInv'
  BY InvNext, FinishNext, KnownNext, OwnerNext DEF OwnedInv, Inv
<1> QED
  BY <1>1, OwnedInit, PTL DEF Spec

\* A retired generation that is not released is among the entries and somebody
\* will go on with it: a timer, a goroutine, a due retry or the callback of a
\* session (onSessionEmpty, scheduleCleanupRetryLocked, pruneReleasedLocked).
THEOREM OwnerSafety == Spec => []RetiredHasOwner
<1>1. ASSUME OwnedInv, NEW g \in Generations,
             state[g] \notin {"absent", "applied"}, ~Released(g)
      PROVE  /\ g \in entries
             /\ \/ closed
                \/ timer[g] # "none"
                \/ g \in retry
                \/ waiting[g] # {}
                \/ life[g].pc # "free"
                \/ prog[g] # "idle"
                \/ pub.pc \in {"revoke", "notify"} /\ pub.gen = g
                \/ SessionsOf(g) # {}
                \/ \E s \in Sessions : rec[s].gen = g /\ rec[s].unregister = "notify"
  <2>0. TypeOK /\ EntryInv /\ Owned(g)
    BY <1>1 DEF OwnedInv, Inv, OwnerInv
  <2>1. CASE state[g] = "draining"
    BY <1>1, <2>0, <2>1 DEF Owned, DrainOwned, Callback
  <2>2. CASE state[g] = "drained"
    BY <1>1, <2>0, <2>2 DEF Owned
  <2>3. CASE state[g] = "cleanup_failed"
    BY <1>1, <2>0, <2>3 DEF Owned, RetryOwned, Callback
  <2>4. CASE state[g] = "forced"
    BY <1>1, <2>0, <2>4 DEF Owned, EntryInv, Released
  <2> QED
    BY <1>1, <2>0, <2>1, <2>2, <2>3, <2>4 DEF TypeOK, DrainStates
<1>2. OwnedInv => RetiredHasOwner
  BY <1>1 DEF RetiredHasOwner
<1> QED
  BY <1>2, OwnedInvariance, PTL


----------------------------------------------------------------------------
(* enforceLimit *)

\* What the steps other than Activate and RetireActive do to the list of
\* generations and to the active one.
Shrinks == /\ order' = order
           /\ entries' \subseteq entries
           /\ closed => closed'
           /\ closed' \/ active' = active

\* Every step that does neither publish nor retire.
LEMMA ShrinksNext == ASSUME [Next]_vars PROVE Shrinks \/ Retiring
<1> USE DEF controller, entry, registry, callers
<1>1. ASSUME UNCHANGED controller PROVE Shrinks
  BY <1>1 DEF Shrinks
<1>2. ASSUME NEW s \in Sessions, FinishNaturally(s) \/ HandleStep(s) PROVE Shrinks
  BY <1>1, <1>2 DEF FinishNaturally, HandleStep, RegistryFinish, NotifyEmpty
<1>3. ASSUME NEW k \in LoopKinds, NEW g \in Generations, ForceStep(k, g) PROVE Shrinks
  BY <1>1, <1>3 DEF ForceStep, ClaimForce, CompleteForce, LoopNext
<1>4. CASE PublisherStep \/ CancelActivate
  BY <1>1, <1>4 DEF PublisherStep, EntitiesForced, ActivateNotify, EnforceLimit, CancelActivate
<1>5. ASSUME NEW g \in Generations, TimerStep(g) PROVE Shrinks
  BY <1>1, <1>5
  DEF TimerStep, DrainTimerFires, RetryTimerFires, ProgressiveForced, NotifyRetired
<1>6. ASSUME NEW g \in Generations, LockStep(g) PROVE Shrinks
  BY <1>1, <1>6 DEF LockStep, ForceGeneration, RetryCleanup, AbandonLock, NaturalCleanup
<1>7. ASSUME NEW g \in Generations, CleanupStep(g) PROVE Shrinks
  BY <1>7 DEF CleanupStep, CountRemaining, StartDestroy, DestroyAgain, CleanupFails,
              CleanupDone, Retained, Shrinks
<1>8. ASSUME NEW g \in Generations, NEW success \in BOOLEAN, DestroyReturns(g, success)
      PROVE  Shrinks
  BY <1>1, <1>8 DEF DestroyReturns
<1>9. CASE Close \/ CloseNext \/ CancelClose
  BY <1>9 DEF Close, CloseNext, CancelClose, Shrinks
<1>10. ASSUME NEW s \in Sessions, NEW g \in Generations,
              \/ \E e \in Entities, i \in Ids : RegisterSession(s, g, e, i)
              \/ SkipProgressive(g, s)
       PROVE  Shrinks
  BY <1>1, <1>10 DEF RegisterSession, SkipProgressive
<1>11. CASE UNCHANGED vars
  BY <1>1, <1>11 DEF vars
<1> QED
  BY <1>2, <1>3, <1>4, <1>5, <1>6, <1>7, <1>8, <1>9, <1>10, <1>11 DEF Next, Retiring

\* Nothing that happens after Activate has returned makes a generation drain or
\* a generation live.
LEMMA LimitKept ==
  ASSUME TypeOK, LimitInv, Forward, Shrinks, UNCHANGED pub PROVE LimitInv'
<1>1. IsFiniteSet(entries')
  BY FS_Subset DEF LimitInv, Shrinks
<1>2. \A g \in entries' : \E n \in 1..Len(order') : order'[n] = g
  BY DEF LimitInv, Shrinks
<1>3. pub'.cancelled \/ \A g \in pub'.attempted :
        state'[g] # "draining" \/ (pub'.pc = "forcing" /\ pub'.gen = g)
  BY DEF LimitInv, Forward, TypeOK, Publisher
<1>4. LimitStopsDraining'
  <2>1. Live' \subseteq Live /\ Live \subseteq Generations
    BY DEF Live, Shrinks, Forward, Released, TypeOK
  <2>2. IsFiniteSet(Live)
    BY FS_Subset DEF LimitInv, Live
  <2>3. /\ Cardinality(Live') <= Cardinality(Live)
        /\ Cardinality(Live) \in Nat /\ Cardinality(Live') \in Nat
    BY <2>1, <2>2, FS_Subset, FS_CardinalityType
  <2>4. SUFFICES ASSUME pub'.pc = "idle", ~pub'.cancelled, ~closed', Cardinality(Live') > 2,
                        NEW g \in Live' \ {active'}
                 PROVE  state'[g] # "draining"
    BY DEF LimitStopsDraining
  <2>5. /\ pub.pc = "idle" /\ ~pub.cancelled /\ ~closed
        /\ Cardinality(Live) > 2
        /\ g \in Live \ {active}
    BY <2>1, <2>3, <2>4 DEF Shrinks
  <2>6. state[g] # "draining"
    BY <2>5 DEF LimitInv, LimitStopsDraining
  <2> QED
    BY <2>1, <2>4, <2>6 DEF Forward
<1> QED
  BY <1>1, <1>2, <1>3, <1>4 DEF LimitInv

\* Activate is still at work after the step.
LEMMA LimitWorking ==
  ASSUME LimitInv, Shrinks, pub'.pc # "idle",
         pub'.cancelled \/ \A g \in pub'.attempted :
           state'[g] # "draining" \/ (pub'.pc = "forcing" /\ pub'.gen = g)
  PROVE  LimitInv'
<1>1. IsFiniteSet(entries')
  BY FS_Subset DEF LimitInv, Shrinks
<1>2. \A g \in entries' : \E n \in 1..Len(order') : order'[n] = g
  BY DEF LimitInv, Shrinks
<1>3. LimitStopsDraining'
  BY DEF LimitStopsDraining
<1> QED
  BY <1>1, <1>2, <1>3 DEF LimitInv

\* The force that enforceLimit asked for returns: its generation does not drain
\* any more.
LEMMA LimitReturn ==
  ASSUME TypeOK, CallerInv, LimitInv, Forward, Shrinks, NEW g \in Generations,
         NEW role, Return(role),
         role = "limit" => /\ "limit" \in waiting[g] \/ life[g].role = "limit"
                           /\ pub.cancelled \/ state'[g] # "draining"
  PROVE  LimitInv'
<1>1. CASE role # "limit"
  BY <1>1, LimitKept DEF Return
<1>2. CASE role = "limit"
  <2>1. /\ pub' = [pub EXCEPT !.pc = "limit", !.gen = None]
        /\ pub.pc = "forcing" /\ pub.gen = g
    BY <1>2 DEF Return, CallerInv
  <2>2. /\ pub'.pc = "limit" /\ pub'.attempted = pub.attempted
        /\ pub'.cancelled = pub.cancelled /\ pub.attempted \subseteq Generations
    BY <2>1 DEF TypeOK, Publisher
  <2>3. ASSUME ~pub.cancelled, NEW h \in pub.attempted PROVE state'[h] # "draining"
    <3>1. CASE h = g
      BY <1>2, <2>3, <3>1
    <3>2. CASE h # g
      <4>1. state[h] # "draining"
        BY <2>1, <2>3, <3>2 DEF LimitInv
      <4> QED
        BY <2>2, <4>1 DEF Forward
    <3> QED
      BY <3>1, <3>2
  <2> QED
    BY <2>2, <2>3, LimitWorking
<1> QED
  BY <1>1, <1>2

\* Activate: nothing has been attempted yet, and one generation is added to the
\* entries and to the order.
LEMMA LimitActivate ==
  ASSUME TypeOK, LimitInv, NEW g \in Generations, NEW kind \in TimerKinds,
         NEW r \in SUBSET Entities, Activate(g, kind, r)
  PROVE  LimitInv'
<1>1. entries' = entries \union {g} /\ order' = Append(order, g)
  BY DEF Activate
<1>2. IsFiniteSet(entries')
  BY <1>1, FS_AddElement DEF LimitInv
<1>3. \A h \in entries' : \E n \in 1..Len(order') : order'[n] = h
  <2>1. /\ Len(order') = Len(order) + 1 /\ Len(order) \in Nat
        /\ order'[Len(order) + 1] = g
        /\ \A n \in 1..Len(order) : order'[n] = order[n]
    BY <1>1 DEF TypeOK
  <2> QED
    BY <1>1, <2>1 DEF LimitInv
<1>4. pub'.pc \in {"limit", "revoke"} /\ pub'.attempted = {}
  BY DEF Activate, IdlePublisher
<1>5. LimitStopsDraining'
  BY <1>4 DEF LimitStopsDraining
<1> QED
  BY <1>2, <1>3, <1>4, <1>5 DEF LimitInv

\* A turn of enforceLimit.
LEMMA LimitTurn ==
  ASSUME TypeOK, LimitInv, Forward, Shrinks, EnforceLimit PROVE LimitInv'
<1> USE DEF controller, entry, callers
<1>0. /\ pub.pc = "limit" /\ UNCHANGED <<active, order, entries, closed, state, destroy>>
      /\ pub.cancelled \/ \A g \in pub.attempted : state[g] # "draining"
  BY DEF EnforceLimit, LimitInv
<1>1. ASSUME Cardinality(Live) <= LiveLimit \/ Candidates = {},
             pub' = [IdlePublisher EXCEPT !.cancelled = pub.cancelled]
      PROVE  LimitInv'
  <2>1. pub'.pc = "idle" /\ pub'.attempted = {} /\ pub'.cancelled = pub.cancelled
    BY <1>1 DEF IdlePublisher
  <2>2. Live' = Live
    BY <1>0 DEF Live, Released
  <2>3. IsFiniteSet(Live) /\ Cardinality(Live) \in Nat
    BY FS_Subset, FS_CardinalityType DEF LimitInv, Live
  <2>4. SUFFICES ASSUME ~pub.cancelled, Cardinality(Live) > 2, NEW g \in Live \ {active}
                 PROVE  state[g] # "draining"
    BY <1>0, <2>1, <2>2 DEF LimitInv, LimitStopsDraining
  <2>5. Candidates = {}
    BY <1>1, <2>3, <2>4 DEF LiveLimit
  <2>6. PICK n \in 1..Len(order) : order[n] = g
    BY <2>4 DEF LimitInv, Live
  <2>7. g \in pub.attempted
    BY <2>4, <2>5, <2>6 DEF Candidates
  <2> QED
    BY <1>0, <2>4, <2>7
<1>2. ASSUME NEW n \in Candidates, pub.cancelled,
             pub' = [pub EXCEPT !.attempted = @ \union {order[n]}]
      PROVE  LimitInv'
  <2>1. pub'.pc = "limit" /\ pub'.cancelled
    BY <1>0, <1>2 DEF TypeOK, Publisher
  <2> QED
    BY <2>1, LimitWorking
<1>3. ASSUME NEW n \in Candidates, ~pub.cancelled,
             pub' = [pub EXCEPT !.pc = "forcing", !.gen = order[n],
                                !.attempted = @ \union {order[n]}]
      PROVE  LimitInv'
  <2>1. /\ pub'.pc = "forcing" /\ pub'.gen = order[n]
        /\ pub'.attempted = pub.attempted \union {order[n]}
    BY <1>3 DEF TypeOK, Publisher
  <2>2. \A g \in pub'.attempted : state'[g] # "draining" \/ pub'.gen = g
    BY <1>0, <1>3, <2>1
  <2> QED
    BY <2>1, <2>2, LimitWorking
<1> QED
  BY <1>1, <1>2, <1>3 DEF EnforceLimit

\* Every step keeps what enforceLimit achieves, unless RetireActive comes.
LEMMA LimitNext ==
  ASSUME "retire" \notin Calls, OwnedInv, LimitInv, [Next]_vars PROVE LimitInv'
<1> USE DEF controller, entry, registry, callers
<1>0. TypeOK /\ EntryInv /\ CallerInv
  BY DEF OwnedInv, Inv
<1>1. CASE Retiring
  BY <1>0, <1>1, LimitActivate DEF Retiring, RetireActive
<1>2. CASE ~Retiring
  <2>0. Forward /\ Shrinks
    BY <1>0, <1>2, ForwardNext, ShrinksNext
  <2>1. ASSUME UNCHANGED pub PROVE LimitInv'
    BY <1>0, <2>0, <2>1, LimitKept
  <2>2. ASSUME NEW s \in Sessions, FinishNaturally(s) \/ HandleStep(s) PROVE LimitInv'
    BY <2>1, <2>2 DEF FinishNaturally, HandleStep, RegistryFinish, NotifyEmpty
  <2>3. ASSUME NEW k \in LoopKinds, NEW g \in Generations, ForceStep(k, g) PROVE LimitInv'
    BY <2>1, <2>3 DEF ForceStep, ClaimForce, CompleteForce, LoopNext
  <2>4. CASE EnforceLimit
    BY <1>0, <2>0, <2>4, LimitTurn
  <2>5. CASE EntitiesForced \/ ActivateNotify \/ CancelActivate
    <3>1. /\ pub'.pc # "idle" /\ pub'.attempted = pub.attempted
          /\ pub'.cancelled \/ pub'.cancelled = pub.cancelled
          /\ pub.pc = "forcing" =>
               pub'.cancelled \/ (pub'.pc = pub.pc /\ pub'.gen = pub.gen)
          /\ pub.attempted \subseteq Generations
      BY <1>0, <2>5
      DEF EntitiesForced, ActivateNotify, CancelActivate, TypeOK, Publisher
    <3>2. pub'.cancelled \/ \A g \in pub'.attempted :
            state'[g] # "draining" \/ (pub'.pc = "forcing" /\ pub'.gen = g)
      BY <2>0, <3>1 DEF LimitInv, Forward
    <3> QED
      BY <2>0, <3>1, <3>2, LimitWorking
  <2>6. ASSUME NEW g \in Generations, TimerStep(g) PROVE LimitInv'
    BY <2>1, <2>6
    DEF TimerStep, DrainTimerFires, RetryTimerFires, ProgressiveForced, NotifyRetired
  <2>7. ASSUME NEW g \in Generations, NEW role \in Roles, ForceGeneration(g, role)
        PROVE  LimitInv'
    <3>1. role \in waiting[g]
      BY <2>7 DEF ForceGeneration, TakeLock
    <3>2. CASE pub' = pub
      BY <2>1, <3>2
    <3>3. CASE Return(role) /\ UNCHANGED state
               /\ (Released(g) \/ (~CleanupOnly(g) /\ ~Forceable(g, role)))
      <4>1. role = "limit" => state'[g] # "draining"
        BY <1>0, <3>3 DEF EntryInv, Released, Forceable, Serving
      <4> QED
        BY <1>0, <2>0, <3>1, <3>3, <4>1, LimitReturn
    <3> QED
      BY <2>7, <3>2, <3>3 DEF ForceGeneration
  <2>8. ASSUME NEW g \in Generations, NEW role \in Roles, AbandonLock(g, role)
        PROVE  LimitInv'
    BY <1>0, <2>0, <2>8, LimitReturn DEF AbandonLock, Cancelled
  <2>9. ASSUME NEW g \in Generations, NEW role \in Roles,
               RetryCleanup(g, role) \/ NaturalCleanup(g)
        PROVE  LimitInv'
    BY <2>1, <2>9 DEF RetryCleanup, NaturalCleanup
  <2>10. ASSUME NEW g \in Generations, CountRemaining(g) \/ CleanupFails(g)
         PROVE  LimitInv'
    <3>1. CASE pub' = pub
      BY <2>1, <3>1
    <3>2. CASE Return(life[g].role) /\ state' = [state EXCEPT ![g] = "cleanup_failed"]
      <4>1. state'[g] # "draining"
        BY <1>0, <3>2 DEF TypeOK
      <4> QED
        BY <1>0, <2>0, <3>2, <4>1, LimitReturn
    <3> QED
      BY <2>10, <3>1, <3>2 DEF CountRemaining, CleanupFails
  <2>11. ASSUME NEW g \in Generations, CleanupDone(g) PROVE LimitInv'
    <3>1. Return(life[g].role) /\ state'[g] # "draining"
      BY <1>0, <2>11 DEF CleanupDone, TypeOK
    <3> QED
      BY <1>0, <2>0, <3>1, LimitReturn
  <2>12. ASSUME NEW g \in Generations,
                \/ StartDestroy(g) \/ DestroyAgain(g)
                \/ \E success \in BOOLEAN : DestroyReturns(g, success)
         PROVE  LimitInv'
    BY <2>1, <2>12 DEF StartDestroy, DestroyAgain, DestroyReturns
  <2>13. CASE Close \/ CloseNext \/ CancelClose
    BY <2>1, <2>13 DEF Close, CloseNext, CancelClose
  <2>14. ASSUME NEW s \in Sessions, NEW g \in Generations,
                \/ \E e \in Entities, i \in Ids : RegisterSession(s, g, e, i)
                \/ SkipProgressive(g, s)
         PROVE  LimitInv'
    BY <2>1, <2>14 DEF RegisterSession, SkipProgressive
  <2>15. CASE UNCHANGED vars
    BY <2>1, <2>15 DEF vars
  <2>16. "natural" \in Roles
    BY DEF Roles
  <2> QED
    BY <1>2, <2>2, <2>3, <2>4, <2>5, <2>6, <2>7, <2>8, <2>9, <2>10, <2>11, <2>12, <2>13,
       <2>14, <2>15, <2>16
    DEF Next, PublisherStep, LockStep, CleanupStep, Retiring
<1> QED
  BY <1>1, <1>2

\* When Activate returns with its context intact and more than two generations
\* live, none of the superseded ones is draining, and none begins to before the
\* next Activate; RetireActive, which enforces no limit, is not used
\* (enforceLimit).
THEOREM LimitSafety ==
  ASSUME "retire" \notin Calls PROVE Spec => []LimitStopsDraining
<1>1. NewDrainController => LimitInv
  <2> SUFFICES ASSUME NewDrainController PROVE LimitInv
    OBVIOUS
  <2>1. IsFiniteSet(entries) /\ Live = {} /\ pub.attempted = {}
    BY FS_EmptySet DEF NewDrainController, Live, IdlePublisher
  <2>2. LimitStopsDraining
    BY <2>1 DEF LimitStopsDraining
  <2> QED
    BY <2>1, <2>2 DEF NewDrainController, LimitInv
<1>2. OwnedInv /\ LimitInv /\ [Next]_vars => LimitInv'
  BY LimitNext
<1>3. LimitInv => LimitStopsDraining
  BY DEF LimitInv
<1> QED
  BY <1>1, <1>2, <1>3, OwnedInvariance, PTL DEF Spec


----------------------------------------------------------------------------
(* The promise of the controller: DrainOwner *)

\* What DrainOwner sees of all generations and all sessions.
Phase == [g \in Generations |-> OwnerPhase(g)]
Session == [s \in Sessions |-> OwnerSession(s)]

\* A generation whose entry a step leaves alone keeps its phase.
LEMMA PhaseKept ==
  ASSUME UNCHANGED <<state, destroy>> PROVE Phase' = Phase
BY DEF Phase, OwnerPhase

\* A step on one entry changes one phase.
LEMMA PhaseOne ==
  ASSUME NEW g \in Generations, NEW p, OwnerPhase(g)' = p,
         \A h \in Generations : h # g => state'[h] = state[h] /\ destroy'[h] = destroy[h]
  PROVE  /\ Phase' = [Phase EXCEPT ![g] = p]
         /\ p = OwnerPhase(g) => Phase' = Phase
<1>1. \A h \in Generations : h # g => OwnerPhase(h)' = OwnerPhase(h)
  BY DEF OwnerPhase
<1> QED
  BY <1>1 DEF Phase

\* The steps of the abstract specification on phases, and the step it does not
\* see, by what they do to Phase and Session.
AbstractStep ==
  \/ UNCHANGED <<active, Phase, Session, closed>>
  \/ \E g \in Generations :
       /\ ~closed /\ Phase[g] = "absent"
       /\ active # None => Revision[g] > Revision[active]
       /\ active' = g
       /\ Phase' = [h \in Generations |-> CASE h = g -> "serving"
                                            [] h = active -> "retiring"
                                            [] OTHER -> Phase[h]]
       /\ UNCHANGED <<Session, closed>>
  \/ /\ ~closed /\ active # None
     /\ Phase' = [Phase EXCEPT ![active] = "retiring"]
     /\ active' = None
     /\ UNCHANGED <<Session, closed>>
  \/ \E g \in Generations, s \in Sessions :
       /\ Session[s] = [life |-> "unused", gen |-> None]
       /\ ~closed /\ Phase[g] \in {"serving", "retiring"}
       /\ Session' = [Session EXCEPT ![s] = [life |-> "on", gen |-> g]]
       /\ UNCHANGED <<active, Phase, closed>>
  \/ \E s \in Sessions :
       /\ Session[s].life = "on"
       /\ Session' = [Session EXCEPT ![s] = [life |-> "over", gen |-> @.gen]]
       /\ UNCHANGED <<active, Phase, closed>>
  \/ \E g \in Generations :
       /\ \/ Phase[g] = "retiring"
          \/ Phase[g] = "serving" /\ closed
       /\ Phase' = [Phase EXCEPT ![g] = "ending"]
       /\ UNCHANGED <<active, Session, closed>>
  \/ \E g \in Generations :
       /\ Phase[g] = "ending"
       /\ {s \in Sessions : Session[s] = [life |-> "on", gen |-> g]} = {}
       /\ Phase' = [Phase EXCEPT ![g] = "destroying"]
       /\ UNCHANGED <<active, Session, closed>>
  \/ \E g \in Generations, success \in BOOLEAN :
       /\ Phase[g] = "destroying"
       /\ Phase' = [Phase EXCEPT ![g] = IF success THEN "gone" ELSE "ending"]
       /\ UNCHANGED <<active, Session, closed>>
  \/ closed' = TRUE /\ active' = None /\ UNCHANGED <<Phase, Session>>

\* It is the abstract specification, with its definitions spelled out.
LEMMA AbstractStepIsOwners == AbstractStep => [Owner!OwnerNext]_(Owner!ownerVars)
<1> USE DEF Phase, Session
<1>1. ASSUME UNCHANGED <<active, Phase, Session, closed>> PROVE UNCHANGED Owner!ownerVars
  BY <1>1 DEF Owner!ownerVars
<1> QED
  BY <1>1 DEF AbstractStep, Owner!OwnerNext, Owner!OwnerActivate, Owner!StopServing,
     Owner!BeginDestroy, Owner!EndDestroy, Owner!OwnerFinish, Owner!OwnerRegister,
     Owner!OwnerRetire, Owner!OwnerClose, Owner!Accepts, Owner!SessionsOn, Owner!Unused,
     Owner!Over, Owner!On


\* The phases of a generation that still serves: its resource is untouched.
LEMMA PhaseServing ==
  ASSUME EntryInv, NEW g \in Generations
  PROVE  /\ state[g] \in Serving => destroy[g] = "idle"
         /\ state[g] = "absent" => OwnerPhase(g) = "absent"
         /\ state[g] = "applied" => OwnerPhase(g) = "serving"
         /\ state[g] = "draining" => OwnerPhase(g) = "retiring"
<1>1. state[g] \in Serving => destroy[g] = "idle"
  BY DEF EntryInv
<1> QED
  BY <1>1 DEF OwnerPhase, Serving

\* A step that changes neither states nor resources of entries, nor sessions.
LEMMA Stutter ==
  ASSUME UNCHANGED <<active, state, destroy, closed>>, Session' = Session PROVE AbstractStep
BY PhaseKept DEF AbstractStep

\* Sessions are seen through the registry alone.
LEMMA SessionsKept == ASSUME UNCHANGED registry PROVE Session' = Session
BY DEF registry, Session, OwnerSession

\* A record step is not seen unless it takes the record out of the registry, and
\* then the session is over (SessionHandle.Finish, SessionRegistry.finish).
LEMMA RecordStepSession ==
  ASSUME TypeOK, RecordInv, NEW s \in Sessions, RecordStep(s)
  PROVE  \/ Session' = Session
         \/ /\ Session[s].life = "on"
            /\ Session' = [Session EXCEPT ![s] = [life |-> "over", gen |-> @.gen]]
<1>1. /\ registered' \subseteq registered /\ registered \ {s} \subseteq registered'
      /\ \A t \in Sessions : /\ rec'[t].gen = rec[t].gen
                             /\ rec'[t].handle = "unused" <=> rec[t].handle = "unused"
  BY RecordStepKeeps
<1>2. \A t \in Sessions : (t \in registered <=> t \in registered')
        => OwnerSession(t)' = OwnerSession(t)
  BY <1>1 DEF OwnerSession
<1>3. CASE s \in registered <=> s \in registered'
  BY <1>1, <1>2, <1>3 DEF Session
<1>4. CASE s \in registered /\ s \notin registered'
  <2>1. rec[s].handle # "unused"
    BY <1>4 DEF RecordInv
  <2>2. /\ OwnerSession(s).life = "on"
        /\ OwnerSession(s)' = [life |-> "over", gen |-> OwnerSession(s).gen]
    BY <1>1, <1>4, <2>1 DEF OwnerSession
  <2>3. \A t \in Sessions : t # s => OwnerSession(t)' = OwnerSession(t)
    BY <1>1, <1>2
  <2> QED
    BY <2>2, <2>3 DEF Session
<1> QED
  BY <1>1, <1>3, <1>4

\* onSessionEmpty ends the service of a drained generation or is not seen.
LEMMA EmptyAbstract ==
  ASSUME TypeOK, EntryInv, NEW g, OnSessionEmpty(g), UNCHANGED <<active, closed>>,
         Session' = Session
  PROVE  AbstractStep
<1>1. CASE state' = state
  BY <1>1, Stutter DEF OnSessionEmpty, entry
<1>2. CASE state' # state
  <2>1. /\ g \in Generations /\ state[g] = "draining" /\ UNCHANGED destroy
        /\ state' = [state EXCEPT ![g] = "drained"]
    BY <1>2 DEF OnSessionEmpty, DrainsNaturally, TypeOK, entry
  <2>2. state'[g] = "drained" /\ destroy'[g] = "idle"
    BY <2>1 DEF TypeOK, EntryInv, Serving
  <2>3. OwnerPhase(g) = "retiring" /\ OwnerPhase(g)' = "ending"
    BY <2>1, <2>2 DEF OwnerPhase
  <2>4. Phase' = [Phase EXCEPT ![g] = "ending"]
    BY <2>1, <2>3, PhaseOne DEF TypeOK
  <2> QED
    BY <2>1, <2>3, <2>4 DEF AbstractStep, Phase
<1> QED
  BY <1>1, <1>2

\* The steps of handles and force loops.
LEMMA RegistryAbstract ==
  ASSUME TypeOK, EntryInv, RecordInv, RegistryStep PROVE AbstractStep
<1> USE DEF controller, entry
<1>1. PICK s \in Sessions : RecordStep(s)
  BY StepsOfRecords DEF RegistryStep
<1>2. CASE UNCHANGED <<active, closed, state, destroy>>
  <2>1. CASE Session' = Session
    BY <1>2, <2>1, Stutter
  <2>2. CASE Session' # Session
    <3>1. Phase' = Phase
      BY <1>2, PhaseKept
    <3> QED
      BY <1>1, <1>2, <2>2, <3>1, RecordStepSession DEF AbstractStep
  <2> QED
    BY <2>1, <2>2
<1>3. ASSUME NEW t \in Sessions, NotifyEmpty(t) PROVE AbstractStep
  <2>1. /\ OnSessionEmpty(rec[t].gen) /\ UNCHANGED <<active, closed, registered>>
        /\ RecordStep(t)
    BY <1>3, StepsOfRecords DEF NotifyEmpty, HandleStep
  <2>2. \A u \in Sessions : /\ rec'[u].gen = rec[u].gen
                            /\ rec'[u].handle = "unused" <=> rec[u].handle = "unused"
    BY <2>1, RecordStepKeeps
  <2>3. Session' = Session
    BY <2>1, <2>2 DEF Session, OwnerSession
  <2> QED
    BY <2>1, <2>3, EmptyAbstract
<1>4. ASSUME NEW t \in Sessions, FinishNaturally(t) \/ RegistryFinish(t)
      PROVE  AbstractStep
  BY <1>2, <1>4 DEF FinishNaturally, RegistryFinish
<1>5. ASSUME NEW k \in LoopKinds, NEW g \in Generations, ForceStep(k, g)
      PROVE  AbstractStep
  BY <1>2, <1>5 DEF ForceStep, ClaimForce, CompleteForce, LoopNext
<1> QED
  BY <1>3, <1>4, <1>5 DEF RegistryStep, HandleStep

\* RegisterSession.
LEMMA RegisterAbstract ==
  ASSUME TypeOK, EntryInv, RecordInv, FinishInv, NEW s \in Sessions,
         NEW g \in Generations, NEW e \in Entities, NEW i \in Ids,
         RegisterSession(s, g, e, i)
  PROVE  AbstractStep
<1>1. /\ rec[s].handle = "unused" /\ ~closed /\ state[g] \in {"applied", "draining"}
      /\ UNCHANGED <<active, closed, state, destroy>>
  BY DEF RegisterSession, Accepting, controller, entry
<1>2. /\ registered' = registered \union {s} /\ rec'[s].gen = g
      /\ rec'[s].handle = "active" /\ \A t \in Sessions : t # s => rec'[t] = rec[t]
  BY RegistrationAdds
<1>3. OwnerSession(s) = [life |-> "unused", gen |-> None]
  BY <1>1 DEF OwnerSession, RecordInv, FinishInv
<1>4. /\ OwnerSession(s)' = [life |-> "on", gen |-> g]
      /\ \A t \in Sessions : t # s => OwnerSession(t)' = OwnerSession(t)
  BY <1>2 DEF OwnerSession
<1>5. Session' = [Session EXCEPT ![s] = [life |-> "on", gen |-> g]]
  BY <1>4 DEF Session
<1>6. Phase' = Phase /\ Phase[g] \in {"serving", "retiring"}
  <2>1. OwnerPhase(g) \in {"serving", "retiring"}
    BY <1>1, PhaseServing
  <2> QED
    BY <1>1, <2>1, PhaseKept DEF Phase
<1>7. Session[s] = [life |-> "unused", gen |-> None]
  BY <1>3 DEF Session
<1>8. UNCHANGED <<active, Phase, closed>>
  BY <1>1, <1>6
<1> QED
  BY <1>1, <1>5, <1>6, <1>7, <1>8 DEF AbstractStep

\* Activate and RetireActive.
LEMMA ActivateAbstract ==
  ASSUME TypeOK, ActiveInv, EntryInv, Session' = Session,
         \/ \E g \in Generations, kind \in TimerKinds, r \in SUBSET Entities :
               Activate(g, kind, r)
         \/ \E g \in Generations : RetireActive(g)
  PROVE  AbstractStep
<1>1. ASSUME NEW g \in Generations, NEW kind \in TimerKinds, NEW r \in SUBSET Entities,
             Activate(g, kind, r)
      PROVE  AbstractStep
  <2>1. /\ ~closed /\ state[g] = "absent" /\ active' = g /\ UNCHANGED <<destroy, closed>>
        /\ active # None => Revision[g] > Revision[active]
        /\ active \in Generations \union {None} /\ active # g
    BY <1>1, NoneAssumption DEF Activate, TypeOK, ActiveInv
  <2>2. \A h \in Generations :
          state'[h] = CASE h = g -> "applied" [] h = active -> "draining" [] OTHER -> state[h]
    <3>1. CASE active = None
      BY <1>1, <2>1, <3>1, NoneAssumption DEF Activate, TypeOK
    <3>2. CASE active # None
      BY <1>1, <2>1, <3>2 DEF Activate, TypeOK
    <3> QED
      BY <3>1, <3>2
  <2>3. Phase' = [h \in Generations |-> CASE h = g -> "serving"
                                          [] h = active -> "retiring"
                                          [] OTHER -> Phase[h]]
    <3>1. ASSUME NEW h \in Generations
          PROVE  OwnerPhase(h)' = CASE h = g -> "serving"
                                    [] h = active -> "retiring"
                                    [] OTHER -> OwnerPhase(h)
      <4>1. CASE h = g
        <5>1. state'[h] = "applied" /\ destroy'[h] = "idle"
          BY <2>1, <2>2, <4>1, PhaseServing DEF Serving
        <5> QED
          BY <2>1, <4>1, <5>1 DEF OwnerPhase
      <4>2. CASE h = active
        <5>1. state[h] = "applied" /\ h # g
          BY <2>1, <4>2, NoneAssumption DEF ActiveInv
        <5>2. state'[h] = "draining" /\ destroy'[h] = "idle"
          BY <2>1, <2>2, <4>2, <5>1, PhaseServing DEF Serving
        <5> QED
          BY <4>2, <5>1, <5>2 DEF OwnerPhase
      <4>3. CASE h # g /\ h # active
        <5>1. state'[h] = state[h] /\ destroy'[h] = destroy[h]
          BY <2>1, <2>2, <4>3
        <5>2. OwnerPhase(h)' = OwnerPhase(h)
          BY <5>1 DEF OwnerPhase
        <5> QED
          BY <4>3, <5>2
      <4> QED
        BY <4>1, <4>2, <4>3
    <3>2. \A h \in Generations : Phase[h] = OwnerPhase(h)
      BY DEF Phase
    <3>3. Phase' = [h \in Generations |-> OwnerPhase(h)']
      BY DEF Phase
    <3> QED
      BY <3>1, <3>2, <3>3
  <2>4. Phase[g] = "absent"
    <3>1. OwnerPhase(g) = "absent"
      BY <2>1, PhaseServing
    <3> QED
      BY <3>1 DEF Phase
  <2>5. UNCHANGED <<Session, closed>>
    BY <2>1
  <2> QED
    BY <2>1, <2>3, <2>4, <2>5 DEF AbstractStep
<1>2. ASSUME NEW g \in Generations, RetireActive(g) PROVE AbstractStep
  <2>1. /\ ~closed /\ active = g /\ active' = None /\ UNCHANGED <<destroy, closed>>
        /\ state' = [state EXCEPT ![g] = "draining"]
    BY <1>2 DEF RetireActive
  <2>2. OwnerPhase(g)' = "retiring"
    <3>1. state'[g] = "draining" /\ destroy'[g] = "idle"
      BY <1>2, <2>1, PhaseServing DEF RetireActive, Serving, TypeOK
    <3> QED
      BY <3>1 DEF OwnerPhase
  <2>3. Phase' = [Phase EXCEPT ![active] = "retiring"]
    BY <2>1, <2>2, PhaseOne DEF TypeOK
  <2>4. active # None
    BY <2>1, NoneAssumption
  <2>5. UNCHANGED <<Session, closed>>
    BY <2>1
  <2> QED
    BY <2>1, <2>3, <2>4, <2>5 DEF AbstractStep
<1> QED
  BY <1>1, <1>2

\* The lifecycle lock: a force ends the service of its generation.
LEMMA LockAbstract ==
  ASSUME TypeOK, ActiveInv, EntryInv, KnownInv, Session' = Session,
         NEW g \in Generations, LockStep(g)
  PROVE  AbstractStep
<1> USE DEF controller, entry
<1>1. ASSUME NEW role \in Roles, ForceGeneration(g, role) PROVE AbstractStep
  <2>1. CASE UNCHANGED <<active, closed, state, destroy>>
    BY <2>1, Stutter
  <2>2. CASE /\ Forceable(g, role) /\ UNCHANGED <<active, closed, destroy>>
             /\ state' = [state EXCEPT ![g] = "forced"]
    <3>1. /\ state'[g] = "forced"
          /\ \A h \in Generations : h # g => state'[h] = state[h] /\ destroy'[h] = destroy[h]
      BY <2>2 DEF TypeOK
    <3>2. role \in waiting[g]
      BY <1>1 DEF ForceGeneration, TakeLock
    <3>3. state[g] # "absent" /\ (state[g] = "applied" => closed)
      BY <2>2, <3>2 DEF Forceable, ActiveInv, KnownInv
    <3>4. UNCHANGED <<active, Session, closed>>
      BY <2>2
    <3>5. CASE state[g] \in {"applied", "draining"}
      <4>1. OwnerPhase(g)' = "ending"
        BY <2>2, <3>1, <3>5 DEF OwnerPhase, EntryInv, Serving
      <4>2. Phase' = [Phase EXCEPT ![g] = "ending"]
        BY <3>1, <4>1, PhaseOne
      <4>3. Phase[g] = "retiring" \/ (Phase[g] = "serving" /\ closed)
        <5>1. OwnerPhase(g) = "retiring" \/ (OwnerPhase(g) = "serving" /\ closed)
          BY <3>3, <3>5, PhaseServing
        <5> QED
          BY <5>1 DEF Phase
      <4> QED
        BY <3>4, <4>2, <4>3 DEF AbstractStep
    <3>6. CASE state[g] \notin {"absent", "applied", "draining"}
      <4>1. OwnerPhase(g)' = OwnerPhase(g)
        BY <2>2, <3>1, <3>6 DEF OwnerPhase
      <4>2. Phase' = Phase
        BY <3>1, <4>1, PhaseOne
      <4> QED
        BY <3>4, <4>2 DEF AbstractStep
    <3> QED
      BY <3>3, <3>5, <3>6
  <2> QED
    BY <1>1, <2>1, <2>2 DEF ForceGeneration
<1>2. ASSUME NEW role \in Roles, RetryCleanup(g, role) \/ AbandonLock(g, role)
      PROVE  AbstractStep
  BY <1>2, Stutter DEF RetryCleanup, AbandonLock
<1>3. CASE NaturalCleanup(g)
  BY <1>3, Stutter DEF NaturalCleanup
<1> QED
  BY <1>1, <1>2, <1>3 DEF LockStep

\* completeCleanup and the Destroy it calls.
LEMMA CleanupAbstract ==
  ASSUME TypeOK, EntryInv, EmptyInv, Session' = Session, NEW g \in Generations,
         CleanupStep(g) \/ \E success \in BOOLEAN : DestroyReturns(g, success)
  PROVE  AbstractStep
<1> USE DEF controller
<1>1. ASSUME \A h \in Generations : h # g => state'[h] = state[h] /\ destroy'[h] = destroy[h],
             UNCHANGED <<active, closed>>, OwnerPhase(g)' = OwnerPhase(g)
      PROVE  AbstractStep
  <2>1. Phase' = Phase
    BY <1>1, PhaseOne
  <2> QED
    BY <1>1, <2>1 DEF AbstractStep
<1>2. CASE CountRemaining(g)
  <2>1. /\ UNCHANGED <<active, closed, destroy>>
        /\ state' = state \/ state' = [state EXCEPT ![g] = "cleanup_failed"]
    BY <1>2 DEF CountRemaining
  <2>2. state[g] \notin Serving
    BY <1>2, HeldIsNotServing DEF CountRemaining
  <2>3. /\ state'[g] = state[g] \/ state'[g] = "cleanup_failed"
        /\ \A h \in Generations : h # g => state'[h] = state[h] /\ destroy'[h] = destroy[h]
    BY <2>1 DEF TypeOK
  <2>4. OwnerPhase(g)' = OwnerPhase(g)
    BY <2>1, <2>2, <2>3 DEF OwnerPhase, Serving
  <2> QED
    BY <1>1, <2>1, <2>3, <2>4
<1>3. CASE StartDestroy(g)
  <2>1. /\ life[g].pc = "destroy" /\ destroy[g] = "idle"
        /\ destroy' = [destroy EXCEPT ![g] = "running"]
        /\ UNCHANGED <<active, closed, state>>
    BY <1>3 DEF StartDestroy
  <2>2. state[g] \notin Serving
    BY <2>1, HeldIsNotServing
  <2>3. OwnerPhase(g) = "ending" /\ OwnerPhase(g)' = "destroying"
    BY <2>1, <2>2 DEF OwnerPhase, Serving, TypeOK
  <2>4. \A h \in Generations : h # g => state'[h] = state[h] /\ destroy'[h] = destroy[h]
    BY <2>1 DEF TypeOK
  <2>5. Phase' = [Phase EXCEPT ![g] = "destroying"] /\ Phase[g] = "ending"
    BY <2>3, <2>4, PhaseOne DEF Phase
  <2>6. SessionsOf(g) = {}
    BY <2>1 DEF EmptyInv
  <2>7. ASSUME NEW s \in Sessions, Session[s] = [life |-> "on", gen |-> g] PROVE FALSE
    <3>1. OwnerSession(s) = [life |-> "on", gen |-> g]
      BY <2>7 DEF Session
    <3>2. s \in registered /\ rec[s].gen = g
      BY <3>1 DEF OwnerSession
    <3> QED
      BY <2>6, <3>2 DEF SessionsOf
  <2>8. {s \in Sessions : Session[s] = [life |-> "on", gen |-> g]} = {}
    BY <2>7
  <2>9. UNCHANGED <<active, Session, closed>>
    BY <2>1
  <2> QED
    BY <2>5, <2>8, <2>9 DEF AbstractStep
<1>4. CASE DestroyAgain(g) \/ \E success \in BOOLEAN : DestroyReturns(g, success)
  <2>1. /\ UNCHANGED <<active, closed, state>>
        /\ destroy[g] \in {"running", "failed"}
        /\ \E d \in {"running", "ok", "failed"} : destroy' = [destroy EXCEPT ![g] = d]
    BY <1>4 DEF DestroyAgain, DestroyReturns
  <2>2. /\ destroy'[g] \in {"running", "ok", "failed"}
        /\ \A h \in Generations : h # g => state'[h] = state[h] /\ destroy'[h] = destroy[h]
    BY <2>1 DEF TypeOK
  <2>3. OwnerPhase(g)' = OwnerPhase(g)
    BY <2>1, <2>2 DEF OwnerPhase
  <2> QED
    BY <1>1, <2>1, <2>2, <2>3
<1>5. CASE CleanupFails(g)
  <2>1. /\ life[g].pc # "free" /\ destroy[g] \in {"failed", "running", "idle"}
        /\ state' = [state EXCEPT ![g] = "cleanup_failed"]
        /\ destroy' = [destroy EXCEPT ![g] = IF @ = "failed" THEN "idle" ELSE @]
        /\ UNCHANGED <<active, closed>>
    BY <1>5 DEF CleanupFails
  <2>2. state[g] \notin Serving
    BY <2>1, HeldIsNotServing
  <2>3. /\ state'[g] = "cleanup_failed"
        /\ destroy'[g] = IF destroy[g] = "failed" THEN "idle" ELSE destroy[g]
        /\ \A h \in Generations : h # g => state'[h] = state[h] /\ destroy'[h] = destroy[h]
    BY <2>1 DEF TypeOK
  <2>4. CASE destroy[g] = "failed"
    <3>1. OwnerPhase(g) = "destroying" /\ OwnerPhase(g)' = "ending"
      BY <2>2, <2>3, <2>4 DEF OwnerPhase, Serving
    <3>2. /\ Phase' = [Phase EXCEPT ![g] = IF FALSE THEN "gone" ELSE "ending"]
          /\ Phase[g] = "destroying" /\ UNCHANGED <<active, Session, closed>>
      BY <2>1, <2>3, <3>1, PhaseOne DEF Phase
    <3> QED
      BY <3>2 DEF AbstractStep
  <2>5. CASE destroy[g] # "failed"
    <3>1. OwnerPhase(g)' = OwnerPhase(g)
      BY <2>1, <2>2, <2>3, <2>5 DEF OwnerPhase, Serving
    <3> QED
      BY <1>1, <2>1, <2>3, <3>1
  <2> QED
    BY <2>4, <2>5
<1>6. CASE CleanupDone(g)
  <2>1. /\ life[g].pc # "free" /\ destroy[g] = "ok"
        /\ state' = [state EXCEPT ![g] = final[g]]
        /\ destroy' = [destroy EXCEPT ![g] = "destroyed"]
        /\ UNCHANGED <<active, closed>>
    BY <1>6 DEF CleanupDone
  <2>2. state[g] \notin Serving
    BY <2>1, HeldIsNotServing
  <2>3. final[g] \in {"drained", "forced"}
    BY <2>2 DEF EntryInv, TypeOK
  <2>4. /\ state'[g] = final[g] /\ destroy'[g] = "destroyed"
        /\ \A h \in Generations : h # g => state'[h] = state[h] /\ destroy'[h] = destroy[h]
    BY <2>1 DEF TypeOK
  <2>5. OwnerPhase(g) = "destroying" /\ OwnerPhase(g)' = "gone"
    BY <2>1, <2>2, <2>3, <2>4 DEF OwnerPhase, Serving
  <2>6. /\ Phase' = [Phase EXCEPT ![g] = IF TRUE THEN "gone" ELSE "ending"]
        /\ Phase[g] = "destroying" /\ UNCHANGED <<active, Session, closed>>
    BY <2>1, <2>4, <2>5, PhaseOne DEF Phase
  <2> QED
    BY <2>6 DEF AbstractStep
<1> QED
  BY <1>2, <1>3, <1>4, <1>5, <1>6 DEF CleanupStep

\* Every step of the controller is a step of the abstract specification or is
\* not seen by it.
LEMMA AbstractNext == ASSUME OwnedInv, [Next]_vars PROVE AbstractStep
<1>0. /\ TypeOK /\ ActiveInv /\ EntryInv /\ EmptyInv /\ RecordInv
      /\ FinishInv /\ KnownInv
  BY DEF OwnedInv, Inv
<1>1. CASE RegistryStep
  BY <1>0, <1>1, RegistryAbstract
<1>2. CASE ControllerStep
  <2> USE DEF controller, entry
  <2>1. Session' = Session
    BY <1>2, ControllerKeepsRegistry, SessionsKept
  <2>2. CASE PublisherStep \/ CancelActivate
    BY <1>0, <2>1, <2>2, Stutter, EmptyAbstract
    DEF PublisherStep, EntitiesForced, ActivateNotify, EnforceLimit, CancelActivate
  <2>3. ASSUME NEW g \in Generations, TimerStep(g) PROVE AbstractStep
    BY <1>0, <2>1, <2>3, Stutter, EmptyAbstract
    DEF TimerStep, DrainTimerFires, RetryTimerFires, ProgressiveForced, NotifyRetired
  <2>4. CASE Close
    <3>1. UNCHANGED <<state, destroy>> /\ closed' = TRUE /\ active' = None
      BY <2>4 DEF Close
    <3>2. UNCHANGED <<Phase, Session>>
      BY <2>1, <3>1, PhaseKept
    <3> QED
      BY <3>1, <3>2 DEF AbstractStep
  <2>5. CASE \/ CloseNext \/ CancelClose
             \/ \E g \in Generations, s \in Sessions : SkipProgressive(g, s)
    BY <2>1, <2>5, Stutter DEF CloseNext, CancelClose, SkipProgressive
  <2>6. CASE \/ \E g \in Generations, kind \in TimerKinds, r \in SUBSET Entities :
                  Activate(g, kind, r)
             \/ \E g \in Generations : RetireActive(g)
    BY <1>0, <2>1, <2>6, ActivateAbstract
  <2>7. ASSUME NEW g \in Generations, LockStep(g) PROVE AbstractStep
    BY <1>0, <2>1, <2>7, LockAbstract
  <2>8. ASSUME NEW g \in Generations,
               CleanupStep(g) \/ \E success \in BOOLEAN : DestroyReturns(g, success)
        PROVE  AbstractStep
    BY <1>0, <2>1, <2>8, CleanupAbstract
  <2> QED
    BY <1>2, <2>2, <2>3, <2>4, <2>5, <2>6, <2>7, <2>8 DEF ControllerStep
<1>3. CASE UNCHANGED vars
  <2>1. UNCHANGED <<active, state, destroy, closed, registry>>
    BY <1>3 DEF vars, controller, entry
  <2> QED
    BY <2>1, SessionsKept, Stutter
<1> QED
  BY <1>0, <1>1, <1>2, <1>3, RegisterAbstract, NextSplit

\* The locks, timers, force loops and retries of the controller implement what
\* DrainOwner promises of it (activate, onSessionEmpty, forceGeneration,
\* completeCleanup, Close).
THEOREM Implementation == Spec => ImplementsDrainOwner
<1>1. NewDrainController => Owner!OwnerInit
  <2>1. NewDrainController => /\ active = None /\ closed = FALSE
                              /\ \A g \in Generations : OwnerPhase(g) = "absent"
    BY DEF NewDrainController, OwnerPhase
  <2>2. NewDrainController =>
          \A s \in Sessions : OwnerSession(s) = [life |-> "unused", gen |-> None]
    BY DEF NewDrainController, OwnerSession, UnusedRecord
  <2> QED
    BY <2>1, <2>2 DEF Owner!OwnerInit, Owner!Unused
<1>2. OwnedInv /\ [Next]_vars => [Owner!OwnerNext]_(Owner!ownerVars)
  BY AbstractNext, AbstractStepIsOwners
<1> QED
  BY <1>1, <1>2, OwnedInvariance, PTL DEF Spec, ImplementsDrainOwner, Owner!OwnerSpec
===========================================================================
