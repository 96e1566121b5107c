------------------------ MODULE RevisionCoordinator ------------------------
(***************************************************************************)
(* The revision coordinator of the control plane                           *)
(* (controlplane/storage/revision_coordinator.go behind                    *)
(* controlplane/coordinator): the durable ledger that carries one agent    *)
(* from revision to revision.  The panel publishes revisions; the agent    *)
(* leases the newest one, starts it, reports it failed or applied and      *)
(* later reports the drain of the generation it replaced; a reconciler     *)
(* times out what the agent abandoned.                                     *)
(*                                                                         *)
(* Every operation of the store is one write transaction that locks the    *)
(* agent's pointer row, so one operation is one step.  A transaction that  *)
(* returns an error is rolled back and is no step, except where the code   *)
(* commits and then reports a conflict.                                    *)
(*                                                                         *)
(* The agent is asynchronous: any lease it was ever given may be used in   *)
(* any call at any later moment, so that calls are delayed, repeated,      *)
(* reordered and lost.                                                     *)
(*                                                                         *)
(* Abstractions.                                                           *)
(*  - Deadlines are flags: a lease's deadline, a retry delay and a drain   *)
(*    deadline may pass at any moment after they are set.                  *)
(*  - Lease ids are random and never repeat: they are drawn, once each,    *)
(*    from LeaseIds, which bounds the number of leases of a behaviour.  A  *)
(*    generation id is a hash of its whole lease: it is the lease id.      *)
(*  - Snapshots, artifacts, events, operations and runtime identities are  *)
(*    left out, and so is the dependency plan that delays some claims.     *)
(***************************************************************************)
EXTENDS Naturals, FiniteSets

CONSTANTS
  MaxRevision,    \* bound on the revision numbers
  MaxCycle,       \* bound on the retries an operator asks for
  MaxAttempts,    \* coordinatorMaxAttempts
  LeaseIds,       \* the lease ids, bounding the number of leases
  Calls,          \* the optional calls made: "heartbeat", "retry", "rollback",
                  \* "repair", "retire", "prune"
  None            \* no lease

ASSUME BoundAssumption == MaxRevision \in Nat /\ MaxCycle \in Nat
ASSUME AttemptsAssumption == MaxAttempts \in Nat \ {0}

VARIABLES
  registered,     \* the agent has a row in agents
  pointer,        \* its AgentRevisionPointerRow
  revision,       \* its AgentRevisionRow of each revision number
  attempt,        \* its AgentRevisionAttemptRow of each revision, cycle, ordinal
  row,            \* the attempt each lease was issued for
  generation      \* its AgentGenerationRow of each generation id

vars == <<registered, pointer, revision, attempt, row, generation>>

Revisions == 1 .. MaxRevision
Cycles == 0 .. MaxCycle
Ordinals == 1 .. MaxAttempts + 1
Rows == Revisions \X Cycles \X Ordinals

ASSUME NoneAssumption == None \notin LeaseIds \union Rows

Pointer == [found : BOOLEAN, desired : 0 .. MaxRevision,
            applied : 0 .. MaxRevision, lkg : 0 .. MaxRevision]

RevisionRow ==
  [state : {"none", "pending", "applying", "applied", "failed", "superseded"},
   cycle : Cycles, count : 0 .. MaxAttempts + 1,
   waiting : BOOLEAN,                    \* next_attempt_at is in the future
   generation : LeaseIds \union {None},
   drain : {"none", "draining", "drained", "forced"},
   due : BOOLEAN]                        \* its drain deadline has passed

AttemptRow ==
  [state : {"none", "leased", "started", "applied", "failed", "superseded",
            "expired_unstarted"},
   lease : LeaseIds \union {None},
   expired : BOOLEAN]                    \* deadline_at has passed

GenerationRow ==
  [state : {"none", "active", "draining", "drained", "forced"},
   era : 0 .. MaxRevision]               \* the applied revision at drained_at

NoPointer == [found |-> FALSE, desired |-> 0, applied |-> 0, lkg |-> 0]
NoRevision == [state |-> "none", cycle |-> 0, count |-> 0, waiting |-> FALSE,
               generation |-> None, drain |-> "none", due |-> FALSE]
NoAttempt == [state |-> "none", lease |-> None, expired |-> FALSE]
NoGeneration == [state |-> "none", era |-> 0]

(***************************************************************************)
(* Reading the ledger.                                                     *)
(***************************************************************************)
desired == pointer.desired
applied == pointer.applied

Known == {r \in Revisions : revision[r].state /= "none"}
Open == {r \in Revisions : revision[r].state \in {"pending", "applying"}}

\* lockActiveCoordinatorAttempts
Active == {k \in Rows : attempt[k].state \in {"leased", "started"}}

Generations(s) == {l \in LeaseIds : generation[l].state = s}
Draining == Generations("draining")

\* lockCoordinatorPointer and lockCoordinatorAttempt, for a call that names
\* lease l: the attempt the lease was issued for exists and still carries l
Holds(l) ==
  /\ pointer.found
  /\ row[l] \in Rows
  /\ attempt[row[l]].lease = l

(***************************************************************************)
(* Rows as the helpers of the transactions leave them.                     *)
(***************************************************************************)
Superseded(r) == [revision[r] EXCEPT !.state = "superseded", !.waiting = FALSE]

\* supersedeOlderCoordinatorRevisionsTx, with the revision of an attempt
\* superseded before it
Overtaken == {r \in Open : r < desired}

RevisionsFenced ==
  [r \in Revisions |-> IF r \in Overtaken THEN Superseded(r) ELSE revision[r]]

\* Mutant of AttemptsFenced: only unstarted leases are superseded.
AttemptsFencedLeased ==
  [k \in Rows |-> IF k[1] < desired /\ attempt[k].state = "leased"
                    THEN [attempt[k] EXCEPT !.state = "superseded"]
                    ELSE attempt[k]]

AttemptsFenced ==
  [k \in Rows |-> IF k \in Active /\ k[1] < desired
                    THEN [attempt[k] EXCEPT !.state = "superseded"]
                    ELSE attempt[k]]

\* expireUnstartedAttemptTx, for the leases of the desired revision whose
\* deadline has passed
AttemptsExpired ==
  [k \in Rows |-> IF /\ k \in Active
                     /\ k[1] = desired
                     /\ attempt[k].expired
                     /\ attempt[k].state = "leased"
                    THEN [attempt[k] EXCEPT !.state = "expired_unstarted"]
                    ELSE AttemptsFenced[k]]

\* failStartedCoordinatorAttemptTx: what its second update makes of the row
Exhausted(r) == revision[r].count >= MaxAttempts

AfterFailure(r) ==
  IF revision[r].state = "applying"
    THEN [revision[r] EXCEPT !.state = IF Exhausted(r) THEN "failed" ELSE "pending",
                             !.waiting = ~Exhausted(r),
                             !.generation = None]
    ELSE revision[r]

\* reconcileOrphanApplyingRevisionTx
AfterOrphan(r) ==
  IF revision[r].count = 0
    THEN [revision[r] EXCEPT !.state = "pending", !.waiting = FALSE,
                             !.generation = None]
    ELSE AfterFailure(r)

\* a generation that stops draining, and drained_at
Settled(s) == [state |-> s, era |-> applied]

Forced(S) ==
  [l \in LeaseIds |-> IF l \in S THEN Settled("forced") ELSE generation[l]]

Init ==
  /\ registered = TRUE
  /\ pointer = NoPointer
  /\ revision = [r \in Revisions |-> NoRevision]
  /\ attempt = [k \in Rows |-> NoAttempt]
  /\ row = [l \in LeaseIds |-> None]
  /\ generation = [l \in LeaseIds |-> NoGeneration]

(***************************************************************************)
(* New desired revisions.                                                  *)
(***************************************************************************)
\* A revision number above every one allocated before
Fresh(r) == /\ r > desired
            /\ \A q \in Known : r > q

Issue(r) ==
  /\ revision' = [revision EXCEPT ![r] = [NoRevision EXCEPT !.state = "pending"]]
  /\ pointer' = [pointer EXCEPT !.found = TRUE, !.desired = r]

\* Executor.Execute, for a mutation that changes the agent's snapshot.  The
\* number may skip: it also exceeds the revisions of the resources it carries.
Publish(r) ==
  /\ registered
  /\ Fresh(r)
  /\ Issue(r)
  /\ UNCHANGED <<registered, attempt, row, generation>>

\* EnsureAgentHeartbeatRevision, for a revision it has no row for.  A heartbeat's
\* snapshot carries at least the agent's desired revision, so that a number
\* without a row lies above all the issued ones.
HeartbeatIssues(r) ==
  /\ "heartbeat" \in Calls
  /\ Fresh(r)
  /\ Issue(r)
  /\ UNCHANGED <<registered, attempt, row, generation>>

\* EnsureAgentHeartbeatRevision, for a revision it has a row for.  The agent may
\* have been deleted since its heartbeat arrived: nothing here looks at its row.
HeartbeatRepeats(r) ==
  /\ "heartbeat" \in Calls
  /\ r \in Known
  /\ desired <= r
  /\ pointer' = [pointer EXCEPT !.found = TRUE, !.desired = r]
  /\ UNCHANGED <<registered, revision, attempt, row, generation>>

\* CopyLastKnownGoodCoordinatorRevision
Copy(source, r) ==
  /\ pointer.found
  /\ source > 0
  /\ revision[source].state = "applied"
  /\ Fresh(r)
  /\ \A q \in Revisions : Fresh(q) => r <= q
  /\ Issue(r)
  /\ UNCHANGED <<registered, attempt, row, generation>>

\* Coordinator.Rollback
Rollback(r) ==
  /\ "rollback" \in Calls
  /\ Copy(pointer.lkg, r)

\* Coordinator.RepairRuntime, of the applied revision an agent lost
RepairRuntime(r) ==
  /\ "repair" \in Calls
  /\ desired = applied
  /\ Copy(applied, r)

\* Mutant of Retry: the retry stays in the cycle that failed.
RetrySameCycle ==
  /\ "retry" \in Calls
  /\ pointer.found
  /\ Active = {}
  /\ desired \in Known
  /\ revision[desired].state = "failed"
  /\ revision' = [revision EXCEPT ![desired].count = 0,
                                  ![desired].state = "pending"]
  /\ UNCHANGED <<registered, pointer, attempt, row, generation>>

\* RetryCoordinatorRevisionIdempotent
Retry ==
  /\ "retry" \in Calls
  /\ pointer.found
  /\ Active = {}
  /\ desired \in Known
  /\ revision[desired].state = "failed"
  /\ revision[desired].cycle < MaxCycle
  /\ revision' = [revision EXCEPT ![desired].cycle = @ + 1,
                                  ![desired].count = 0,
                                  ![desired].state = "pending",
                                  ![desired].waiting = FALSE]
  /\ UNCHANGED <<registered, pointer, attempt, row, generation>>

(***************************************************************************)
(* Leasing an attempt: ClaimLatestAgentRevision.                           *)
(***************************************************************************)
\* The agent is not busy with the desired revision, and the lease it holds is
\* not one only a reconciliation may end
ClaimAllowed ==
  /\ pointer.found
  /\ Cardinality(Active) <= 1
  /\ \A k \in Active : /\ k[1] <= desired
                       /\ k[1] = desired => /\ attempt[k].expired
                                            /\ attempt[k].state = "leased"

Claimable ==
  /\ desired \in Known
  /\ revision[desired].state = "pending"
  /\ ~revision[desired].waiting

NextRow == <<desired, revision[desired].cycle, revision[desired].count + 1>>

\* An ordinal is reused only if its lease expired before it was started
Reusable(k) == AttemptsExpired[k].state \in {"none", "expired_unstarted"}

\* Which of the unused ids a lease gets makes no difference
FreshLease == CHOOSE l \in LeaseIds : row[l] = None

Claim(l) ==
  /\ ClaimAllowed
  /\ Claimable
  /\ row[l] = None
  /\ l = FreshLease
  /\ Reusable(NextRow)
  /\ attempt' = [AttemptsExpired EXCEPT ![NextRow] =
                   [state |-> "leased", lease |-> l, expired |-> FALSE]]
  /\ row' = [row EXCEPT ![l] = NextRow]
  /\ revision' = RevisionsFenced
  /\ UNCHANGED <<registered, pointer, generation>>

\* There is nothing to lease: what the claim superseded is committed
ClaimNothing ==
  /\ ClaimAllowed
  /\ ~Claimable
  /\ attempt' = AttemptsExpired
  /\ revision' = RevisionsFenced
  /\ UNCHANGED <<registered, pointer, row, generation>>

(***************************************************************************)
(* The agent's calls, each with a lease it was given.                      *)
(***************************************************************************)
Startable(l) ==
  /\ Holds(l)
  /\ LET k == row[l]
         r == k[1]
     IN  /\ attempt[k].state = "leased"
         /\ ~attempt[k].expired
         /\ desired <= r
         /\ revision[r].state = "pending"
         /\ k[3] = revision[r].count + 1

\* StartAgentRevisionAttempt: prepare_started
Start(l) ==
  /\ Startable(l)
  /\ LET k == row[l]
         r == k[1]
     IN  /\ attempt' = [attempt EXCEPT ![k].state = "started"]
         /\ revision' = [revision EXCEPT ![r].state = "applying",
                                         ![r].count = k[3],
                                         ![r].waiting = FALSE,
                                         ![r].generation = l]
  /\ UNCHANGED <<registered, pointer, row, generation>>

\* StartAgentRevisionAttempt, too late: the lease expires, and the caller gets a
\* conflict after the commit
StartExpired(l) ==
  /\ Holds(l)
  /\ attempt[row[l]].state = "leased"
  /\ attempt[row[l]].expired
  /\ attempt' = [attempt EXCEPT ![row[l]].state = "expired_unstarted"]
  /\ UNCHANGED <<registered, pointer, revision, row, generation>>

\* A lease of an overtaken revision
StartOvertaken(l) ==
  /\ Holds(l)
  /\ attempt[row[l]].state = "leased"
  /\ ~attempt[row[l]].expired
  /\ desired > row[l][1] \/ revision[row[l][1]].state = "superseded"

\* StartAgentRevisionAttempt of an overtaken revision
StartSuperseded(l) ==
  /\ StartOvertaken(l)
  /\ attempt' = [attempt EXCEPT ![row[l]].state = "superseded"]
  /\ revision' = [revision EXCEPT ![row[l][1]] =
                    IF row[l][1] \in Open THEN Superseded(row[l][1]) ELSE @]
  /\ UNCHANGED <<registered, pointer, row, generation>>

\* What FailAgentRevisionAttempt and ApplyAgentRevisionAttempt ask of a lease
Reports(l) ==
  /\ Holds(l)
  /\ attempt[row[l]].state = "started"
  /\ ~attempt[row[l]].expired
  /\ LET r == row[l][1]
     IN  /\ revision[r].state = "applying"
         /\ revision[r].count = row[l][3]
         /\ revision[r].generation = l

Failable(l) == Reports(l) /\ desired <= row[l][1]

\* FailAgentRevisionAttempt
Fail(l) ==
  /\ Failable(l)
  /\ attempt' = [attempt EXCEPT ![row[l]].state = "failed"]
  /\ revision' = [revision EXCEPT ![row[l][1]] = AfterFailure(row[l][1])]
  /\ UNCHANGED <<registered, pointer, row, generation>>

\* Mutant of Activated: the generation it replaces stays active.
ActivatedBeside(l) ==
  [generation EXCEPT ![l] = [state |-> "active", era |-> 0]]

\* activateCoordinatorGenerationTx
Activated(l) ==
  [g \in LeaseIds |->
     CASE g = l -> [state |-> "active", era |-> 0]
       [] g /= l /\ generation[g].state = "active" ->
            [generation[g] EXCEPT !.state = "draining"]
       [] OTHER -> generation[g]]

Appliable(l) ==
  /\ Reports(l)
  /\ desired = row[l][1]
  /\ applied <= row[l][1]

\* ApplyAgentRevisionAttempt
Apply(l) ==
  /\ Appliable(l)
  /\ generation' = Activated(l)
  /\ attempt' = [attempt EXCEPT ![row[l]].state = "applied"]
  /\ revision' = [revision EXCEPT
       ![desired].state = "applied",
       ![desired].waiting = FALSE,
       ![desired].due = FALSE,
       ![desired].drain = IF \E g \in LeaseIds : Activated(l)[g].state = "draining"
                            THEN "draining" ELSE "drained"]
  /\ pointer' = [pointer EXCEPT !.applied = desired,
                                !.lkg = IF @ > desired THEN @ ELSE desired]
  /\ UNCHANGED <<registered, row>>

\* validateCoordinatorDrainLeaseTx
DrainLease(l) ==
  /\ Holds(l)
  /\ row[l][1] = applied
  /\ revision[applied].state = "applied"
  /\ revision[applied].cycle = row[l][2]
  /\ revision[applied].count = row[l][3]
  /\ attempt[row[l]].state = "applied"

\* Mutant of DrainOutcome: the predecessors forced before are forgotten.
DrainOutcomeOfLast(g, s) == s

\* How the drain of the applied revision ends once g, the last draining
\* predecessor, has ended as s
DrainOutcome(g, s) ==
  IF s = "forced" \/ \E q \in Generations("forced") : /\ row[q][1] < applied
                                                      /\ generation[q].era = applied
    THEN "forced" ELSE "drained"

\* A predecessor of the applied revision that drains
Drainable(l, g) ==
  /\ DrainLease(l)
  /\ g \in Draining
  /\ row[g][1] < row[l][1]

\* CompleteCoordinatorDrain
CompleteDrain(l, g, forced) ==
  /\ Drainable(l, g)
  /\ LET s == IF forced \/ revision[applied].due THEN "forced" ELSE "drained"
     IN  /\ generation' = [generation EXCEPT ![g] = Settled(s)]
         /\ revision' = [revision EXCEPT ![applied].drain =
                           IF Draining = {g} THEN DrainOutcome(g, s) ELSE @]
  /\ UNCHANGED <<registered, pointer, attempt, row>>

(***************************************************************************)
(* The reconciler and the housekeeping.                                    *)
(***************************************************************************)
\* Mutant of TimedOut: the deadline is compared the wrong way round.
TimedOutEarly == {k \in Active : /\ k[1] = desired
                                 /\ ~attempt[k].expired
                                 /\ attempt[k].state = "started"}

\* The started attempts of the desired revision whose deadline has passed
TimedOut == {k \in Active : /\ k[1] = desired
                            /\ attempt[k].expired
                            /\ attempt[k].state = "started"}

\* An applying revision none of whose attempts is started
Orphan(r) ==
  /\ revision[r].state = "applying"
  /\ \A n \in Ordinals : attempt[<<r, revision[r].cycle, n>>].state /= "started"

\* The desired revision after the pass over its attempts and the orphan check
Reconciled(r) ==
  CASE TimedOut /= {} -> AfterFailure(r)
    [] TimedOut = {} /\ Orphan(r) -> AfterOrphan(r)
    [] OTHER -> revision[r]

\* forceExpiredCoordinatorDrainsTx
Overdue ==
  IF applied \in Known /\ revision[applied].state = "applied" /\ revision[applied].due
    THEN {g \in Draining : row[g][1] < applied}
    ELSE {}

\* ListCoordinatorAgentIDs
Listed == Open /= {} \/ desired > applied \/ Draining /= {}

\* ReconcileCoordinatorAgent
Reconcile ==
  /\ pointer.found
  /\ Listed
  /\ \A k \in Active : k[1] <= desired
  /\ attempt' = [k \in Rows |-> IF k \in TimedOut
                                  THEN [attempt[k] EXCEPT !.state = "failed"]
                                  ELSE AttemptsExpired[k]]
  /\ generation' = Forced(Overdue)
  /\ revision' = [r \in Revisions |->
       CASE r = desired -> [Reconciled(r) EXCEPT !.drain =
                              IF r = applied /\ Overdue /= {} THEN "forced" ELSE @]
         [] r /= desired /\ r = applied /\ Overdue /= {} ->
              [revision[r] EXCEPT !.drain = "forced"]
         [] OTHER -> RevisionsFenced[r]]
  /\ UNCHANGED <<registered, pointer, row>>

\* retireCoordinatorAgentTx, in the transaction that deletes the agent
Retire ==
  /\ "retire" \in Calls
  /\ registered
  /\ registered' = FALSE
  /\ pointer' = NoPointer
  /\ attempt' = [k \in Rows |-> IF k \in Active
                                  THEN [attempt[k] EXCEPT !.state = "superseded"]
                                  ELSE attempt[k]]
  /\ generation' = Forced(Draining)
  /\ revision' = [r \in Revisions |->
       CASE r \in Open -> Superseded(r)
         [] /\ r \notin Open
            /\ r = applied
            /\ Draining /= {}
            /\ revision[r].state = "applied" -> [revision[r] EXCEPT !.drain = "forced"]
         [] OTHER -> revision[r]]
  /\ UNCHANGED row

\* protectedAgentRevisions
Protected ==
  {desired, applied, pointer.lkg} \union
  {row[l][1] : l \in Generations("active") \union Draining}

\* PruneRevisionHistory, when the rows below revision r have come of age
Prune(r) ==
  /\ "prune" \in Calls
  /\ LET gone == {q \in Known : q < r} \ Protected
     IN  /\ gone /= {}
         /\ revision' = [q \in Revisions |-> IF q \in gone THEN NoRevision ELSE revision[q]]
         /\ attempt' = [k \in Rows |-> IF k[1] \in gone THEN NoAttempt ELSE attempt[k]]
         /\ generation' = [l \in LeaseIds |->
              IF generation[l].state /= "none" /\ row[l][1] \in gone
                THEN NoGeneration ELSE generation[l]]
  /\ UNCHANGED <<registered, pointer, row>>

(***************************************************************************)
(* Time.                                                                   *)
(***************************************************************************)
LeaseExpires(k) ==
  /\ k \in Active
  /\ ~attempt[k].expired
  /\ attempt' = [attempt EXCEPT ![k].expired = TRUE]
  /\ UNCHANGED <<registered, pointer, revision, row, generation>>

RetryDelayElapses(r) ==
  /\ revision[r].waiting
  /\ revision' = [revision EXCEPT ![r].waiting = FALSE]
  /\ UNCHANGED <<registered, pointer, attempt, row, generation>>

\* Only the applied revision's drain deadline is ever read
DrainDeadlinePasses ==
  /\ applied \in Known
  /\ Draining /= {}
  /\ ~revision[applied].due
  /\ revision' = [revision EXCEPT ![applied].due = TRUE]
  /\ UNCHANGED <<registered, pointer, attempt, row, generation>>

TimePasses ==
  \/ \E k \in Rows : LeaseExpires(k)
  \/ \E r \in Revisions : RetryDelayElapses(r)
  \/ DrainDeadlinePasses

Next ==
  \/ \E r \in Revisions : \/ Publish(r)
                          \/ HeartbeatIssues(r)
                          \/ HeartbeatRepeats(r)
                          \/ Rollback(r)
                          \/ RepairRuntime(r)
                          \/ Prune(r)
  \/ Retry
  \/ \E l \in LeaseIds : \/ Claim(l)
                         \/ Start(l)
                         \/ StartExpired(l)
                         \/ StartSuperseded(l)
                         \/ Fail(l)
                         \/ Apply(l)
  \/ \E l, g \in LeaseIds, forced \in BOOLEAN : CompleteDrain(l, g, forced)
  \/ ClaimNothing
  \/ Reconcile
  \/ Retire
  \/ TimePasses

Spec == Init /\ [][Next]_vars

\* The reconciler ticks every five seconds and clocks advance; nothing is
\* assumed of the agent or of the panel's users.
FairSpec == Spec /\ WF_vars(Reconcile) /\ WF_vars(TimePasses)

(***************************************************************************)
(* Properties.                                                             *)
(***************************************************************************)
\* Every row has the values its columns may hold; no attempt beyond
\* MaxAttempts is ever started.
TypeOK ==
  /\ registered \in BOOLEAN
  /\ pointer \in Pointer
  /\ revision \in [Revisions -> RevisionRow]
  /\ attempt \in [Rows -> AttemptRow]
  /\ row \in [LeaseIds -> Rows \union {None}]
  /\ generation \in [LeaseIds -> GenerationRow]
  /\ \A r \in Revisions : revision[r].count <= MaxAttempts

\* However late, often or out of order the agent's calls arrive, it never has
\* two active attempts; a started attempt and an applying revision always come
\* together and name the same generation, so that neither Claim's conflict over
\* several leases nor the orphan repair of Reconcile is ever needed.
OneLease ==
  /\ Cardinality(Active) <= 1
  /\ \A k \in Active :
       /\ k[1] <= desired
       /\ IF attempt[k].state = "started"
            THEN /\ revision[k[1]].state = "applying"
                 /\ revision[k[1]].generation = attempt[k].lease
            ELSE revision[k[1]].state = "pending"
  /\ \A r \in Revisions : ~Orphan(r)

\* A revision is given up only after coordinatorMaxAttempts attempts of its
\* current cycle were started and failed: leases that expired unstarted, or
\* attempts of an earlier cycle, do not count.
OnlyExhaustedFails ==
  \A r \in Revisions : revision[r].state = "failed" =>
    /\ revision[r].count = MaxAttempts
    /\ \A n \in 1 .. MaxAttempts :
         attempt[<<r, revision[r].cycle, n>>].state = "failed"

\* The pointer tells the truth: the applied revision is the last known good
\* one, its row is applied and has not been pruned, and its generation is the
\* agent's one active generation.
AppliedIsServed ==
  pointer.found /\ applied > 0 =>
    /\ applied <= desired
    /\ pointer.lkg = applied
    /\ revision[applied].state = "applied"
    /\ Generations("active") = {revision[applied].generation}
    /\ row[revision[applied].generation][1] = applied

\* A generation row exists only for a lease that is still the lease of an
\* applied attempt: a lease that was superseded, expired, or replaced on its
\* ordinal by a later one leaves no generation behind.
GenerationsHaveAppliedLeases ==
  \A l \in LeaseIds : generation[l].state /= "none" =>
    /\ attempt[row[l]].state = "applied"
    /\ attempt[row[l]].lease = l

\* The drain state of the applied revision agrees with its predecessors: it is
\* draining exactly while one of them is, and is not called drained if one of
\* them was forced since the revision was applied.  The agent must not have been
\* deleted: late heartbeats may give a deleted agent a lower desired revision,
\* and a generation above the applied revision is nobody's predecessor.
DrainStateAgrees ==
  registered /\ applied > 0 =>
    /\ revision[applied].drain = "draining" <=> Draining /= {}
    /\ revision[applied].drain = "drained" =>
         \A l \in Generations("forced") : generation[l].era /= applied

\* A late call never reopens what has been decided: applied and superseded
\* revisions and settled generations keep their outcome until they are pruned,
\* a failed revision is pending again only in a new cycle, and the pointer
\* never moves back.
OutcomesStick ==
  [][ /\ \A r \in Revisions :
           LET old == revision[r].state  new == revision'[r].state
           IN  /\ old \in {"applied", "superseded"} => new \in {old, "none"}
               /\ old = "failed" /\ new \notin {old, "none"} =>
                    /\ new = "pending"
                    /\ revision'[r].cycle = revision[r].cycle + 1
      /\ \A l \in LeaseIds : generation[l].state \in {"drained", "forced"} =>
           generation'[l].state \in {generation[l].state, "none"}
      /\ pointer.found /\ pointer'.found =>
           /\ desired <= pointer'.desired
           /\ applied <= pointer'.applied ]_vars

\* Nothing waits for ever for an agent that is silent: the reconciler ends an
\* attempt whose deadline has passed, so that no revision stays applying, and
\* forces a generation that still drains when the drain deadline of the
\* revision that replaced it has passed, unless the agent has been deleted.
LedgerSettles ==
  /\ \A r \in Revisions : []<>(revision[r].state /= "applying")
  /\ \A l \in LeaseIds :
       []<>(generation[l].state /= "draining" \/ ~registered)

=============================================================================
