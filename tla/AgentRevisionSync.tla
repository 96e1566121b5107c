------------------------- MODULE AgentRevisionSync -------------------------
(***************************************************************************)
(* The agent's side of the lease protocol                                  *)
(* (go-agent/internal/core/sync_revision.go), composed with the            *)
(* coordinator's ledger through the panel's remote revision API            *)
(* (controlplane/service/revision_api.go).                                 *)
(*                                                                         *)
(* One sync recovers what an earlier one left unfinished, sends a          *)
(* heartbeat, pulls a lease and carries it through start, apply, cutover   *)
(* and report.  Before and after every call and every switch of the        *)
(* runtime it saves the generation journal, from which the next sync       *)
(* resumes.  A step is one save with the call or the check that precedes   *)
(* it, since whoever crashes between the two leaves what a lost answer     *)
(* leaves.                                                                 *)
(*                                                                         *)
(* Failures of the kinds in Faults, bounded by MaxFaults: a timeout counts *)
(* once, any other failure twice.                                          *)
(*  - "timeout": the agent gives up on a call, which may still arrive at   *)
(*    the panel, once, at any later time, or never.                        *)
(*  - "crash": the agent restarts; the journal and the applied snapshot    *)
(*    survive, the runtime and its drains do not.                          *)
(*  - "error": a local error ends the sync.                                *)
(*  - "apply": the runtime rejects the revision and stays as it was.       *)
(*  - "expiry": the deadline of a lease passes while the agent works.      *)
(*                                                                         *)
(* Abstractions.                                                           *)
(*  - The runtime runs one revision and knows which of the revisions it    *)
(*    replaced have drained; what it does is GenerationDrain's matter.     *)
(*    Applying the revision it runs changes nothing (GenerationManager).   *)
(*  - The last known good snapshot and record repeat the active ones; the  *)
(*    desired snapshot is never read by the protocol.                      *)
(*  - The digest of a snapshot is determined by its revision.  Package     *)
(*    updates, plugin statuses and traffic overlays are left out.          *)
(***************************************************************************)
EXTENDS RevisionCoordinator

CONSTANTS Faults, MaxFaults

ASSUME FaultAssumption ==
  /\ Faults \subseteq {"timeout", "crash", "error", "apply", "expiry"}
  /\ MaxFaults \in Nat

VARIABLES
  journal,        \* the durable model.GenerationJournal
  snapshot,       \* the revision of the durable applied snapshot, 0 if none
  runtime,        \* the revision the runtime runs, 0 if none
  retired,        \* the runtime's drain of each revision it replaced
  pc,             \* where the sync is
  held,           \* the lease pulled, until the journal has it
  late,           \* calls given up on that may still arrive
  faults          \* the weight of the failures so far

agentVars == <<journal, snapshot, runtime, retired, pc, held, late, faults>>
allVars == <<vars, agentVars>>

NoRecord == [lease |-> None, phase |-> "none", acknowledged |-> FALSE,
             rejected |-> FALSE]

RevisionOf(l) == row[l][1]

active == journal.active
candidate == journal.candidate

\* A record's revision, 0 for none
RevOf(record) == IF record.lease = None THEN 0 ELSE RevisionOf(record.lease)

AgentInit ==
  /\ journal = [active |-> NoRecord, candidate |-> NoRecord, draining |-> {}]
  /\ snapshot = 0
  /\ runtime = 0
  /\ retired = [r \in Revisions |-> "none"]
  /\ pc = "idle"
  /\ held = None
  /\ late = {}
  /\ faults = 0

(***************************************************************************)
(* The panel's answers.                                                    *)
(***************************************************************************)
\* loadAuthoritativeLease for an applied report
LeaseAccepted(l) ==
  LET k == row[l]
      r == k[1]
  IN  /\ attempt[k].lease = l
      /\ revision[r].cycle = k[2]
      /\ revision[r].count = k[3]
      /\ \/ /\ attempt[k].state = "started"
            /\ revision[r].state = "applying"
            /\ ~attempt[k].expired
         \/ /\ attempt[k].state = "applied"
            /\ revision[r].state = "applied"

\* The report is a replay of one that has committed
AppliedBefore(l) ==
  /\ LeaseAccepted(l)
  /\ Holds(l)
  /\ attempt[row[l]].state = "applied"
  /\ revision[RevisionOf(l)].generation = l
  /\ applied = RevisionOf(l)

\* The panel answers with revision_lease_conflict
LeaseConflict(l) ==
  /\ RevisionOf(l) \in Known
  /\ \/ ~LeaseAccepted(l)
     \/ /\ pointer.found
        /\ attempt[row[l]].state = "started"
        /\ desired /= RevisionOf(l) \/ applied > RevisionOf(l)

\* The predecessor's drain has been settled before
DrainedBefore(l, g) ==
  /\ DrainLease(l)
  /\ generation[g].state \in {"drained", "forced"}
  /\ RevisionOf(g) < RevisionOf(l)

\* currentRemoteLease
CurrentLease(l) ==
  /\ row[l] \in Active
  /\ attempt[row[l]].lease = l
  /\ RevisionOf(l) = desired
  /\ row[l][2] = revision[desired].cycle
  /\ ~attempt[row[l]].expired

(***************************************************************************)
(* Moving through a sync.                                                  *)
(***************************************************************************)
Goto(to) == pc' = to

\* A timeout counts once against MaxFaults, any other failure twice.
Weight(kind) == IF kind = "timeout" THEN 1 ELSE 2

Fault(kind) ==
  /\ kind \in Faults
  /\ faults' = faults + Weight(kind)
  /\ faults' <= MaxFaults

\* The agent gives up on a call
GivesUp(call) ==
  /\ Fault("timeout")
  /\ late' = late \union {call}
  /\ UNCHANGED <<vars, journal, snapshot, runtime, retired, held>>

\* A check or a local computation
Local == UNCHANGED <<vars, journal, snapshot, runtime, retired, held, late, faults>>

\* What a journal save leaves alone
Saved == UNCHANGED <<snapshot, runtime, retired, held, late, faults>>

SaveCandidate(record) == journal' = [journal EXCEPT !.candidate = record]

\* resolveAppliedRevisionReport with the save that follows it, for a sync that
\* goes on at acked, rejected or errored
ReportApplied(acked, rejected, errored) ==
  LET l == active.lease
  IN  \/ /\ Apply(l) \/ (AppliedBefore(l) /\ UNCHANGED vars)
         /\ journal' = [journal EXCEPT !.active.acknowledged = TRUE]
         /\ Goto(acked)
         /\ Saved
      \/ /\ LeaseConflict(l)
         /\ journal' = [journal EXCEPT !.active.rejected = TRUE]
         /\ Goto(rejected)
         /\ UNCHANGED vars
         /\ Saved
      \/ /\ ~Appliable(l) /\ ~AppliedBefore(l) /\ ~LeaseConflict(l)
         /\ Goto(errored)
         /\ Local
      \/ /\ GivesUp(<<"applied", l>>)
         /\ Goto(errored)

\* reportRevisionFailed with the save that follows it
ReportFailed ==
  LET l == candidate.lease
  IN  \/ /\ Fail(l)
         /\ SaveCandidate([candidate EXCEPT !.acknowledged = TRUE])
         /\ Goto("idle")
         /\ Saved
      \/ /\ ~Failable(l)
         /\ Goto("idle")
         /\ Local
      \/ /\ GivesUp(<<"failed", l>>)
         /\ Goto("idle")

(***************************************************************************)
(* performRevisionSyncPlan up to the pull.                                 *)
(***************************************************************************)
\* restoreDurableRevisionRuntime: a restarted agent runs its applied snapshot
BeginSync ==
  /\ pc = "idle"
  /\ runtime' = IF runtime = 0 THEN snapshot ELSE runtime
  /\ Goto("recover")
  /\ UNCHANGED <<vars, journal, snapshot, retired, held, late, faults>>

Unresolved == /\ active.lease /= None
              /\ ~active.acknowledged
              /\ ~active.rejected

\* recoverActiveRevisionAcknowledgement
Recover ==
  /\ pc = "recover"
  /\ \/ /\ ~Unresolved
        /\ Goto("drains")
        /\ Local
     \/ /\ Unresolved
        /\ runtime /= RevOf(active)
        /\ Goto("heartbeat")
        /\ Local
     \/ /\ Unresolved
        /\ runtime = RevOf(active)
        /\ ReportApplied("drains", "drains", "heartbeat")

\* completedRuntimeDrain: only the runtime's own word ends a drain
Terminal(record) == retired[RevOf(record)] \in {"drained", "forced"}

\* The predecessor reportCompletedGenerationDrains comes to next
Oldest(record) ==
  /\ active.acknowledged
  /\ record \in journal.draining
  /\ Terminal(record)
  /\ \A other \in journal.draining : Terminal(other) => RevOf(record) <= RevOf(other)

AfterDrains == IF pc = "drains" THEN "heartbeat" ELSE "idle"

Dropped(record) == [journal EXCEPT !.draining = @ \ {record}]

\* reportCompletedGenerationDrains, one predecessor at a time; an error ends
\* the sync, before the heartbeat too
ReportDrain(record) ==
  LET g == record.lease
      forced == retired[RevOf(record)] = "forced"
  IN  \/ /\ \/ CompleteDrain(active.lease, g, forced)
            \/ DrainedBefore(active.lease, g) /\ UNCHANGED vars
         /\ journal' = Dropped(record)
         /\ UNCHANGED pc
         /\ Saved
      \/ /\ ~Drainable(active.lease, g)
         /\ ~DrainedBefore(active.lease, g)
         /\ Goto("idle")
         /\ Local
      \/ /\ GivesUp(<<"drained", active.lease, g, forced>>)
         /\ Goto("idle")

Drains ==
  /\ pc \in {"drains", "closing"}
  /\ \/ /\ \A record \in journal.draining : ~Oldest(record)
        /\ Goto(AfterDrains)
        /\ Local
     \/ \E record \in journal.draining :
          /\ Oldest(record)
          /\ \/ /\ record.rejected
                /\ journal' = Dropped(record)
                /\ UNCHANGED <<vars, pc>>
                /\ Saved
             \/ /\ ~record.rejected
                /\ ReportDrain(record)

Heartbeat ==
  /\ pc = "heartbeat"
  /\ Goto("pull")
  /\ Local

\* PullRemoteRevision: the current lease, or a new one.  Claim reconciles and
\* tries again when a started attempt has expired.
Pull ==
  /\ pc = "pull"
  /\ \/ /\ desired <= applied
        /\ Goto("idle")
        /\ Local
     \/ /\ desired > applied
        /\ \E l \in LeaseIds : \/ CurrentLease(l) /\ held' = l /\ UNCHANGED vars
                               \/ Claim(l) /\ held' = l
        /\ Goto("leased")
        /\ UNCHANGED <<journal, snapshot, runtime, retired, late, faults>>
     \/ /\ desired > applied
        /\ ClaimNothing
        /\ Goto("idle")
        /\ UNCHANGED <<journal, snapshot, runtime, retired, held, late, faults>>
     \/ /\ desired > applied
        /\ TimedOut /= {}
        /\ Reconcile
        /\ UNCHANGED agentVars
     \/ /\ GivesUp(<<"pull">>)
        /\ Goto("idle")

(***************************************************************************)
(* Carrying a lease.                                                       *)
(***************************************************************************)
\* durableRevisionFloor
Floor == {runtime, RevOf(active), RevOf(candidate)}
           \union {RevOf(record) : record \in journal.draining}

\* Mutant of Stale: the revision of the journal is stale too.
StaleOrEqual(l) == \E floor \in Floor : RevisionOf(l) <= floor

Stale(l) == \E floor \in Floor : RevisionOf(l) < floor

\* The phase a candidate is resumed in: one that runs already has cut over
ResumedPhase == IF candidate.phase = "started" /\ runtime = RevOf(candidate)
                  THEN "cutover" ELSE candidate.phase

\* Where a sync goes on with a lease it has a candidate for
Resume ==
  CASE ResumedPhase = "failed" -> IF candidate.acknowledged THEN "idle" ELSE "failing"
    [] ResumedPhase = "prepared" -> "prepared"
    [] ResumedPhase = "starting" -> "idle"
    [] ResumedPhase = "started" -> "started"
    [] ResumedPhase = "cutover" -> IF snapshot = RevOf(candidate)
                                     THEN "finish" ELSE "started"

\* The dispatch on the pulled lease and the journal
Adopt ==
  /\ pc = "leased"
  /\ LET old == Stale(held) \/ active.lease = held
         known == candidate.lease = held
     IN  \/ /\ old
            /\ Goto(IF Stale(held) \/ ~Unresolved THEN "idle" ELSE "repeat")
            /\ UNCHANGED journal
         \/ /\ ~old /\ known
            /\ SaveCandidate([candidate EXCEPT !.phase = ResumedPhase])
            /\ Goto(Resume)
         \/ /\ ~old /\ ~known
            /\ SaveCandidate([NoRecord EXCEPT !.lease = held, !.phase = "prepared"])
            /\ Goto("prepared")
  /\ held' = None
  /\ UNCHANGED <<vars, snapshot, runtime, retired, late, faults>>

\* The lease of the active generation, whose report is still unresolved
Repeat ==
  /\ pc = "repeat"
  /\ IF runtime = RevOf(active)
       THEN ReportApplied("idle", "idle", "idle")
       ELSE Goto("idle") /\ Local

BeforeStart ==
  /\ pc = "prepared"
  /\ SaveCandidate([candidate EXCEPT !.phase = "starting"])
  /\ Goto("start")
  /\ UNCHANGED vars
  /\ Saved

\* StartRevision; an error leaves the candidate starting
StartRevision ==
  /\ pc = "start"
  /\ LET l == candidate.lease
     IN  \/ /\ Start(l)
            /\ SaveCandidate([candidate EXCEPT !.phase = "started"])
            /\ Goto("started")
            /\ Saved
         \/ /\ ~Startable(l)
            /\ IF StartOvertaken(l) THEN StartSuperseded(l) ELSE UNCHANGED vars
            /\ Goto("idle")
            /\ UNCHANGED journal
            /\ Saved
         \/ /\ GivesUp(<<"start", l>>)
            /\ Goto("idle")

\* This revision is the active one already, under an earlier lease
AlreadyActive == /\ RevOf(active) = RevOf(candidate)
                 /\ snapshot = RevOf(candidate)

LeaseLive(l) == attempt[row[l]].lease = l /\ ~attempt[row[l]].expired

\* Runtime.Apply succeeds: the generation it replaces begins to drain
ApplySucceeds ==
  /\ pc = "started"
  /\ ~AlreadyActive
  /\ LET r == RevOf(candidate)
     IN  /\ runtime' = r
         /\ retired' = [q \in Revisions |->
              IF q = runtime /\ q /= r THEN "draining" ELSE retired[q]]
  /\ Goto("applied")
  /\ UNCHANGED <<vars, journal, snapshot, held, late, faults>>

\* Runtime.Apply fails, or the lease's deadline has passed before it.  Past the
\* cutover the attempt is not given up.
ApplyFails ==
  /\ pc = "started"
  /\ ~AlreadyActive
  /\ IF LeaseLive(candidate.lease) THEN Fault("apply") ELSE UNCHANGED faults
  /\ IF candidate.phase = "cutover"
       THEN Goto("idle") /\ UNCHANGED journal
       ELSE Goto("failing") /\ SaveCandidate([candidate EXCEPT !.phase = "failed"])
  /\ UNCHANGED <<vars, snapshot, runtime, retired, held, late>>

\* The revision is active: only the report under the new lease is left
SkipApply ==
  /\ pc = "started"
  /\ AlreadyActive
  /\ Goto(IF runtime = RevOf(candidate) THEN "finish" ELSE "idle")
  /\ Local

\* Mutant of SaveCutover: the applied snapshot is not saved before the report.
SaveCutoverOnly ==
  /\ pc = "applied"
  /\ SaveCandidate([candidate EXCEPT !.phase = "cutover"])
  /\ Goto("finish")
  /\ UNCHANGED vars
  /\ Saved

SaveCutover ==
  /\ pc = "applied"
  /\ SaveCandidate([candidate EXCEPT !.phase = "cutover"])
  /\ Goto("cutover")
  /\ UNCHANGED vars
  /\ Saved

SaveAppliedSnapshot ==
  /\ pc = "cutover"
  /\ snapshot' = RevOf(candidate)
  /\ Goto("finish")
  /\ UNCHANGED <<vars, journal, runtime, retired, held, late, faults>>

\* Mutant of Predecessors: a generation that has drained by now is dropped.
PredecessorsInUse ==
  IF /\ active.lease /= None /\ RevOf(active) < RevOf(candidate)
     /\ retired[RevOf(active)] = "draining"
    THEN journal.draining \union {active} ELSE journal.draining

\* appendDrainingGeneration
Predecessors ==
  IF active.lease /= None /\ RevOf(active) < RevOf(candidate)
    THEN journal.draining \union {active} ELSE journal.draining

\* finishRevisionAcknowledgement, up to its first save
Finish ==
  /\ pc = "finish"
  /\ IF runtime = RevOf(candidate)
       THEN /\ journal' = [active |-> [candidate EXCEPT !.phase = "active"],
                           candidate |-> NoRecord,
                           draining |-> Predecessors]
            /\ Goto("report")
       ELSE /\ UNCHANGED journal
            /\ Goto("idle")
  /\ UNCHANGED vars
  /\ Saved

Report ==
  /\ pc = "report"
  /\ ReportApplied("closing", "idle", "idle")

ReportFailure ==
  /\ pc = "failing"
  /\ ReportFailed

SyncStep ==
  \/ BeginSync \/ Recover \/ Drains \/ Heartbeat \/ Pull \/ Adopt \/ Repeat
  \/ BeforeStart \/ StartRevision \/ ApplySucceeds \/ ApplyFails \/ SkipApply
  \/ SaveCutover \/ SaveAppliedSnapshot \/ Finish \/ Report \/ ReportFailure

(***************************************************************************)
(* Everything else.                                                        *)
(***************************************************************************)
Crash ==
  /\ Fault("crash")
  /\ runtime' = 0
  /\ retired' = [r \in Revisions |-> "none"]
  /\ held' = None
  /\ Goto("idle")
  /\ UNCHANGED <<vars, journal, snapshot, late>>

SyncFails ==
  /\ Fault("error")
  /\ pc /= "idle"
  /\ held' = None
  /\ Goto("idle")
  /\ UNCHANGED <<vars, journal, snapshot, runtime, retired, late>>

\* A call the agent has given up on arrives after all
LateArrives(call) ==
  /\ call \in late
  /\ CASE call[1] = "pull" -> \E l \in LeaseIds : Claim(l)
       [] call[1] = "start" -> Start(call[2]) \/ StartSuperseded(call[2])
       [] call[1] = "failed" -> Fail(call[2])
       [] call[1] = "applied" -> Apply(call[2])
       [] call[1] = "drained" -> CompleteDrain(call[2], call[3], call[4])
  /\ late' = late \ {call}
  /\ UNCHANGED <<journal, snapshot, runtime, retired, pc, held, faults>>

\* The sessions of a replaced generation have ended, or were cut off
RuntimeDrainEnds(r, outcome) ==
  /\ retired[r] = "draining"
  /\ retired' = [retired EXCEPT ![r] = outcome]
  /\ UNCHANGED <<vars, journal, snapshot, runtime, pc, held, late, faults>>

\* The agent does nothing about this lease: it waits for it to expire
Awaited(k) == /\ candidate.phase = "starting"
              /\ pc /= "start"
              /\ attempt[k].lease = candidate.lease

LeaseRunsOut(k) ==
  /\ LeaseExpires(k)
  /\ IF Awaited(k) THEN UNCHANGED faults ELSE Fault("expiry")
  /\ UNCHANGED <<journal, snapshot, runtime, retired, pc, held, late>>

PanelStep ==
  /\ \/ \E r \in Revisions : Publish(r) \/ Prune(r)
     \/ Retry
     \/ Reconcile
     \/ \E r \in Revisions : RetryDelayElapses(r)
     \/ DrainDeadlinePasses
  /\ UNCHANGED agentVars

SyncInit == Init /\ AgentInit

SyncNext ==
  \/ SyncStep
  \/ Crash
  \/ SyncFails
  \/ \E call \in late : LateArrives(call)
  \/ \E r \in Revisions, outcome \in {"drained", "forced"} : RuntimeDrainEnds(r, outcome)
  \/ \E k \in Rows : LeaseRunsOut(k)
  \/ PanelStep

SyncSpec == SyncInit /\ [][SyncNext]_allVars

\* The agent syncs for ever and its calls are answered once the failures are
\* over, the reconciler ticks and clocks advance.
SyncFairness ==
  /\ WF_allVars(SyncStep)
  /\ WF_allVars(Reconcile /\ UNCHANGED agentVars)
  /\ WF_allVars((\E r \in Revisions : RetryDelayElapses(r)) /\ UNCHANGED agentVars)
  /\ WF_allVars(\E k \in Rows : Awaited(k) /\ LeaseRunsOut(k))

FairSyncSpec == SyncSpec /\ SyncFairness

(***************************************************************************)
(* Properties.                                                             *)
(***************************************************************************)
\* What the panel calls applied survives a restart of the agent: its snapshot
\* is on the agent's disk, or a later one is.  The heartbeat reports the
\* revision on disk, and one below the applied revision would make the panel
\* copy it as a repair (repairRemoteRuntimeRevision).
AppliedIsDurable == applied <= snapshot

\* The ledger is right about the agent, across crashes, lost answers and reports
\* that arrive late.  The generations the panel waits for are the ones the agent
\* will report; an acknowledged generation has been applied in the ledger and a
\* rejected one never gets a row there; the agent applies only under an attempt
\* that the panel has counted as started; and what the ledger calls drained is
\* neither run by the agent nor has sessions left on it.
LedgerIsTrue ==
  /\ \A l \in Generations("active") \union Draining :
       l \in {active.lease} \union {record.lease : record \in journal.draining}
  /\ active.acknowledged => generation[active.lease].state = "active"
  /\ \A record \in {active} \union journal.draining :
       record.rejected => generation[record.lease].state = "none"
  /\ candidate.phase \in {"started", "cutover"} =>
       LET k == row[candidate.lease]
       IN  attempt[k].lease = candidate.lease =>
             attempt[k].state \notin {"leased", "expired_unstarted"}
  /\ \A g \in Generations("drained") :
       /\ runtime /= RevisionOf(g)
       /\ retired[RevisionOf(g)] /= "draining"

\* A predecessor has drained of whose application the panel never heard: its
\* report was lost in two syncs, the second of which went on to the next
\* revision.  The report of its drain is refused, and every sync ends there.
Stranded == \E record \in journal.draining :
  /\ Terminal(record)
  /\ ~record.rejected
  /\ generation[record.lease].state = "none"

\* A revision that stays desired is applied or given up, whatever single failure,
\* or pair of timeouts, happens on the way, unless it strands the agent: a drain
\* report that is refused ends reportCompletedGenerationDrains, and with it the
\* sync, before the heartbeat and the pull.
Converges == \A r \in Revisions :
  desired = r ~>
    desired /= r \/ applied = r \/ revision[r].state = "failed" \/ Stranded

=============================================================================
