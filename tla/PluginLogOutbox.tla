--------------------------- MODULE PluginLogOutbox ---------------------------
(***************************************************************************)
(* The durable outbox of plugin logs (go-agent plugin_log_outbox and _sink)*)
(* with its writers, the heartbeats that carry its reports, the recording  *)
(* of those reports by the control plane and the retirement of log fences  *)
(* by a revision that removes plugin generations.                          *)
(*                                                                         *)
(* The outbox has no state but its journal: every operation reads the file *)
(* under the mutex of its process, changes what it read, appends a record  *)
(* and, when there are too many, replaces the file by a checkpoint.  An    *)
(* operation is two steps, the read and the write, so that a write can     *)
(* fail, a process can die and another process can come in between.        *)
(***************************************************************************)
EXTENDS Naturals, Sequences, FiniteSets, SequencesExt

CONSTANTS
  Procs,         \* agent processes that use the data directory
  Fences,        \* plugin generations that log
  Batches,       \* captured events
  MaxRecords,    \* maxPluginLogOutboxJournalRecords
  Settings       \* what the runs range over, see Setting

\* A setting: per batch the fences of its reports, in order, and the process that
\* captures it; per revision from 1 on the fences it runs;
\* MaxPendingPluginLogReports and maxPluginLogReplayIdentities; the bounds on the
\* writes that fail, on the restarts of an agent and on the heartbeats whose reply
\* is lost.  Two processes share the directory while one hands over to the other;
\* the revisions are those of one process.
Setting == [drafts : [Batches -> Seq(Fences)], home : [Batches -> Procs],
            active : Seq(SUBSET Fences),
            pending : Nat, replay : Nat,
            faults : Nat, crashes : Nat, losses : Nat]

ASSUME OutboxAssumption ==
  \A s \in Settings : s \in Setting /\ s.pending <= s.replay

VARIABLES
  journal,       \* plugin-log-outbox.jsonl: its complete lines
  torn,          \* ... and whether a partial line follows
  apart,         \* history: no process has read it between the read and the
                 \* write of an operation of another
  op,            \* per process: the operation that holds the mutex
  session,       \* per process: pluginLogSessionID
  redrain,       \* per process: pluginLogDrainRetries
  capture,       \* per batch: its writer
  changed,       \* per batch: the channel its writer waits on is closed
  beat,          \* per process: its heartbeat
  row,           \* control plane: the last report of each fence
  recorded,      \* control plane: how often each report was recorded
  settled,       \* reports recorded or discarded
  upgrade,       \* the revision being applied
  applied,       \* the durable applied revision
  serving,       \* the revision of the active generation
  draining,      \* revisions of retired generations that still run
  faults, crashes, losses,
  setting        \* chosen at the start

disk == <<journal, torn, apart>>
writers == <<capture, changed>>
plane == <<row, recorded, settled>>
revisions == <<upgrade, applied, serving, draining>>
counts == <<faults, crashes, losses>>
vars == <<disk, op, session, redrain, writers, beat, plane, revisions, counts,
          setting>>

Drafts == setting.drafts
Home == setting.home
Active == setting.active
MaxPending == setting.pending
MaxReplay == setting.replay
MaxFaults == setting.faults
MaxCrashes == setting.crashes
MaxLosses == setting.losses

Revisions == 1..Len(Active)

\* The processes that have the data directory open.
Users == {Home[b] : b \in Batches}

\* retiredRuntimeLogIdentities: the fences that revision r does away with.
Removed(r) == IF r = 1 THEN {} ELSE Active[r - 1] \ Active[r]

\* The fences with a process.
Live == UNION {Active[r] : r \in draining \union {serving}}

NoReport == [fence |-> "none", seq |-> 0, batch |-> "none", index |-> 0]
NoIntent == [session |-> 0, drained |-> FALSE]

----------------------------------------------------------------------------
(* pluginLogOutboxState *)

Empty == [pending  |-> <<>>,
          sequence |-> [f \in Fences |-> 0],
          batches  |-> <<>>,
          acks     |-> <<>>,
          retired  |-> {},
          intents  |-> [r \in Revisions |-> NoIntent],
          err      |-> FALSE]

FencesOf(reports) == {reports[i].fence : i \in DOMAIN reports}

\* Batches none of whose reports is pending.
Unprotected(s) ==
  {i \in DOMAIN s.batches : ToSet(s.batches[i].reports)
                              \intersect ToSet(s.pending) = {}}

\* Retired fences that no pending report and no retained batch refers to.
ForgettableFences(s) ==
  s.retired \ (FencesOf(s.pending)
                 \union UNION {FencesOf(s.batches[i].reports) :
                                 i \in DOMAIN s.batches})

\* trimReplayHistory; every operation adds at most one batch and one ack.
TrimBatches(s) ==
  LET i == CHOOSE i \in Unprotected(s) : \A j \in Unprotected(s) : i <= j
  IN  IF Len(s.batches) > MaxReplay /\ Unprotected(s) # {}
        THEN [s EXCEPT !.batches =
                SubSeq(@, i + 1, Len(@)) \o SubSeq(@, 1, i - 1)]
        ELSE s

TrimFences(s) ==
  LET gone == ForgettableFences(s)
  IN  [s EXCEPT
         !.sequence = [f \in Fences |-> IF f \in gone THEN 0 ELSE @[f]],
         !.retired = @ \ gone,
         !.acks = IF Len(@) > MaxReplay THEN Tail(@) ELSE @]

Known(s, b) == \E i \in DOMAIN s.batches : s.batches[i].id = b

\* The reports of batch b with their sequence numbers.
Assigned(s, b) ==
  [i \in DOMAIN Drafts[b] |->
     [fence |-> Drafts[b][i],
      seq   |-> s.sequence[Drafts[b][i]]
                  + Cardinality({j \in 1..i : Drafts[b][j] = Drafts[b][i]}),
      batch |-> b,
      index |-> i]]

Full(s, b) == Len(s.pending) + Len(Drafts[b]) > MaxPending

HighWater(s, reports, f) ==
  LET seqs == {s.sequence[f]} \union
              {reports[i].seq : i \in {j \in DOMAIN reports :
                                         reports[j].fence = f}}
  IN  CHOOSE n \in seqs : \A m \in seqs : m <= n

\* enqueue, and the replay of its record with the checks of the load.
Enqueued(s, b, reports) ==
  IF Known(s, b) THEN s
  ELSE [s EXCEPT
         !.err = \/ @
                 \/ Len(s.pending) + Len(reports) > MaxPending
                 \/ \E i \in DOMAIN reports :
                      reports[i].seq <= s.sequence[reports[i].fence],
         !.pending = @ \o reports,
         !.sequence = [f \in Fences |-> HighWater(s, reports, f)],
         !.batches = Append(@, [id |-> b, reports |-> reports]),
         !.retired = @ \ FencesOf(reports)]

AckChanges(s, sent) ==
  /\ sent \notin ToSet(s.acks)
  /\ ToSet(sent) \intersect ToSet(s.pending) # {}

\* acknowledge, and the replay of its record.
Acked(s, sent) ==
  IF sent \in ToSet(s.acks) THEN s
  ELSE [s EXCEPT
         !.pending = SelectSeq(@, LAMBDA r : r \notin ToSet(sent)),
         !.acks = Append(@, sent)]

\* stageRetirementIntent: an intent of the same identity is left as it is.
Staged(s, r, n) ==
  IF s.intents[r] # NoIntent THEN s
  ELSE [s EXCEPT !.intents[r] = [session |-> n, drained |-> FALSE]]

\* markRetirementIntentDrained; a replay finds a dangling record.
Drained(s, r) ==
  IF s.intents[r] = NoIntent \/ s.intents[r].drained
    THEN [s EXCEPT !.err = TRUE]
    ELSE [s EXCEPT !.intents[r].drained = TRUE]

\* completeRetirementIntent retires the fences.
Completed(s, r) ==
  IF ~s.intents[r].drained
    THEN [s EXCEPT !.err = TRUE]
    ELSE [s EXCEPT
           !.retired = @ \union {f \in Removed(r) : s.sequence[f] > 0},
           !.intents[r] = NoIntent]

Aborted(s, r) ==
  IF s.intents[r] = NoIntent
    THEN [s EXCEPT !.err = TRUE]
    ELSE [s EXCEPT !.intents[r] = NoIntent]

\* One line of the journal.
Applied(s, line) ==
  CASE line.op = "checkpoint" -> line.body
    [] line.op = "enqueue"    -> Enqueued(s, line.id, line.body)
    [] line.op = "ack"        -> Acked(s, line.body)
    [] line.op = "stage"      -> Staged(s, line.id, line.body)
    [] line.op = "drained"    -> Drained(s, line.id)
    [] line.op = "complete"   -> Completed(s, line.id)
    [] line.op = "abort"      -> Aborted(s, line.id)

\* ... and the trimming that follows every operation.  (Sets of one element, so
\* that TLC evaluates each state once.)
Replayed(s, line) ==
  CHOOSE t \in {TrimFences(v) : v \in {TrimBatches(u) : u \in
                {Applied(w, line) : w \in {s}}}} : TRUE

\* loadPluginLogOutboxLocked.
Load(lines) == FoldLeft(Replayed, Empty, lines)

Line(kind, id, body) == [op |-> kind, id |-> id, body |-> body]

----------------------------------------------------------------------------
(* An operation: read, then write *)

Idle == [kind |-> "idle"]

\* The mutex of p is free and s is what the journal says; a partial line goes.
\* The mutex of another process holds nobody back.
Reads(p, s) ==
  /\ op[p] = Idle
  /\ ~s.err
  /\ torn' = FALSE
  /\ apart' = (apart /\ \A q \in Procs : op[q] = Idle)

\* The state a journal has, as a set of one.
Loaded == {Load(journal)}

\* p is about to append line to what it read.
Holds(p, kind, line) ==
  op' = [op EXCEPT ![p] = [kind |-> kind, line |-> line, base |-> journal]]

\* Mutant of Written: the checkpoint is taken before the record.
WrittenBefore(o) ==
  IF Len(o.base) + 1 > MaxRecords
    THEN <<Line("checkpoint", "none", Load(o.base))>>
    ELSE Append(journal, o.line)

\* maybeCompactPluginLogOutboxLocked after the append.
Written(o) ==
  IF Len(o.base) + 1 > MaxRecords
    THEN <<Line("checkpoint", "none", Replayed(Load(o.base), o.line))>>
    ELSE Append(journal, o.line)

\* The write succeeds ...
Succeeds(p) ==
  /\ journal' = Written(op[p])
  /\ UNCHANGED <<torn, apart, faults>>

\* ... or fails with nothing, a partial line, or the whole record on disk.
Fails(p) ==
  /\ faults < MaxFaults
  /\ faults' = faults + 1
  /\ UNCHANGED apart
  /\ \/ UNCHANGED journal /\ torn' \in BOOLEAN
     \/ journal' = Append(journal, op[p].line) /\ UNCHANGED torn
     \/ journal' = Written(op[p]) /\ UNCHANGED torn

Releases(p) == op' = [op EXCEPT ![p] = Idle]

----------------------------------------------------------------------------
(* The writers: CaptureRuntimeLogEvent *)

\* A plugin process logs.
Capture(b) ==
  /\ capture[b] = "none"
  /\ Drafts[b] # <<>>
  /\ ToSet(Drafts[b]) \subseteq Live
  /\ capture' = [capture EXCEPT ![b] = "trying"]
  /\ UNCHANGED <<disk, op, session, redrain, changed, beat, plane, revisions,
                 counts, setting>>

\* EnqueuePluginLogReports reads the journal.
BeginEnqueue(p, b) ==
  /\ capture[b] = "trying"
  /\ p = Home[b]
  /\ \A q \in Procs : op[q] # Idle => op[q].line.id # b
  /\ \E s \in Loaded :
       /\ Reads(p, s)
       /\ \/ /\ Known(s, b)
             /\ capture' = [capture EXCEPT ![b] = "done"]
             /\ UNCHANGED op
          \/ /\ ~Known(s, b) /\ Full(s, b)
             /\ capture' = [capture EXCEPT ![b] = "full"]
             /\ UNCHANGED op
          \/ /\ ~Known(s, b) /\ ~Full(s, b)
             /\ Holds(p, "enqueue", Line("enqueue", b, Assigned(s, b)))
             /\ UNCHANGED capture
  /\ UNCHANGED <<journal, session, redrain, changed, beat, plane, revisions,
                 counts, setting>>

\* A failed enqueue is tried again with the same identity.
EndEnqueue(p) ==
  /\ op[p].kind = "enqueue"
  /\ \/ /\ Succeeds(p)
        /\ capture' = [capture EXCEPT ![op[p].line.id] = "done"]
     \/ Fails(p) /\ UNCHANGED capture
  /\ Releases(p)
  /\ UNCHANGED <<session, redrain, changed, beat, plane, revisions, crashes,
                 losses, setting>>

\* waitPluginLogCapacity: take the channel, then look at the pending reports.
TakeChannel(b) ==
  /\ capture[b] = "full"
  /\ changed' = [changed EXCEPT ![b] = FALSE]
  /\ capture' = [capture EXCEPT ![b] = "checking"]
  /\ UNCHANGED <<disk, op, session, redrain, beat, plane, revisions, counts,
                 setting>>

CheckCapacity(p, b) ==
  /\ capture[b] = "checking"
  /\ p = Home[b]
  /\ \E s \in Loaded :
       /\ Reads(p, s)
       /\ capture' = [capture EXCEPT ![b] =
                        IF Len(s.pending) < MaxPending
                          THEN "trying" ELSE "waiting"]
  /\ UNCHANGED <<journal, op, session, redrain, changed, beat, plane,
                 revisions, counts, setting>>

Wake(b) ==
  /\ capture[b] = "waiting"
  /\ changed[b]
  /\ capture' = [capture EXCEPT ![b] = "full"]
  /\ UNCHANGED <<disk, op, session, redrain, changed, beat, plane, revisions,
                 counts, setting>>

----------------------------------------------------------------------------
(* The heartbeat *)

\* makeSyncPlan takes the pending reports.
SendBeat(p) ==
  /\ beat[p].at = "none"
  /\ redrain[p] = {}
  /\ \E s \in Loaded :
       /\ Reads(p, s)
       /\ s.pending # <<>>
       /\ beat' = [beat EXCEPT ![p] = [at |-> "sent", reports |-> s.pending]]
  /\ UNCHANGED <<journal, op, session, redrain, writers, plane, revisions,
                 counts, setting>>

\* RecordPluginRuntimeLogReport: a report at or below the fence.
Stale(last, r) == r.seq < last[r.fence].seq
Repeated(last, r) == r.seq = last[r.fence].seq /\ r = last[r.fence]
Differs(last, r) == r.seq = last[r.fence].seq /\ r # last[r.fence]

\* One report of a heartbeat; the first refusal ends the heartbeat.
RecordReport(c, r, discarded) ==
  CASE c.refused -> c
    [] ~c.refused /\ r.fence \in discarded ->
         [c EXCEPT !.settled = @ \union {r}]
    [] ~c.refused /\ r.fence \notin discarded
                  /\ (Stale(c.row, r) \/ Differs(c.row, r)) ->
         [c EXCEPT !.refused = TRUE]
    [] ~c.refused /\ r.fence \notin discarded /\ Repeated(c.row, r) -> c
    [] OTHER ->
         [c EXCEPT !.row[r.fence] = r,
                   !.recorded[r.batch][r.index] = @ + 1,
                   !.settled = @ \union {r}]

\* All the reports of a heartbeat.
Recorded(reports, discarded) ==
  LET next(c, r) == CHOOSE d \in {RecordReport(e, r, discarded) : e \in {c}} : TRUE
  IN  FoldLeft(next, [row |-> row, recorded |-> recorded, settled |-> settled,
                      refused |-> FALSE], reports)

\* Heartbeat: the generations it discards are not authoritative any more.
ReceiveBeat(p) ==
  /\ beat[p].at = "sent"
  /\ \E discarded \in SUBSET (Fences \ Active[applied]) :
       \E c \in {Recorded(beat[p].reports, discarded)} :
         /\ row' = c.row
         /\ recorded' = c.recorded
         /\ settled' = c.settled
         /\ \/ /\ beat' = [beat EXCEPT ![p].at =
                             IF c.refused THEN "none" ELSE "answered"]
               /\ UNCHANGED losses
            \/ /\ losses < MaxLosses
               /\ losses' = losses + 1
               /\ beat' = [beat EXCEPT ![p].at = "none"]
  /\ UNCHANGED <<disk, op, session, redrain, writers, revisions, faults,
                 crashes, setting>>

\* AcknowledgePluginLogReports.
BeginAck(p) ==
  /\ beat[p].at = "answered"
  /\ \E s \in Loaded :
       /\ Reads(p, s)
       /\ IF AckChanges(s, beat[p].reports)
            THEN /\ Holds(p, "ack", Line("ack", "none", beat[p].reports))
                 /\ UNCHANGED beat
            ELSE beat' = [beat EXCEPT ![p].at = "none"] /\ UNCHANGED op
  /\ UNCHANGED <<journal, session, redrain, writers, plane, revisions,
                 counts, setting>>

\* pluginLogCapacitySignal.notify closes the channel of every writer of p.
Notify(p) == changed' = [b \in Batches |-> changed[b] \/ Home[b] = p]

\* Only an append without an error wakes the writers.
EndAck(p) ==
  /\ op[p].kind = "ack"
  /\ \/ Succeeds(p) /\ Notify(p)
     \/ Fails(p) /\ UNCHANGED changed
  /\ beat' = [beat EXCEPT ![p].at = "none"]
  /\ Releases(p)
  /\ UNCHANGED <<session, redrain, capture, plane, revisions, crashes,
                 losses, setting>>

----------------------------------------------------------------------------
(* The retirement of fences by a revision *)

\* GenerationModule.Prepare of the next revision stages its intent.
BeginStage(p) ==
  /\ upgrade = "idle"
  /\ serving + 1 \in Revisions
  /\ \E s \in Loaded :
       /\ Reads(p, s)
       /\ IF Removed(serving + 1) = {} \/ s.intents[serving + 1] # NoIntent
            THEN upgrade' = "staged" /\ UNCHANGED op
            ELSE /\ Holds(p, "stage", Line("stage", serving + 1, session[p]))
                 /\ UNCHANGED upgrade
  /\ UNCHANGED <<journal, session, redrain, writers, beat, plane, applied,
                 serving, draining, counts, setting>>

EndStage(p) ==
  /\ op[p].kind = "stage"
  /\ \/ Succeeds(p) /\ upgrade' = "staged"
     \/ Fails(p) /\ UNCHANGED upgrade
  /\ Releases(p)
  /\ UNCHANGED <<session, redrain, writers, beat, plane, applied, serving,
                 draining, crashes, losses, setting>>

\* Destroy of a candidate that was not published.
BeginAbort(p) ==
  /\ upgrade = "staged"
  /\ \E s \in Loaded :
       /\ Reads(p, s)
       /\ IF s.intents[serving + 1] = NoIntent
            THEN upgrade' = "idle" /\ UNCHANGED op
            ELSE /\ Holds(p, "abort", Line("abort", serving + 1, 0))
                 /\ UNCHANGED upgrade
  /\ UNCHANGED <<journal, session, redrain, writers, beat, plane, applied,
                 serving, draining, counts, setting>>

EndAbort(p) ==
  /\ op[p].kind = "abort"
  /\ Succeeds(p) \/ Fails(p)
  /\ upgrade' = "idle"
  /\ Releases(p)
  /\ UNCHANGED <<session, redrain, writers, beat, plane, applied, serving,
                 draining, crashes, losses, setting>>

\* FinalizeGenerationPublication: the previous generation drains.
Publish ==
  /\ upgrade = "staged"
  /\ \A p \in Procs : op[p] # Idle => op[p].kind # "abort"
  /\ upgrade' = "published"
  /\ draining' = draining \union {serving}
  /\ serving' = serving + 1
  /\ UNCHANGED <<disk, op, session, redrain, writers, beat, plane, applied,
                 counts, setting>>

\* SaveAppliedSnapshot.
SaveApplied ==
  /\ upgrade = "published"
  /\ applied' = serving
  /\ upgrade' = "saved"
  /\ UNCHANGED <<disk, op, session, redrain, writers, beat, plane, serving,
                 draining, counts, setting>>

\* The generation of revision r is destroyed; its successor's intent is drained
\* with the next operation.
Destroy(p, r) ==
  /\ r \in draining
  /\ draining' = draining \ {r}
  /\ redrain' = [redrain EXCEPT ![p] = @ \union
                   (IF Removed(r + 1) = {} THEN {} ELSE {r + 1})]
  /\ UNCHANGED <<disk, op, session, writers, beat, plane, upgrade, applied,
                 serving, counts, setting>>

\* Mutant of Drainable: an intent of an earlier session waits for its process.
DrainableNever(p, s, r) == FALSE

\* restartDrainableRetirementIntents.
Drainable(p, s, r) ==
  /\ s.intents[r] # NoIntent
  /\ ~s.intents[r].drained
  /\ s.intents[r].session # session[p]
  /\ applied >= r
  /\ Removed(r) \intersect Active[applied] = {}

\* recoverableRetirementIntents.
Recoverable(s, r) ==
  /\ s.intents[r].drained
  /\ applied >= r
  /\ Removed(r) \intersect Active[applied] = {}

\* markPluginLogRetirementIntentDrainedLocked has a record to write.
NeedsMark(s, r) == s.intents[r] # NoIntent /\ ~s.intents[r].drained

\* MarkPluginRuntimeLogRetirementIntentDrained, and its retries by the next
\* operations.
BeginMark(p, r) ==
  /\ r \in redrain[p]
  /\ \E s \in Loaded :
       /\ Reads(p, s)
       /\ IF NeedsMark(s, r)
            THEN Holds(p, "drained", Line("drained", r, 0)) /\ UNCHANGED redrain
            ELSE redrain' = [redrain EXCEPT ![p] = @ \ {r}] /\ UNCHANGED op
  /\ UNCHANGED <<journal, session, writers, beat, plane, revisions, counts,
                 setting>>

EndMark(p) ==
  /\ op[p].kind = "drained"
  /\ \/ Succeeds(p) /\ redrain' = [redrain EXCEPT ![p] = @ \ {op[p].line.id}]
     \/ Fails(p) /\ UNCHANGED redrain
  /\ Releases(p)
  /\ UNCHANGED <<session, writers, beat, plane, revisions, crashes, losses,
                 setting>>

\* AuthorizePluginRuntimeLogRetirementIntents after the applied snapshot is
\* durable, one intent after the other.
BeginAuthorize(p, r) ==
  /\ upgrade \in {"idle", "saved"}
  /\ applied = serving
  /\ redrain[p] = {}
  /\ \E s \in Loaded :
       /\ Reads(p, s)
       /\ \/ /\ Drainable(p, s, r)
             /\ Holds(p, "authorize", Line("drained", r, 0))
          \/ /\ Recoverable(s, r)
             /\ \A q \in Revisions : ~Drainable(p, s, q)
             /\ Holds(p, "authorize", Line("complete", r, 0))
  /\ UNCHANGED <<journal, session, redrain, writers, beat, plane, revisions,
                 counts, setting>>

EndAuthorize(p) ==
  /\ op[p].kind = "authorize"
  /\ Succeeds(p) \/ Fails(p)
  /\ Releases(p)
  /\ UNCHANGED <<session, redrain, writers, beat, plane, revisions, crashes,
                 losses, setting>>

\* Nothing is left to authorize: the revision is acknowledged.
Acknowledge(p) ==
  /\ upgrade = "saved"
  /\ redrain[p] = {}
  /\ \E s \in Loaded :
       /\ Reads(p, s)
       /\ \A r \in Revisions : ~Drainable(p, s, r) /\ ~Recoverable(s, r)
  /\ upgrade' = "idle"
  /\ UNCHANGED <<journal, op, session, redrain, writers, beat, plane,
                 applied, serving, draining, counts, setting>>

----------------------------------------------------------------------------
(* A restart of the agent *)

\* The process dies, with an operation written or not, and its plugin
\* processes with it; the next one restores the applied revision.
Crash(p) ==
  /\ crashes < MaxCrashes
  /\ crashes' = crashes + 1
  /\ \/ UNCHANGED <<journal, torn>>
     \/ op[p] # Idle /\ torn' = TRUE /\ UNCHANGED journal
     \/ op[p] # Idle /\ journal' = Append(journal, op[p].line) /\ UNCHANGED torn
  /\ UNCHANGED apart
  /\ op' = [op EXCEPT ![p] = Idle]
  /\ session' = [session EXCEPT ![p] = @ + 1]
  /\ redrain' = [redrain EXCEPT ![p] = {}]
  /\ beat' = [beat EXCEPT ![p].at = "none"]
  /\ capture' = [b \in Batches |->
                   IF Home[b] # p \/ capture[b] \in {"none", "done"}
                     THEN capture[b] ELSE "lost"]
  /\ upgrade' = "idle"
  /\ serving' = applied
  /\ draining' = {}
  /\ UNCHANGED <<changed, plane, applied, faults, losses, setting>>

----------------------------------------------------------------------------
(* Specification *)

Init ==
  /\ setting \in Settings
  /\ journal = <<>>
  /\ torn = FALSE
  /\ apart = TRUE
  /\ op = [p \in Procs |-> Idle]
  /\ session = [p \in Procs |-> 1]
  /\ redrain = [p \in Procs |-> {}]
  /\ capture = [b \in Batches |-> "none"]
  /\ changed = [b \in Batches |-> FALSE]
  /\ beat = [p \in Procs |-> [at |-> "none", reports |-> <<>>]]
  /\ row = [f \in Fences |-> NoReport]
  /\ recorded = [b \in Batches |-> [i \in DOMAIN Drafts[b] |-> 0]]
  /\ settled = {}
  /\ upgrade = "idle"
  /\ applied = 1
  /\ serving = 1
  /\ draining = {}
  /\ faults = 0
  /\ crashes = 0
  /\ losses = 0

WriterStep(b) ==
  \/ TakeChannel(b)
  \/ Wake(b)
  \/ \E p \in Procs : BeginEnqueue(p, b) \/ CheckCapacity(p, b)

StoreStep(p) ==
  \/ EndEnqueue(p) \/ EndAck(p) \/ EndStage(p) \/ EndAbort(p)
  \/ EndMark(p) \/ EndAuthorize(p)

BeatStep(p) == SendBeat(p) \/ ReceiveBeat(p) \/ BeginAck(p)

RetireStep(p) ==
  \E r \in Revisions : Destroy(p, r) \/ BeginMark(p, r) \/ BeginAuthorize(p, r)

RevisionStep(p) ==
  \/ BeginStage(p) \/ BeginAbort(p) \/ Publish \/ SaveApplied \/ Acknowledge(p)
  \/ RetireStep(p)

Next ==
  \/ \E b \in Batches : Capture(b) \/ WriterStep(b)
  \/ \E p \in Users : StoreStep(p) \/ BeatStep(p) \/ RevisionStep(p) \/ Crash(p)

Spec == Init /\ [][Next]_vars

\* The goroutines go on, heartbeats are sent and answered again and again, and
\* the mutex is not withheld for ever from who waits for it, in one of the
\* processes at least.
FairSpec ==
  /\ Spec
  /\ \A b \in Batches : SF_vars(WriterStep(b))
  /\ WF_vars(\E p \in Users : StoreStep(p))
  /\ SF_vars(\E p \in Users : BeatStep(p))
  /\ SF_vars(\E p \in Users : RetireStep(p))

----------------------------------------------------------------------------
(* Properties *)

\* Reports are delivered once, as long as no process uses the journal between the
\* read and the write of another's operation: the mutex is one of a process
\* (Filesystem.mu), and two processes of a handover that overlap can write one
\* sequence number twice or lose a record to a checkpoint.  Apart from that the
\* journal can always be read back, after any failed or torn write and any
\* checkpoint; a report whose capture was confirmed to the plugin process stays
\* pending until the control plane has recorded or discarded it; and it is
\* recorded once, under a sequence number of its own, although enqueues are
\* repeated after errors, heartbeats after lost replies, and two processes send
\* and acknowledge the same reports (loadPluginLogOutboxLocked,
\* pluginLogOutboxState.enqueue).
DeliveredOnce ==
  LET kept == ToSet(Load(journal).pending) \union settled
  IN apart =>
       /\ ~Load(journal).err
       /\ \A b \in Batches : \A i \in DOMAIN Drafts[b] :
            /\ capture[b] = "done" => \E r \in kept : r.batch = b /\ r.index = i
            /\ recorded[b][i] <= 1
       /\ \A q, r \in kept : q.fence = r.fence /\ q.seq = r.seq => q = r

\* Nobody waits for ever: an intent of an applied revision is carried out,
\* although the process that would mark it drained may have died with the agent
\* (maxPluginLogRetirementIntents bounds their number), and a writer that waits
\* for capacity gets it, when no write fails and no other process, which would
\* not wake it, acknowledges: "Taking the channel snapshot before checking
\* capacity prevents lost wakes" (pluginLogCapacitySignal).
WaitersEnd ==
  /\ []<>(\A r \in 1..applied : Load(journal).intents[r] = NoIntent)
  /\ []<>(MaxFaults = 0 /\ Cardinality(Users) = 1 =>
            \A b \in Batches : capture[b] \in {"none", "done", "lost"})

=============================================================================
