----------------------------- MODULE HotRestart -----------------------------
(***************************************************************************)
(* The hot restart of the agent (go-agent/internal/hotrestart and app): a  *)
(* worker launches its replacement, activates it, transfers the authority  *)
(* and drains, while every process may die and every answer may be late.   *)
(*                                                                         *)
(* A step is one operation on the authority journal (they hold its file    *)
(* lock), one message over the pipes of a launch, or one change of what a  *)
(* process listens on.  A process is its pid and start token; the launch   *)
(* epoch is the pid of the child launched.  The service manager tracks     *)
(* root: when root ends, it kills what is left and starts a new root.      *)
(***************************************************************************)
EXTENDS Naturals, Sequences, FiniteSets

CONSTANTS
  MaxLaunches,    \* bound on the children launched
  MaxCrashes      \* bound on the processes that die by themselves

ASSUME BoundsAssumption == MaxLaunches \in Nat /\ MaxCrashes \in Nat

VARIABLES
  alive,          \* the processes that run
  root,           \* the main process of the service
  pc,             \* per process: where it is in the protocol
  launched,       \* per process: the child it launched last, or 0
  parentOf,       \* per process: who launched it, or 0
  journal,        \* authority.json
  commands,       \* per launch: the pipe to the child
  events,         \* per launch: the pipe to the parent
  streams,        \* processes that accept on the stream listeners
  packets,        \* processes that read the packet sockets
  interrupted,    \* processes whose context is cancelled
  born,           \* pids used so far
  launches,       \* launches so far
  crashes         \* crashes so far

pipes == <<commands, events>>
counts == <<born, launches, crashes>>
vars == <<alive, root, pc, launched, parentOf, journal, pipes, streams,
          packets, interrupted, counts>>

Pids == 1..(1 + MaxLaunches + MaxCrashes)
NoPid == 0

Phases == <<"parent", "child_ready", "child_active", "child_authority">>
Rank(phase) == CHOOSE i \in 1..4 : Phases[i] = phase

\* epoch is the pid of the launch it records; parent is 0 when there is no file.
Record == [epoch   : Pids \union {NoPid},
           phase   : {"parent", "child_ready", "child_active",
                      "child_authority"},
           parent  : Pids \union {NoPid},
           child   : Pids \union {NoPid},
           pending : BOOLEAN]

NoRecord == [epoch |-> NoPid, phase |-> "parent", parent |-> NoPid,
             child |-> NoPid, pending |-> FALSE]

Workers == {"control", "begun", "spawned", "wait_ready", "ready",
            "activating", "activated", "transferring", "aborted"}

Children == {"prepare", "ready_journaled", "await_activate", "activate_done",
             "active_journaled", "await_authority", "authority_done",
             "authority_journaled"}

TypeOK ==
  /\ alive \subseteq Pids
  /\ root \in Pids
  /\ pc \in [Pids -> Workers \union Children
                       \union {"none", "draining", "supervising", "following",
                               "stopping", "stopped"}]
  /\ launched \in [Pids -> Pids \union {NoPid}]
  /\ parentOf \in [Pids -> Pids \union {NoPid}]
  /\ journal \in Record
  /\ journal.pending => journal.phase = "parent"
  /\ streams \subseteq alive
  /\ packets \subseteq alive
  /\ interrupted \subseteq Pids

Init ==
  /\ alive = {1}
  /\ root = 1
  /\ pc = [p \in Pids |-> IF p = 1 THEN "control" ELSE "none"]
  /\ launched = [p \in Pids |-> NoPid]
  /\ parentOf = [p \in Pids |-> NoPid]
  /\ journal = NoRecord
  /\ commands = [p \in Pids |-> <<>>]
  /\ events = [p \in Pids |-> <<>>]
  /\ streams = {1}
  /\ packets = {1}
  /\ interrupted = {}
  /\ born = 1
  /\ launches = 0
  /\ crashes = 0

----------------------------------------------------------------------------
(* The authority journal *)

\* recoverLocked: the live process that owns the authority, or 0.
OwnerOf(r) ==
  CASE r.parent \in alive /\ r.phase = "child_authority" /\ r.child \in alive
         -> r.child
    [] r.parent \in alive /\ ~(r.phase = "child_authority" /\ r.child \in alive)
         -> r.parent
    [] r.parent \notin alive /\ r.child \in alive -> r.child
    [] OTHER -> NoPid

\* recoverLocked gives a record of a dead child back to its live parent.
Recovered(r) ==
  IF /\ r.parent \in alive
     /\ r.child \notin alive
     /\ ~(r.pending /\ r.child = NoPid)
    THEN [r EXCEPT !.phase = "parent", !.child = NoPid, !.pending = FALSE]
    ELSE r

\* BeginOwned: p may launch.
CanLaunch(p, r) ==
  \/ r = NoRecord
  \/ OwnerOf(r) = NoPid
  \/ /\ OwnerOf(r) = p /\ r.parent = p
     /\ r.phase = "parent" /\ r.child = NoPid /\ ~r.pending
  \/ /\ OwnerOf(r) = p /\ r.child = p
     /\ r.phase = "child_authority"

\* Advance is accepted.
CanAdvance(p, phase) ==
  /\ journal.epoch = p
  /\ journal.child \in {NoPid, p}
  /\ Rank(phase) \in {Rank(journal.phase), Rank(journal.phase) + 1}

Advanced(p, phase) ==
  [journal EXCEPT !.phase = phase, !.child = p, !.pending = FALSE]

----------------------------------------------------------------------------
(* The end of processes *)

\* What is left when the processes of dead are gone.
Dies(dead) ==
  /\ alive' = alive \ dead
  /\ streams' = streams \ dead
  /\ packets' = packets \ dead
  /\ interrupted' = interrupted \ dead

\* The service manager starts a new main process (with a pid of the bound).
Restarts ==
  /\ born + 1 \in Pids
  /\ born' = born + 1
  /\ root' = born + 1
  /\ alive' = {born + 1}
  /\ pc' = [pc EXCEPT ![born + 1] = "control"]
  /\ streams' = {born + 1}
  /\ packets' = {born + 1}
  /\ interrupted' = {}

\* A process ends: a worker just does, the main process ends the service.
Ends(p) ==
  IF p = root
    THEN Restarts
    ELSE Dies({p}) /\ UNCHANGED <<root, pc, born>>

Crash(p) ==
  /\ p \in alive
  /\ crashes < MaxCrashes
  /\ crashes' = crashes + 1
  /\ pc[root] # "stopped"
  /\ Ends(p)
  /\ UNCHANGED <<launched, parentOf, journal, pipes, launches>>

----------------------------------------------------------------------------
(* The parent: hotRestartReplacement, Supervisor.start, ChildProcess *)

Goto(p, label) == pc' = [pc EXCEPT ![p] = label]

\* Nobody waits for p any more.  A new worker needs a heartbeat, a staged
\* package and a second heartbeat before it launches; its parent waits for the
\* acknowledgement at most the command timeout.
Settled(p) == parentOf[p] \in alive => pc[parentOf[p]] # "transferring"

\* BeginOwned (with a pid of the bound).
BeginLaunch(p) ==
  /\ p \in alive
  /\ pc[p] = "control"
  /\ Settled(p)
  /\ p \notin interrupted
  /\ launches < MaxLaunches
  /\ born + 1 \in Pids
  /\ LET r == IF journal = NoRecord THEN journal ELSE Recovered(journal)
     IN  /\ CanLaunch(p, r)
         /\ born' = born + 1
         /\ launches' = launches + 1
         /\ launched' = [launched EXCEPT ![p] = born + 1]
         /\ journal' = [epoch |-> born + 1, phase |-> "parent", parent |-> p,
                        child |-> NoPid, pending |-> TRUE]
  /\ Goto(p, "begun")
  /\ UNCHANGED <<alive, root, parentOf, pipes, streams, packets, interrupted,
                 crashes>>

\* cmd.Start, or its failure and CancelLaunch.
Spawn(p) ==
  /\ p \in alive
  /\ pc[p] = "begun"
  /\ \/ /\ alive' = alive \union {launched[p]}
        /\ parentOf' = [parentOf EXCEPT ![launched[p]] = p]
        /\ pc' = [pc EXCEPT ![p] = "spawned", ![launched[p]] = "prepare"]
        /\ UNCHANGED journal
     \/ /\ journal' = [journal EXCEPT !.pending = FALSE]
        /\ Goto(p, "control")
        /\ UNCHANGED <<alive, parentOf>>
  /\ UNCHANGED <<root, launched, pipes, streams, packets, interrupted,
                 counts>>

\* The process that Abort kills and waits for.
Killed(p) == {launched[p]}

\* AttachChild; the child may have been ready before it.  A supervisor may have
\* recovered the record of a child that died as early: then the launch ends.
Attach(p) ==
  /\ p \in alive
  /\ pc[p] = "spawned"
  /\ \/ /\ journal.phase = "child_ready" /\ journal.child = launched[p]
        /\ Goto(p, "wait_ready")
        /\ UNCHANGED <<alive, journal, streams, packets, interrupted>>
     \/ /\ journal.phase = "parent" /\ journal.pending
        /\ journal' = [journal EXCEPT !.child = launched[p]]
        /\ Goto(p, "wait_ready")
        /\ UNCHANGED <<alive, streams, packets, interrupted>>
     \/ /\ journal.phase = "parent" /\ ~journal.pending
        /\ Dies(Killed(p))
        /\ Goto(p, "aborted")
        /\ UNCHANGED journal
  /\ UNCHANGED <<root, launched, parentOf, pipes, counts>>

\* The state that follows when the child answered what p waits for.
Answer == [wait_ready |-> "ready", activating |-> "activated",
           transferring |-> "authority"]

\* Mutant of After: the parent goes on when the child has the authority.
AfterGoesOn == [wait_ready |-> "ready", activating |-> "activated",
                transferring |-> "control"]

After == [wait_ready |-> "ready", activating |-> "activated",
          transferring |-> "draining"]

Waiting == {"wait_ready", "activating", "transferring"}

\* waitFor gets the expected event.
Receive(p) ==
  /\ p \in alive
  /\ pc[p] \in Waiting
  /\ events[launched[p]] # <<>>
  /\ Head(events[launched[p]]) = Answer[pc[p]]
  /\ events' = [events EXCEPT ![launched[p]] = Tail(@)]
  /\ Goto(p, After[pc[p]])
  /\ UNCHANGED <<alive, root, launched, parentOf, journal, commands, streams,
                 packets, interrupted, counts>>

\* reconcilePhase: the journal shows that the child got there.  That the child
\* has died since may not be known yet.
Reconciles(p) ==
  /\ journal.epoch = launched[p]
  /\ journal.child = launched[p]
  /\ Rank(journal.phase) >=
       CASE pc[p] = "wait_ready" -> 2
         [] pc[p] = "activating" -> 3
         [] OTHER -> 4

\* The wait ended with a timeout, a cancelled context, a broken pipe or an
\* unexpected message (which is consumed), and the journal decides.
GiveUp(p) ==
  /\ p \in alive
  /\ pc[p] \in Waiting
  /\ Reconciles(p)
  /\ events' = [events EXCEPT ![launched[p]] =
                  IF @ = <<>> THEN @ ELSE Tail(@)]
  /\ Goto(p, After[pc[p]])
  /\ UNCHANGED <<alive, root, launched, parentOf, journal, commands, streams,
                 packets, interrupted, counts>>

\* ... or the child is killed, when the journal does not show it or it is known
\* to be dead, or when pausing the listeners failed.
Abort(p) ==
  /\ p \in alive
  /\ \/ pc[p] \in Waiting /\ (~Reconciles(p) \/ launched[p] \notin alive)
     \/ pc[p] \in {"ready", "activated"}
  /\ Dies(Killed(p))
  /\ Goto(p, "aborted")
  /\ UNCHANGED <<root, launched, parentOf, journal, pipes, counts>>

\* Abort recovers the journal, and resumeParent takes the resources back.
Resume(p) ==
  /\ p \in alive
  /\ pc[p] = "aborted"
  /\ journal' = IF journal.epoch = launched[p] THEN Recovered(journal)
                                               ELSE journal
  /\ streams' = streams \union {p}
  /\ packets' = packets \union {p}
  /\ Goto(p, "control")
  /\ UNCHANGED <<alive, root, launched, parentOf, pipes, interrupted, counts>>

\* Activate: pause the stream listeners, forward packets, send the command.
SendActivate(p) ==
  /\ p \in alive
  /\ pc[p] = "ready"
  /\ streams' = streams \ {p}
  /\ commands' = [commands EXCEPT ![launched[p]] = Append(@, "activate")]
  /\ Goto(p, "activating")
  /\ UNCHANGED <<alive, root, launched, parentOf, journal, events, packets,
                 interrupted, counts>>

\* Pause of the packet registry.
StopsReading(p) == {p}

\* TransferAuthority: stop reading packets, flush, send the command.
SendAuthority(p) ==
  /\ p \in alive
  /\ pc[p] = "activated"
  /\ packets' = packets \ StopsReading(p)
  /\ commands' = [commands EXCEPT ![launched[p]] = Append(@, "authority")]
  /\ Goto(p, "transferring")
  /\ UNCHANGED <<alive, root, launched, parentOf, journal, events, streams,
                 interrupted, counts>>

\* The parent has drained: the main process supervises, another one exits.
Drained(p) ==
  /\ p \in alive
  /\ pc[p] = "draining"
  /\ IF p = root
       THEN /\ Goto(p, "supervising")
            /\ UNCHANGED <<alive, streams, packets, interrupted>>
       ELSE /\ Dies({p})
            /\ UNCHANGED pc
  /\ UNCHANGED <<root, launched, parentOf, journal, pipes, counts>>

----------------------------------------------------------------------------
(* The child: RunHotRestartChild and ChildSession *)

\* A process runs and is at this label.
Child(p, label) == p \in alive /\ pc[p] = label

Orphan(p) == parentOf[p] \notin alive

\* A step of the preparation fails, or the context is cancelled.
ChildFails(p) ==
  /\ \/ Child(p, "prepare")
     \/ /\ p \in interrupted
        /\ Child(p, "await_activate") \/ Child(p, "await_authority")
  /\ Dies({p})
  /\ UNCHANGED <<root, pc, launched, parentOf, journal, pipes, counts>>

\* The label after the journal has the next phase.
Journaled == [prepare |-> "ready_journaled", activate_done |-> "active_journaled",
              authority_done |-> "authority_journaled"]

PhaseAt == [prepare |-> "child_ready", activate_done |-> "child_active",
            authority_done |-> "child_authority"]

\* Advance of the journal; a refusal ends the child.
AdvanceJournal(p) ==
  /\ p \in alive
  /\ pc[p] \in {"prepare", "activate_done", "authority_done"}
  /\ IF CanAdvance(p, PhaseAt[pc[p]])
       THEN /\ journal' = Advanced(p, PhaseAt[pc[p]])
            /\ Goto(p, Journaled[pc[p]])
            /\ UNCHANGED <<alive, streams, packets, interrupted>>
       ELSE /\ Dies({p})
            /\ UNCHANGED <<journal, pc>>
  /\ UNCHANGED <<root, launched, parentOf, pipes, counts>>

Sent == [ready_journaled |-> "ready", active_journaled |-> "activated",
         authority_journaled |-> "authority"]

AfterSend == [ready_journaled |-> "await_activate",
              active_journaled |-> "await_authority",
              authority_journaled |-> "control"]

\* The answer to the parent.  Without a parent the pipe is broken, and the
\* journal shows that the child is the owner (recoverParentLoss).
SendEvent(p) ==
  /\ p \in alive
  /\ pc[p] \in {"ready_journaled", "active_journaled", "authority_journaled"}
  /\ events' = IF Orphan(p) THEN events
               ELSE [events EXCEPT ![p] = Append(@, Sent[pc[p]])]
  /\ Goto(p, AfterSend[pc[p]])
  /\ UNCHANGED <<alive, root, launched, parentOf, journal, commands, streams,
                 packets, interrupted, counts>>

\* Mutant of MayTakeOver: a child that lost its parent waits on.
MayTakeOverNever(p) == FALSE

\* recoverParentLoss: the commands ended and the journal names this child.
MayTakeOver(p) ==
  /\ Orphan(p)
  /\ OwnerOf(journal) = p
  /\ journal.epoch = p

Action == [await_activate |-> "activate", await_authority |-> "authority"]

Done == [await_activate |-> "activate_done", await_authority |-> "authority_done"]

\* A command arrives, or the parent is lost; the child takes what it stands for.
TakeOver(p) ==
  /\ p \in alive
  /\ pc[p] \in {"await_activate", "await_authority"}
  /\ \/ /\ commands[p] # <<>>
        /\ Head(commands[p]) = Action[pc[p]]
        /\ commands' = [commands EXCEPT ![p] = Tail(@)]
     \/ /\ commands[p] = <<>>
        /\ MayTakeOver(p)
        /\ UNCHANGED commands
  /\ streams' = IF pc[p] = "await_activate" THEN streams \union {p} ELSE streams
  /\ packets' = IF pc[p] = "await_authority" THEN packets \union {p} ELSE packets
  /\ Goto(p, Done[pc[p]])
  /\ UNCHANGED <<alive, root, launched, parentOf, journal, events,
                 interrupted, counts>>

----------------------------------------------------------------------------
(* The supervisor: superviseHotRestartLineage and the shutdown *)

\* Wait of the first child returns.
DirectDone ==
  /\ pc[root] = "supervising"
  /\ launched[root] \notin alive
  /\ Goto(root, "following")
  /\ UNCHANGED <<alive, root, launched, parentOf, journal, pipes, streams,
                 packets, interrupted, counts>>

\* record.Identity == firstIdentity.  The identity handed to the supervisor was
\* made before the launch and has no launch epoch.
IsFirstLaunch(r) == r.epoch = NoPid /\ r.parent = root

\* One round of the poll that keeps a live worker.
FollowLineage ==
  /\ pc[root] = "following"
  /\ ~IsFirstLaunch(journal)
  /\ OwnerOf(journal) \notin {NoPid, root}
  /\ Recovered(journal) # journal
  /\ journal' = Recovered(journal)
  /\ UNCHANGED <<alive, root, pc, launched, parentOf, pipes, streams, packets,
                 interrupted, counts>>

\* The poll finds that the journal gives the authority to root itself.
RecoverRoot ==
  /\ pc[root] = "following"
  /\ ~IsFirstLaunch(journal)
  /\ OwnerOf(journal) = root
  /\ Recovered(journal) # journal
  /\ journal' = Recovered(journal)
  /\ UNCHANGED <<alive, root, pc, launched, parentOf, pipes, streams, packets,
                 interrupted, counts>>

\* No live worker: the main process returns and the service restarts.
LineageEnds ==
  /\ pc[root] = "following"
  /\ OwnerOf(journal) \in {NoPid, root}
  /\ Recovered(journal) = journal
  /\ Restarts
  /\ UNCHANGED <<launched, parentOf, journal, pipes, launches, crashes>>

\* The service is stopped while the main process supervises.
Shutdown ==
  /\ pc[root] \in {"supervising", "following"}
  /\ Goto(root, "stopping")
  /\ interrupted' = interrupted \union ({launched[root]} \intersect alive)
  /\ UNCHANGED <<alive, root, launched, parentOf, journal, pipes, streams,
                 packets, counts>>

\* Mutant of StopTarget: a single owner is stopped.
StopTargetFirst ==
  IF launched[root] \in alive THEN launched[root] ELSE NoPid

\* The target of the stop loop: the first child, then the owner in the journal.
StopTarget ==
  IF launched[root] \in alive
    THEN launched[root]
    ELSE OwnerOf(Recovered(journal))

StopNext ==
  /\ pc[root] = "stopping"
  /\ launched[root] \notin alive
  /\ interrupted = {}
  /\ journal' = Recovered(journal)
  /\ IF StopTarget \in {NoPid, root}
       THEN Goto(root, "stopped") /\ UNCHANGED interrupted
       ELSE interrupted' = {StopTarget} /\ UNCHANGED pc
  /\ UNCHANGED <<alive, root, launched, parentOf, pipes, streams, packets,
                 counts>>

\* An interrupted worker returns from Run; a launch under way was aborted or
\* handed over before.
WorkerEnds(p) ==
  /\ p \in alive \intersect interrupted
  /\ pc[p] \in {"control", "draining"}
  /\ Dies({p})
  /\ UNCHANGED <<root, pc, launched, parentOf, journal, pipes, counts>>

----------------------------------------------------------------------------
(* Specification *)

ParentStep(p) ==
  \/ Spawn(p)
  \/ Attach(p)
  \/ Receive(p)
  \/ GiveUp(p)
  \/ Abort(p)
  \/ Resume(p)
  \/ SendActivate(p)
  \/ SendAuthority(p)
  \/ Drained(p)

ChildStep(p) ==
  \/ AdvanceJournal(p)
  \/ SendEvent(p)
  \/ TakeOver(p)

RootStep == DirectDone \/ FollowLineage \/ RecoverRoot \/ LineageEnds \/ StopNext

Next ==
  \/ \E p \in Pids : \/ BeginLaunch(p) \/ ParentStep(p)
                     \/ ChildFails(p) \/ ChildStep(p)
                     \/ Crash(p) \/ WorkerEnds(p)
  \/ RootStep
  \/ Shutdown

Spec == Init /\ [][Next]_vars

\* Fairness: every process goes on, waits end with their timeouts, an
\* interrupted worker ends.
FairSpec ==
  /\ Spec
  /\ \A p \in Pids : /\ WF_vars(ParentStep(p))
                     /\ WF_vars(ChildStep(p))
                     /\ WF_vars(WorkerEnds(p))
  /\ WF_vars(RootStep)

----------------------------------------------------------------------------
(* Properties *)

\* p acts as the control-plane owner.  One that waits for the answer to its
\* transfer has not decided yet.
Controls(p) == p \in alive /\ pc[p] \in Workers \ {"transferring", "aborted"}

\* At most one process controls the agent, although the parent may abort a
\* launch after the child went on and the child may take over by itself
\* (resolveTransitionFailure, recoverParentLoss), and no two processes accept on
\* the listeners, or read the packet sockets, at the same time: the parent has
\* paused before the child takes them and resumes only when the child is dead
\* (hotRestartResourceProcess).
OneController ==
  \A p, q \in Pids :
    \/ Controls(p) /\ Controls(q)
    \/ p \in streams /\ q \in streams
    \/ p \in packets /\ q \in packets
    => p = q

\* Whoever dies when, the agent is controlled again: by the parent, by a child
\* that lost its parent or by a new main process.
AlwaysControlled ==
  []<>(\/ \E p \in Pids : p \in alive /\ pc[p] = "control"
       \/ pc[root] \in {"stopping", "stopped"})

\* Stopping the service ends, and stops the whole lineage, also a replacement
\* that became the owner while its parent was being stopped
\* (stopHotRestartAuthorityLineage).  After a process was lost in the middle of
\* the lineage the rest is left to the service manager.
ShutdownStopsLineage ==
  /\ [](pc[root] = "stopped" /\ crashes = 0 => alive = {root})
  /\ (pc[root] = "stopping") ~> (pc[root] # "stopping")

=============================================================================
