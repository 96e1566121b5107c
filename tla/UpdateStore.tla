---------------------------- MODULE UpdateStore -----------------------------
(***************************************************************************)
(* UpdateManager (go-agent/internal/core): the package store of the agent  *)
(* on disk, the current and previous pointers, the executable the service  *)
(* manager starts, and the Stage, Activate and cleanup that change them,   *)
(* with a crash between any two writes.                                    *)
(*                                                                         *)
(* One step is one write that another process start could observe: a file  *)
(* or directory created, renamed or removed.  The manager's mutex lets one *)
(* call run at a time; mgr is that call.  A package is its digest; its     *)
(* directory is the set of the files in it.  Contents never rot, so that a *)
(* package is readable when its binary and its manifest are there.         *)
(***************************************************************************)
EXTENDS Naturals, Sequences, FiniteSets

CONSTANTS
  Packages,       \* digests
  Versions,       \* the desired versions heartbeats ask for
  Faults,         \* what may go wrong: crash, reinstall, remove, write, exec
  NoPackage,
  NoPointer

ASSUME FaultsAssumption ==
  Faults \subseteq {"crash", "reinstall", "remove", "write", "exec"}
ASSUME NothingAssumption ==
  /\ NoPackage \notin Packages
  /\ NoPointer \notin [pkg : Packages, version : Versions \union {""}]

VARIABLES
  files,          \* per package: what its directory holds
  imported,       \* packages whose manifest importExecutable wrote
  current,        \* current.json
  previous,       \* previous.json
  installed,      \* content of the executable the service manager starts
  replaced,       \* installed was replaced from outside and is unknown here
  worker,         \* the process that owns the manager
  parents,        \* images of the draining and supervising processes
  aged,           \* directories older than updatePackageGracePeriod
  staged,         \* m.stagedPackageSHA
  mgr             \* the call under way

disk == <<files, imported, current, previous, installed, replaced, aged>>
vars == <<disk, worker, parents, staged, mgr>>

Pointer == [pkg : Packages, version : Versions \union {""}]

Full == {"dir", "binary", "manifest"}

NoCall == [todo |-> <<>>, pkg |-> NoPackage, version |-> "",
           base |-> NoPointer, victims |-> {}]

Idle == mgr.todo = <<>>

At(step) == mgr.todo # <<>> /\ Head(mgr.todo) = step

\* readPackage.
Readable(p) == {"binary", "manifest"} \subseteq files[p]

\* loadPointer.
Loads(pointer) == pointer # NoPointer /\ Readable(pointer.pkg)

\* A first start: the package manager installed p, nothing was ever staged.
Init ==
  /\ files = [p \in Packages |-> {}]
  /\ imported = {}
  /\ current = NoPointer
  /\ previous = NoPointer
  /\ installed \in Packages
  /\ replaced = FALSE
  /\ worker = [image |-> installed, entry |-> TRUE]
  /\ parents = {}
  /\ aged = {}
  /\ staged = NoPackage
  /\ mgr = NoCall

----------------------------------------------------------------------------
(* Steps of a call *)

\* The call goes on with what is left of it.
Advance == mgr' = IF Len(mgr.todo) = 1 THEN NoCall
                                       ELSE [mgr EXCEPT !.todo = Tail(@)]

\* The call returns.
Return == mgr' = NoCall

\* A write of the call fails before it had an effect.
Fails(fault) == fault \in Faults

----------------------------------------------------------------------------
(* Retention *)

\* livePackageDigests: the images of the running processes.
Running == parents \union {worker.image}

\* Mutant of Keep: processes of the hot-restart lineage are not looked at.
KeepWithoutRunning(target) ==
  {target, staged} \union {q.pkg : q \in {current, previous} \ {NoPointer}}

\* What cleanupPackagesLocked never removes.
Keep(target) ==
  {target, staged} \union Running
    \union {q.pkg : q \in {r \in {current, previous} : Loads(r)}}

\* The packages cleanupPackagesLocked will remove.
Obsolete(target) ==
  IF Loads(current)
    THEN {p \in aged \ Keep(target) : files[p] = Full}
    ELSE {}

\* CleanupPackages, at the start of the authoritative worker.
CleanupPackages ==
  /\ Idle
  /\ Obsolete(NoPackage) # {}
  /\ mgr' = [NoCall EXCEPT !.todo = <<"cleanup">>,
                           !.victims = Obsolete(NoPackage)]
  /\ UNCHANGED <<disk, worker, parents, staged>>

\* The file of p that goes next: the binary, the manifest, the directory.
NextFile(p) ==
  CASE "binary" \in files[p] -> "binary"
    [] "binary" \notin files[p] /\ "manifest" \in files[p] -> "manifest"
    [] OTHER -> "dir"

\* One os.Remove of the package being removed.
RemoveFile(p) ==
  /\ At("cleanup")
  /\ p \in mgr.victims
  /\ \A q \in mgr.victims \ {p} : files[q] = Full
  /\ files' = [files EXCEPT ![p] = @ \ {NextFile(p)}]
  /\ mgr' = [mgr EXCEPT !.victims = IF files'[p] = {} THEN @ \ {p} ELSE @]
  /\ aged' = IF files'[p] = {} THEN aged \ {p} ELSE aged
  /\ imported' = IF "manifest" \in files'[p] THEN imported
                                             ELSE imported \ {p}
  /\ UNCHANGED <<current, previous, installed, replaced, worker, parents,
                 staged>>

\* An os.Remove fails: the package is left as it is.
RemoveFails(p) ==
  /\ At("cleanup")
  /\ p \in mgr.victims
  /\ \A q \in mgr.victims \ {p} : files[q] = Full
  /\ Fails("remove")
  /\ mgr' = [mgr EXCEPT !.victims = @ \ {p}]
  /\ UNCHANGED <<disk, worker, parents, staged>>

\* Every entry was looked at, or ctx is done; an error is only logged.
CleanupEnds ==
  /\ At("cleanup")
  /\ \A q \in mgr.victims : files[q] = Full
  /\ mgr' = IF Len(mgr.todo) = 1
              THEN NoCall
              ELSE [mgr EXCEPT !.todo = Tail(@), !.victims = {}]
  /\ UNCHANGED <<disk, worker, parents, staged>>

----------------------------------------------------------------------------
(* Stage *)

\* pendingUpdatePackage: a heartbeat asks for a package that is not running.
Pending(p) == p # worker.image

Stage(p) ==
  /\ Idle
  /\ Pending(p)
  /\ mgr' = [NoCall EXCEPT !.todo = <<"cleanup", "lookup">>, !.pkg = p,
                           !.victims = Obsolete(p)]
  /\ UNCHANGED <<disk, worker, parents, staged>>

\* recoverPackage finds the package, a verified binary or nothing; anything
\* else in the directory is an error.
StageLookup ==
  /\ At("lookup")
  /\ LET p == mgr.pkg
     IN \/ /\ Readable(p)
           /\ p \notin imported
           /\ staged' = p
           /\ Return
           /\ UNCHANGED files
        \/ /\ files[p] = {"dir", "binary"}
           /\ mgr' = [mgr EXCEPT !.todo = <<"manifest">>]
           /\ UNCHANGED <<files, staged>>
        \/ /\ files[p] \subseteq {"dir"}
           /\ files' = [files EXCEPT ![p] = {}]
           /\ mgr' = [mgr EXCEPT !.todo = <<"download", "manifest">>]
           /\ UNCHANGED staged
        \/ /\ \/ Readable(p) /\ p \in imported
              \/ ~Readable(p) /\ files[p] \notin {{}, {"dir"}, {"dir", "binary"}}
           /\ Return
           /\ UNCHANGED <<files, staged>>
  /\ UNCHANGED <<imported, current, previous, installed, replaced, aged,
                 worker, parents>>

\* The directory, the download into a temporary file and its rename.  The
\* download may fail, and so may the sync after the rename.
Download ==
  /\ At("download")
  /\ \/ /\ "dir" \notin files[mgr.pkg]
        /\ files' = [files EXCEPT ![mgr.pkg] = {"dir"}]
        /\ aged' = aged \ {mgr.pkg}
        /\ UNCHANGED mgr
     \/ /\ files[mgr.pkg] = {"dir"}
        /\ files' = [files EXCEPT ![mgr.pkg] = {"dir", "binary"}]
        /\ \/ Advance
           \/ Fails("write") /\ Return
        /\ UNCHANGED aged
     \/ /\ Fails("write")
        /\ Return
        /\ UNCHANGED <<files, aged>>
  /\ UNCHANGED <<imported, current, previous, installed, replaced, worker,
                 parents, staged>>

\* writeAtomicJSON of the manifest: a temporary file in the package's own
\* directory, then the rename.  The package is staged after it, or the import
\* has its baseline.
WriteManifest ==
  /\ At("manifest") \/ At("imported")
  /\ LET p == IF At("manifest") THEN mgr.pkg ELSE mgr.base.pkg
     IN \/ /\ "temp" \notin files[p]
           /\ files' = [files EXCEPT ![p] = @ \union {"temp"}]
           /\ UNCHANGED <<imported, staged, mgr>>
        \/ /\ "temp" \in files[p]
           /\ files' = [files EXCEPT ![p] = Full]
           /\ imported' = IF At("imported") THEN imported \union {p}
                                            ELSE imported
           /\ staged' = IF At("manifest") THEN p ELSE staged
           /\ Advance
        \/ /\ "temp" \in files[p]
           /\ Fails("write")
           /\ files' = [files EXCEPT ![p] = @ \ {"temp"}]
           /\ Return
           /\ UNCHANGED <<imported, staged>>
  /\ UNCHANGED <<current, previous, installed, replaced, aged, worker,
                 parents>>

----------------------------------------------------------------------------
(* Activate *)

\* The executable ensureCurrentPackage imports.
ImportSource == IF worker.entry THEN installed ELSE worker.image

\* The steps of importExecutable, or nothing when it must fail.
ImportPlan(p) ==
  CASE Readable(p) -> <<"decide">>
    [] files[p] = {"dir", "binary"} -> <<"imported", "decide">>
    [] files[p] \subseteq {"dir"} -> <<"binary", "imported", "decide">>
    [] OTHER -> <<>>

\* ensureCurrentPackage: the pointer that describes the installed executable
\* and the writes that are needed first.
Baseline ==
  LET import == [base |-> [pkg |-> ImportSource, version |-> ""],
                 todo |-> ImportPlan(ImportSource)]
      back   == [base |-> previous, todo |-> <<"reconcile", "decide">>]
      refuse == [base |-> NoPointer, todo |-> <<>>]
  IN  CASE Loads(current) /\ current.pkg = installed ->
             [base |-> current, todo |-> <<"decide">>]
        [] Loads(current) /\ current.pkg # installed ->
             IF ~Loads(previous) THEN refuse
             ELSE IF previous.pkg = installed THEN back
             ELSE IF worker.entry THEN import ELSE refuse
        [] ~Loads(current) /\ Loads(previous) -> back
        [] OTHER -> import

\* Activate up to the first write, for the package this process staged.
Activate(v) ==
  /\ Idle
  /\ staged # NoPackage
  /\ Readable(staged)
  /\ mgr' = IF Baseline.todo = <<>>
              THEN NoCall
              ELSE [NoCall EXCEPT !.todo = Baseline.todo, !.pkg = staged,
                                  !.version = v, !.base = Baseline.base]
  /\ UNCHANGED <<disk, worker, parents, staged>>

\* importExecutable copies the running executable into the store.
ImportBinary ==
  /\ At("binary")
  /\ \/ /\ "dir" \notin files[mgr.base.pkg]
        /\ files' = [files EXCEPT ![mgr.base.pkg] = {"dir"}]
        /\ UNCHANGED mgr
     \/ /\ "dir" \in files[mgr.base.pkg]
        /\ files' = [files EXCEPT ![mgr.base.pkg] = {"dir", "binary"}]
        /\ Advance
     \/ /\ Fails("write")
        /\ Return
        /\ UNCHANGED files
  /\ aged' = aged \ {mgr.base.pkg}
  /\ UNCHANGED <<imported, current, previous, installed, replaced, worker,
                 parents, staged>>

\* The pointer that Activate installs.
NextPointer == [pkg |-> mgr.pkg, version |-> mgr.version]

Changed == mgr.base.pkg # mgr.pkg

\* Mutant of ActivatePlan: the pointers are written in the other order.
ActivatePlanCurrentFirst == <<"current", "previous", "promote", "exec">>

\* The writes of an activation, in their order.
ActivatePlan == <<"previous", "current", "promote", "exec">>

\* restorePreviousLocked.
UndoPlan == <<"undo_promote", "undo_current", "undo_previous">>

\* Activate knows its baseline; ctx may be done.
Decide ==
  /\ At("decide")
  /\ \/ Return
     \/ mgr' = [mgr EXCEPT !.todo =
                  IF Changed THEN ActivatePlan
                  ELSE IF mgr.base.version # mgr.version
                         THEN <<"current", "promote", "exec">>
                         ELSE <<"promote", "exec">>]
  /\ UNCHANGED <<disk, worker, parents, staged>>

\* What undoes an activation: both pointers and the executable, or only the
\* version in the current pointer.
Undo == mgr' = [mgr EXCEPT !.todo = IF Changed THEN UndoPlan
                                               ELSE <<"undo_current">>]

\* What the current pointer goes back to.
UndoPointer == IF Changed THEN previous ELSE mgr.base

\* writePointerConvergent of current.json or previous.json.
WritePointer ==
  /\ \/ /\ At("reconcile")
        /\ current' = mgr.base
        /\ UNCHANGED previous
     \/ /\ At("previous")
        /\ previous' = mgr.base
        /\ UNCHANGED current
     \/ /\ At("current")
        /\ current' = NextPointer
        /\ UNCHANGED previous
     \/ /\ At("undo_current")
        /\ current' = UndoPointer
        /\ UNCHANGED previous
     \/ /\ At("undo_previous")
        /\ previous' = NextPointer
        /\ UNCHANGED current
  /\ Advance
  /\ UNCHANGED <<files, imported, installed, replaced, aged, worker, parents,
                 staged>>

\* A pointer is not written: the call returns the error.
WritePointerFails ==
  /\ \/ At("reconcile") \/ At("previous") \/ At("current")
     \/ At("undo_current") \/ At("undo_previous")
  /\ Fails("write")
  /\ Return
  /\ UNCHANGED <<disk, worker, parents, staged>>

\* promoteInstalledPackage: a copy beside the executable and its rename, and no
\* write when the executable is already there: one from outside that no pointer
\* names stays unknown.
Promote ==
  /\ \/ /\ At("promote")
        /\ installed' = mgr.pkg
        /\ Advance
     \/ /\ At("undo_promote")
        /\ installed' = previous.pkg
        /\ Advance
  /\ replaced' = (replaced /\ installed' = installed
                    /\ \A q \in {current, previous} \ {NoPointer} :
                         q.pkg # installed)
  /\ UNCHANGED <<files, imported, current, previous, aged, worker, parents,
                 staged>>

\* ctx is done before the promotion, or it fails; a failure while undoing ends
\* the call.
PromoteFails ==
  /\ \/ At("promote") /\ Undo
     \/ At("undo_promote") /\ Fails("write") /\ Return
  /\ UNCHANGED <<disk, worker, parents, staged>>

\* ctx is done, or the replacement could not be started: exec returns and the
\* activation is undone.
ExecFails ==
  /\ At("exec")
  /\ Fails("exec")
  /\ Undo
  /\ UNCHANGED <<disk, worker, parents, staged>>

\* The replacement owns the agent: this process drains or supervises it, or
\* was replaced in place (coldRestart).
Exec ==
  /\ At("exec")
  /\ worker' = [image |-> mgr.pkg, entry |-> FALSE]
  /\ parents' \in {parents, parents \union {worker.image}}
  /\ staged' = NoPackage
  /\ mgr' = NoCall
  /\ UNCHANGED disk

----------------------------------------------------------------------------
(* Processes, time and the package manager *)

ParentExits(p) ==
  /\ parents' = parents \ {p}
  /\ p \in parents
  /\ UNCHANGED <<disk, worker, staged, mgr>>

\* The service is killed, at any point of a call, and started again.
Crash ==
  /\ "crash" \in Faults
  /\ worker' = [image |-> installed, entry |-> TRUE]
  /\ parents' = {}
  /\ staged' = NoPackage
  /\ mgr' = NoCall
  /\ UNCHANGED disk

\* A package manager or a container image replaces the entrypoint.
Reinstall(p) ==
  /\ "reinstall" \in Faults
  /\ Idle
  /\ installed # p
  /\ installed' = p
  /\ replaced' = TRUE
  /\ UNCHANGED <<files, imported, current, previous, aged, worker, parents,
                 staged, mgr>>

\* A package directory was not touched for updatePackageGracePeriod.
Age(p) ==
  /\ Idle
  /\ files[p] # {}
  /\ p \notin aged
  /\ aged' = aged \union {p}
  /\ UNCHANGED <<files, imported, current, previous, installed, replaced,
                 worker, parents, staged, mgr>>

----------------------------------------------------------------------------
(* Specification *)

Next ==
  \/ CleanupPackages
  \/ CleanupEnds
  \/ StageLookup
  \/ Download
  \/ WriteManifest
  \/ ImportBinary
  \/ Decide
  \/ WritePointer
  \/ WritePointerFails
  \/ Promote
  \/ PromoteFails
  \/ ExecFails
  \/ Exec
  \/ Crash
  \/ \E v \in Versions : Activate(v)
  \/ \E p \in Packages :
       Stage(p) \/ RemoveFile(p) \/ RemoveFails(p) \/ ParentExits(p)
         \/ Reinstall(p) \/ Age(p)

Spec == Init /\ [][Next]_vars

----------------------------------------------------------------------------
(* Properties *)

\* The packages the agent may still need.
Needed == Running \union {staged}
            \union {q.pkg : q \in {current, previous} \ {NoPointer}}

\* The packages the agent may still need are never reclaimed: those of both
\* pointers, the one staged here, and the image of every process of the
\* lineage, also of a supervisor two upgrades back (cleanupPackagesLocked).
NeededIsRetained ==
  [][\A p \in Packages : p \in Needed /\ Readable(p) => Readable(p)']_vars

\* The package can be staged again, whatever its directory holds.
Stageable(p) == Readable(p) \/ files[p] \in {{}, {"dir"}, {"dir", "binary"}}

\* ensureCurrentPackage finds a baseline, unless the directory it would import
\* into is unusable.
FindsBaseline == Baseline.todo # <<>> \/ ~Stageable(ImportSource)

\* Wherever a crash or a failed write hits, the executable that the service
\* manager will start is the one of the current or of the previous pointer, and
\* a worker finds the baseline of its next activation (ensureCurrentPackage).  A
\* foreign entrypoint is refused until the service is restarted from it.
InstalledIsKnown ==
  /\ ~replaced /\ current # NoPointer
       => \E q \in {current, previous} \ {NoPointer} : q.pkg = installed
  /\ Idle /\ (replaced => worker.entry /\ (current # NoPointer => previous # NoPointer))
       => FindsBaseline

============================================================================
