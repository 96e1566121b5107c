------------------------- MODULE MarketplaceRefresh -------------------------
(***************************************************************************)
(* The refresh of a marketplace source of the control plane: the worker    *)
(* that fetches a repository into a staging directory, reserves and        *)
(* publishes its packages, and promotes the result as the source's current *)
(* snapshot (marketplace/manager.go), and the store transactions it shares *)
(* with the edit and the deletion of the source, the scheduler's timeout,  *)
(* the cleaners of directories and the garbage collection of packages      *)
(* (storage/plugin_store.go, service/marketplace.go).                      *)
(*                                                                         *)
(* Every action is one transaction or one step on the file system.  The    *)
(* expiry times of a lease, which the source row and the operation row     *)
(* always share, are one flag that the passing of time may raise; a        *)
(* renewal is the absence of that step.                                    *)
(***************************************************************************)
EXTENDS Naturals, FiniteSets

CONSTANTS Sources,    \* identifiers of marketplace sources
          Digests,    \* digests of packages
          Signers,    \* fingerprints of the keys a source may be bound to
          MaxOps,     \* the most refresh operations of a setting
          Cleaners,   \* the callers of runPendingDirectoryCleanup
          Settings    \* what the runs range over, see Setting

\* A setting: the sources, digests, signers and cleaners that take part, bounds
\* on the operations and on the edits of a source, and the other calls and
\* faults that may happen.
Setting == [sources : SUBSET Sources, digests : SUBSET Digests,
            signers : SUBSET Signers, cleaners : SUBSET Cleaners,
            ops : 1..MaxOps, rev : Nat,
            calls : SUBSET {"edit", "delete", "abandon", "expire", "crash",
                            "reclaim"}]

ASSUME RefreshConstants ==
  /\ MaxOps \in Nat \ {0} /\ Settings \subseteq Setting
  /\ Sources # {} /\ Signers # {} /\ "none" \notin Cleaners

Ops == 1..MaxOps
NoOp == 0
NoPath == <<NoOp, "none">>
Paths == Ops \X {"staging", "snapshot"}

VARIABLES
  src,       \* [Sources -> the row of the source]
  op,        \* [Ops -> the row of the refresh operation]
  expired,   \* operations whose lease has run out
  staged,    \* staging rows: <<operation, digest>>
  catalog,   \* [Sources -> set of acquisition rows [digest, signer]]
  snaps,     \* operations whose snapshot row exists
  rows,      \* [Paths -> the directory cleanup row of the path]
  disk,      \* directories that exist
  worker,    \* [Ops -> the goroutine running the operation]
  cleaner,   \* [Cleaners -> the directory the cleaner has claimed]
  cached,    \* package variants in the verified cache
  intents,   \* [set of GC intents [src, digest, signer] -> deferred]
  setting    \* chosen at the start

vars == <<src, op, expired, staged, catalog, snaps, rows, disk, worker,
          cleaner, cached, intents, setting>>

MaxRev == setting.rev
Calls == setting.calls

dirVars == <<rows, disk, cleaner>>
pkgVars == <<staged, catalog, cached, intents>>

Pcs == {"idle", "acquire", "register", "fetch", "stage", "publish", "rename",
        "promote", "unlink", "abort", "save", "sweep", "done"}

Running(o) == op[o].status = "running"
Leased(o) == Running(o) /\ o \notin expired

\* validateRefreshOperationSourceBinding: the operation is one of the source's
\* present configuration.
Bound(o) == /\ op[o].rev = src[op[o].src].rev
            /\ op[o].signer = src[op[o].src].signer

Go(o, pc) == worker' = [worker EXCEPT ![o].pc = pc]

\* scheduleRefreshOperationPackageGCTx for a set of variants: a new intent is
\* pending; one that exists keeps its state.
Scheduled(set) ==
  [i \in (DOMAIN intents \cup set) |-> IF i \in DOMAIN intents THEN intents[i] ELSE FALSE]

StagedIntents(ops) ==
  {[src |-> op[st[1]].src, digest |-> st[2], signer |-> op[st[1]].signer] :
      st \in {x \in staged : x[1] \in ops}}

Unstaged(ops) == {x \in staged : x[1] \notin ops}

NoRow == [state |-> "none", claim |-> "none", stale |-> FALSE]
ProvisionalRow == [NoRow EXCEPT !.state = "provisional"]
RetiredRow == [NoRow EXCEPT !.state = "retired"]

\* ensureMarketplaceDirectoryCleanupTx: a row that exists is left alone.
Retired(paths) ==
  [p \in Paths |-> IF p \in paths /\ rows[p].state = "none" THEN RetiredRow ELSE rows[p]]

-----------------------------------------------------------------------------
Init ==
  /\ setting \in Settings
  /\ src \in [Sources -> [st : {"live"}, rev : {1}, signer : setting.signers, snap : {NoOp},
                          lease : {NoOp}]]
  /\ op = [o \in Ops |-> [src |-> CHOOSE s \in Sources : TRUE, rev |-> 0,
                          signer |-> CHOOSE g \in Signers : TRUE, status |-> "none"]]
  /\ expired = {} /\ staged = {} /\ snaps = {} /\ disk = {} /\ cached = {}
  /\ catalog = [s \in Sources |-> {}]
  /\ rows = [p \in Paths |-> NoRow]
  /\ worker = [o \in Ops |-> [pc |-> "idle", content |-> {}, todo |-> {}]]
  /\ cleaner = [c \in Cleaners |-> [path |-> NoPath, removed |-> FALSE]]
  /\ intents = [i \in {} |-> FALSE]

(* MarketplaceService.Refresh reads the source, and Manager.Refresh builds
   the operation from what was read. *)
Read(o, s) ==
  /\ o <= setting.ops /\ s \in setting.sources
  /\ worker[o].pc = "idle" /\ src[s].st = "live"
  /\ \A p \in Ops : p < o => worker[p].pc # "idle"
  /\ op' = [op EXCEPT ![o] = [src |-> s, rev |-> src[s].rev, signer |-> src[s].signer,
                              status |-> "none"]]
  /\ Go(o, "acquire")
  /\ UNCHANGED <<src, expired, snaps, dirVars, pkgVars, setting>>

(* AcquireRefreshLease: refused when the source is being deleted, was edited
   since it was read or has a lease that still runs.  Operations whose lease
   ran out are failed and their reservations handed to the collection. *)
AcquireRefreshLease(o) ==
  /\ worker[o].pc = "acquire"
  /\ LET s == op[o].src
         held == src[s].lease # NoOp /\ src[s].lease \notin expired
         interrupted == {p \in Ops : op[p].src = s /\ Running(p) /\ p \in expired}
     IN IF src[s].st # "live" \/ ~Bound(o) \/ held
        THEN Go(o, "done") /\ UNCHANGED <<src, op, staged, intents>>
        ELSE /\ src' = [src EXCEPT ![s].lease = o]
             /\ op' = [p \in Ops |-> IF p = o THEN [op[p] EXCEPT !.status = "running"]
                                     ELSE IF p \in interrupted
                                     THEN [op[p] EXCEPT !.status = "failed"] ELSE op[p]]
             /\ intents' = Scheduled(StagedIntents(interrupted))
             /\ staged' = Unstaged(interrupted)
             /\ Go(o, "register")
  /\ UNCHANGED <<expired, catalog, snaps, cached, dirVars, setting>>

(* RegisterMarketplaceDirectoryCleanup: both directories have a provisional
   cleanup row before either is made.  The row's source is not looked at. *)
RegisterMarketplaceDirectoryCleanup(o) ==
  /\ worker[o].pc = "register"
  /\ rows' = [rows EXCEPT ![<<o, "staging">>] = ProvisionalRow,
                          ![<<o, "snapshot">>] = ProvisionalRow]
  /\ Go(o, "fetch")
  /\ UNCHANGED <<src, op, expired, snaps, disk, cleaner, pkgVars, setting>>

(* Fetch and validation: the repository's packages are in the staging
   directory.  The contents differ from one refresh to the next. *)
Fetch(o) ==
  /\ worker[o].pc = "fetch"
  /\ disk' = disk \cup {<<o, "staging">>}
  /\ \E content \in SUBSET setting.digests :
       worker' = [worker EXCEPT ![o] = [pc |-> IF content = {} THEN "rename" ELSE "stage",
                                        content |-> content, todo |-> content]]
  /\ UNCHANGED <<src, op, expired, snaps, rows, cleaner, pkgVars, setting>>

\* lockPackageAcquisitionTx, but for the fence of a digest being collected:
\* the collection is one step here.
MayReserve(o) ==
  /\ src[op[o].src].st = "live" /\ Leased(o) /\ Bound(o)
  /\ src[op[o].src].lease = o

NextDigest(o) == CHOOSE d \in worker[o].todo : TRUE

(* StagePackageAcquisition of the next package, and its failure. *)
StagePackageAcquisition(o) ==
  /\ worker[o].pc = "stage"
  /\ IF MayReserve(o)
     THEN staged' = staged \cup {<<o, NextDigest(o)>>} /\ Go(o, "publish")
     ELSE Go(o, "abort") /\ UNCHANGED staged
  /\ UNCHANGED <<src, op, expired, snaps, catalog, cached, intents, dirVars,
                 setting>>

(* PublishPackageAcquisition stores the package in the cache under the same
   locks, if its reservation is still there. *)
PublishPackageAcquisition(o) ==
  /\ worker[o].pc = "publish"
  /\ LET d == NextDigest(o)
     IN IF MayReserve(o) /\ <<o, d>> \in staged
        THEN /\ cached' = cached \cup {[digest |-> d, signer |-> op[o].signer]}
             /\ worker' = [worker EXCEPT ![o].todo = @ \ {d},
                                         ![o].pc = IF worker[o].todo = {d} THEN "rename"
                                                   ELSE "stage"]
        ELSE Go(o, "abort") /\ UNCHANGED cached
  /\ UNCHANGED <<src, op, expired, snaps, staged, catalog, intents, dirVars,
                 setting>>

(* os.Rename of the staging directory, which a cleaner may have removed. *)
Rename(o) ==
  /\ worker[o].pc = "rename"
  /\ IF <<o, "staging">> \in disk
     THEN /\ disk' = (disk \ {<<o, "staging">>}) \cup {<<o, "snapshot">>}
          /\ Go(o, "promote")
     ELSE Go(o, "abort") /\ UNCHANGED disk
  /\ UNCHANGED <<src, op, expired, snaps, rows, cleaner, pkgVars, setting>>

\* Mutant: the promotion asks for a running operation, and neither for its lease
\* nor for the directory it is about to promote.
MayPromoteUnfenced(o) ==
  /\ src[op[o].src].st = "live" /\ src[op[o].src].lease = o
  /\ Bound(o) /\ Running(o)

\* The conditions of PromoteSnapshotAndCompleteRefresh.
MayPromote(o) ==
  /\ src[op[o].src].st = "live" /\ src[op[o].src].lease = o
  /\ Bound(o) /\ Leased(o)
  /\ rows[<<o, "snapshot">>].state = "provisional"
  /\ rows[<<o, "snapshot">>].claim = "none"

\* The acquisition rows of the source that the promotion hands to the
\* collection: those whose digest the new catalog does not have.
Dropped(s, content) ==
  {[src |-> s, digest |-> a.digest, signer |-> a.signer] :
      a \in {x \in catalog[s] : x.digest \notin content}}

(* PromoteSnapshotAndCompleteRefresh: one transaction for the current
   snapshot, the catalog, the retirement of the earlier snapshots and the end
   of the operation. *)
PromoteSnapshotAndCompleteRefresh(o) ==
  /\ worker[o].pc = "promote"
  /\ LET s == op[o].src
         content == worker[o].content
         old == {p \in snaps : op[p].src = s /\ p # o}
     IN IF MayPromote(o)
        THEN /\ src' = [src EXCEPT ![s].snap = o, ![s].lease = NoOp]
             /\ snaps' = (snaps \ old) \cup {o}
             /\ rows' = [Retired({<<p, "snapshot">> : p \in old})
                            EXCEPT ![<<o, "snapshot">>] = NoRow]
             /\ catalog' = [catalog EXCEPT ![s] =
                              {[digest |-> d, signer |-> op[o].signer] : d \in content}]
             /\ intents' = Scheduled(Dropped(s, content))
             /\ staged' = Unstaged({o})
             /\ op' = [op EXCEPT ![o].status = "succeeded"]
             /\ Go(o, "sweep")
        ELSE Go(o, "unlink") /\ UNCHANGED <<src, op, snaps, rows, staged, catalog, intents>>
  /\ UNCHANGED <<expired, disk, cleaner, cached, setting>>

(* The worker removes the directory it could not promote. *)
Unlink(o) ==
  /\ worker[o].pc = "unlink"
  /\ disk' = disk \ {<<o, "snapshot">>}
  /\ Go(o, "abort")
  /\ UNCHANGED <<src, op, expired, snaps, rows, cleaner, pkgVars, setting>>

(* A fetch, a validation or a store call fails, or a renewal of the lease did
   and the worker notices: the refresh goes to failRefreshAndAbandon. *)
Fail(o) ==
  /\ worker[o].pc \in {"register", "fetch", "stage", "publish", "rename"}
  /\ Go(o, "abort")
  /\ UNCHANGED <<src, op, expired, snaps, dirVars, pkgVars, setting>>

\* cleanupRefreshStagingTx
CleanStaging(o) ==
  /\ intents' = Scheduled(StagedIntents({o}))
  /\ staged' = Unstaged({o})

(* CompletePackageAcquisitions(false); it fails when the source row is gone. *)
CompletePackageAcquisitions(o) ==
  /\ worker[o].pc = "abort"
  /\ IF src[op[o].src].st = "gone" THEN UNCHANGED <<intents, staged>> ELSE CleanStaging(o)
  /\ Go(o, "save")
  /\ UNCHANGED <<src, op, expired, snaps, catalog, cached, dirVars, setting>>

(* SaveRefreshOperation of the failure: only the holder of a lease that still
   runs may record it. *)
SaveRefreshOperation(o) ==
  /\ worker[o].pc = "save"
  /\ LET s == op[o].src
         found == src[s].st # "gone"
     IN IF Leased(o) /\ (found => Bound(o) /\ src[s].lease = o)
        THEN /\ op' = [op EXCEPT ![o].status = "failed"]
             /\ src' = IF found THEN [src EXCEPT ![s].lease = NoOp] ELSE src
        ELSE UNCHANGED <<op, src>>
  /\ Go(o, "sweep")
  /\ UNCHANGED <<expired, snaps, dirVars, pkgVars, setting>>

(* The deferred os.RemoveAll of the staging directory. *)
Sweep(o) ==
  /\ worker[o].pc = "sweep"
  /\ disk' = disk \ {<<o, "staging">>}
  /\ Go(o, "done")
  /\ UNCHANGED <<src, op, expired, snaps, rows, cleaner, pkgVars, setting>>

-----------------------------------------------------------------------------
(* The lease runs out: the worker does not renew it (it stopped, it cannot
   reach the store, or the source is being deleted and the renewal refused). *)
Expire(o) ==
  /\ Leased(o)
  /\ \/ "expire" \in Calls
     \/ worker[o].pc = "done"
     \/ src[op[o].src].st # "live"
  /\ expired' = expired \cup {o}
  /\ UNCHANGED <<src, op, snaps, worker, dirVars, pkgVars, setting>>

\* Mutant: the abandonment leaves the lease in the source row.
AbandonKeepsLease(o) ==
  /\ "abandon" \in Calls
  /\ worker[o].pc \notin {"idle", "acquire", "done"} /\ op[o].status # "none"
  /\ src[op[o].src].st # "gone"
  /\ \/ /\ Running(o) /\ Bound(o) /\ src[op[o].src].lease = o
        /\ op' = [op EXCEPT ![o].status = "failed"]
        /\ expired' = expired \cup {o}
     \/ ~Running(o) /\ UNCHANGED <<op, expired>>
  /\ CleanStaging(o)
  /\ UNCHANGED <<src, catalog, snaps, worker, cached, dirVars, setting>>

(* AbandonMarketplaceRefresh: the scheduler's timeout fences the worker. *)
AbandonMarketplaceRefresh(o) ==
  /\ "abandon" \in Calls
  /\ worker[o].pc \notin {"idle", "acquire", "done"} /\ op[o].status # "none"
  /\ src[op[o].src].st # "gone"
  /\ \/ /\ Running(o) /\ Bound(o) /\ src[op[o].src].lease = o
        /\ op' = [op EXCEPT ![o].status = "failed"]
        /\ src' = [src EXCEPT ![op[o].src].lease = NoOp]
        /\ expired' = expired \cup {o}
     \/ ~Running(o) /\ UNCHANGED <<op, src, expired>>
  /\ CleanStaging(o)
  /\ UNCHANGED <<catalog, snaps, worker, cached, dirVars, setting>>

\* What UpdateMarketplaceSource asks of the lease the source row names.
LeaseConsistent(s) == src[s].lease # NoOp => Running(src[s].lease) /\ Bound(src[s].lease)

(* UpdateMarketplaceSource: the running refresh fails, its reservations are
   scheduled (the rows stay until the worker or a restart drops them), and
   the source has no current snapshot until the next refresh. *)
UpdateMarketplaceSource(s, g) ==
  /\ "edit" \in Calls /\ s \in setting.sources /\ g \in setting.signers
  /\ src[s].st = "live" /\ src[s].rev < MaxRev
  /\ LeaseConsistent(s)
  /\ LET o == src[s].lease
     IN IF o = NoOp THEN UNCHANGED <<op, expired, intents>>
        ELSE /\ op' = [op EXCEPT ![o].status = "failed"]
             /\ expired' = expired \cup {o}
             /\ intents' = Scheduled(StagedIntents({o}))
  /\ src' = [src EXCEPT ![s] = [st |-> "live", rev |-> @.rev + 1, signer |-> g,
                                snap |-> NoOp, lease |-> NoOp]]
  /\ UNCHANGED <<staged, catalog, snaps, worker, cached, dirVars, setting>>

(* DeleteMarketplaceSource: the source is marked, its snapshots retired and
   every variant it knows of scheduled.  Its lease stays. *)
DeleteMarketplaceSource(s) ==
  /\ "delete" \in Calls /\ src[s].st = "live" /\ s \in setting.sources
  /\ LET mine == {p \in Ops : op[p].src = s}
         gone == snaps \cap mine
         of(a) == [src |-> s, digest |-> a.digest, signer |-> a.signer]
         entries == {[src |-> s, digest |-> a.digest, signer |-> src[s].signer] :
                        a \in catalog[s]}
     IN /\ rows' = Retired({<<p, "snapshot">> : p \in gone})
        /\ snaps' = snaps \ gone
        /\ intents' = Scheduled({of(a) : a \in catalog[s]} \cup entries
                                  \cup StagedIntents(mine))
        /\ staged' = Unstaged(mine)
  /\ catalog' = [catalog EXCEPT ![s] = {}]
  /\ src' = [src EXCEPT ![s].st = "deleting", ![s].snap = NoOp]
  /\ UNCHANGED <<op, expired, disk, worker, cleaner, cached, setting>>

(* CompleteMarketplaceSourceDeletion removes the source row once nothing of
   it is left but variants that others still use. *)
CompleteMarketplaceSourceDeletion(s) ==
  /\ src[s].st = "deleting"
  /\ \A i \in DOMAIN intents : i.src = s => intents[i]
  /\ \A p \in Paths : op[p[1]].src = s => rows[p].state = "none"
  /\ src' = [src EXCEPT ![s].st = "gone"]
  /\ UNCHANGED <<op, expired, snaps, worker, dirVars, pkgVars, setting>>

-----------------------------------------------------------------------------
\* A variant some acquisition or staging row of any source names
\* (pluginVariantReferenced).
Referenced(d, g) ==
  \/ \E s \in Sources : [digest |-> d, signer |-> g] \in catalog[s]
  \/ \E x \in staged : x[2] = d /\ op[x[1]].signer = g

(* ClaimPackageGC and the collection that follows it, in one step: a variant
   in use is deferred, another one leaves the cache with its intent.  The
   claim, its fence and the steps of the collection are PackageGC's. *)
RunPackageGC(i) ==
  /\ i \in DOMAIN intents
  /\ IF Referenced(i.digest, i.signer)
     THEN intents' = [intents EXCEPT ![i] = TRUE] /\ UNCHANGED cached
     ELSE /\ intents' = [j \in DOMAIN intents \ {i} |-> intents[j]]
          /\ cached' = cached \ {[digest |-> i.digest, signer |-> i.signer]}
  /\ UNCHANGED <<src, op, expired, snaps, staged, catalog, worker, dirVars,
                 setting>>

\* Mutant: the directories of an operation whose lease ran out are not handed
\* out as long as it is called running.
ClaimableTerminal(p) ==
  /\ rows[p].state # "none"
  /\ rows[p].claim = "none" \/ rows[p].stale
  /\ ~(rows[p].state = "provisional" /\ Running(p[1]))
  /\ ~\E s \in Sources : src[s].st = "live" /\ p = <<src[s].snap, "snapshot">>

\* The paths ClaimMarketplaceDirectoryCleanup may hand out.
Claimable(p) ==
  /\ rows[p].state # "none"
  /\ rows[p].claim = "none" \/ rows[p].stale
  /\ ~(rows[p].state = "provisional" /\ Leased(p[1]))
  /\ ~\E s \in Sources : src[s].st = "live" /\ p = <<src[s].snap, "snapshot">>

(* ClaimMarketplaceDirectoryCleanup *)
ClaimMarketplaceDirectoryCleanup(c, p) ==
  /\ cleaner[c].path = NoPath /\ Claimable(p) /\ c \in setting.cleaners
  /\ rows' = [rows EXCEPT ![p].claim = c, ![p].stale = FALSE]
  /\ cleaner' = [cleaner EXCEPT ![c] = [path |-> p, removed |-> FALSE]]
  /\ UNCHANGED <<src, op, expired, snaps, disk, worker, pkgVars, setting>>

(* os.RemoveAll of the claimed directory. *)
RemoveDirectory(c) ==
  /\ cleaner[c].path # NoPath /\ ~cleaner[c].removed
  /\ disk' = disk \ {cleaner[c].path}
  /\ cleaner' = [cleaner EXCEPT ![c].removed = TRUE]
  /\ UNCHANGED <<src, op, expired, snaps, rows, worker, pkgVars, setting>>

(* CompleteMarketplaceDirectoryCleanup: the row goes with its claim; a stale
   claim completes nothing. *)
CompleteMarketplaceDirectoryCleanup(c) ==
  /\ cleaner[c].removed
  /\ LET p == cleaner[c].path
     IN rows' = IF rows[p].claim = c THEN [rows EXCEPT ![p] = NoRow] ELSE rows
  /\ cleaner' = [cleaner EXCEPT ![c] = [path |-> NoPath, removed |-> FALSE]]
  /\ UNCHANGED <<src, op, expired, snaps, disk, worker, pkgVars, setting>>

(* The removal failed: the claim is given back. *)
RemovalFails(c) ==
  /\ "reclaim" \in Calls
  /\ cleaner[c].path # NoPath /\ ~cleaner[c].removed
  /\ LET p == cleaner[c].path
     IN rows' = IF rows[p].claim = c THEN [rows EXCEPT ![p].claim = "none"] ELSE rows
  /\ cleaner' = [cleaner EXCEPT ![c] = [path |-> NoPath, removed |-> FALSE]]
  /\ UNCHANGED <<src, op, expired, snaps, disk, worker, pkgVars, setting>>

(* The five minutes of a claim pass while its cleaner is still at it. *)
ClaimExpires(p) ==
  /\ rows[p].claim # "none" /\ ~rows[p].stale
  /\ \/ "reclaim" \in Calls
     \/ \A c \in Cleaners : cleaner[c].path # p
  /\ rows' = [rows EXCEPT ![p].stale = TRUE]
  /\ UNCHANGED <<src, op, expired, snaps, disk, worker, cleaner, pkgVars,
                 setting>>

(* The process ends and starts again: the goroutines are gone, and the start
   (reconcileTerminalMarketplaceRefreshStaging) drops the staging rows of
   operations that have ended. *)
Crash ==
  /\ "crash" \in Calls
  /\ \E o \in Ops : worker[o].pc \notin {"idle", "done"}
  /\ worker' = [o \in Ops |-> IF worker[o].pc = "idle" THEN worker[o]
                              ELSE [worker[o] EXCEPT !.pc = "done"]]
  /\ cleaner' = [c \in Cleaners |-> [path |-> NoPath, removed |-> FALSE]]
  /\ LET ended == {o \in Ops : ~Running(o)}
     IN intents' = Scheduled(StagedIntents(ended)) /\ staged' = Unstaged(ended)
  /\ UNCHANGED <<src, op, expired, catalog, snaps, rows, disk, cached,
                 setting>>

-----------------------------------------------------------------------------
WorkerStep(o) ==
  \/ AcquireRefreshLease(o) \/ RegisterMarketplaceDirectoryCleanup(o) \/ Fetch(o)
  \/ StagePackageAcquisition(o) \/ PublishPackageAcquisition(o) \/ Rename(o)
  \/ PromoteSnapshotAndCompleteRefresh(o) \/ Unlink(o)
  \/ CompletePackageAcquisitions(o) \/ SaveRefreshOperation(o) \/ Sweep(o)

CleanerStep(c) ==
  \/ \E p \in Paths : ClaimMarketplaceDirectoryCleanup(c, p)
  \/ RemoveDirectory(c) \/ CompleteMarketplaceDirectoryCleanup(c)

Next ==
  \/ \E o \in Ops, s \in Sources : Read(o, s)
  \/ \E o \in Ops : WorkerStep(o) \/ Fail(o) \/ Expire(o) \/ AbandonMarketplaceRefresh(o)
  \/ \E s \in Sources, g \in Signers : UpdateMarketplaceSource(s, g)
  \/ \E s \in Sources : DeleteMarketplaceSource(s) \/ CompleteMarketplaceSourceDeletion(s)
  \/ \E i \in DOMAIN intents : RunPackageGC(i)
  \/ \E c \in Cleaners : CleanerStep(c) \/ RemovalFails(c)
  \/ \E p \in Paths : ClaimExpires(p)
  \/ Crash

Spec == Init /\ [][Next]_vars

Variants == [digest : Digests, signer : Signers]
Intents == [src : Sources, digest : Digests, signer : Signers]

\* Fairness: workers and cleaners go on, the scheduler runs the collection and
\* the cleanup again and again, and time passes.
FairSpec ==
  /\ Spec
  /\ \A o \in Ops : WF_vars(WorkerStep(o)) /\ WF_vars(Expire(o))
  /\ \A i \in Intents : WF_vars(RunPackageGC(i))
  /\ \A c \in Cleaners : WF_vars(CleanerStep(c))
  /\ \A p \in Paths : WF_vars(ClaimExpires(p))
  /\ \A s \in Sources : WF_vars(CompleteMarketplaceSourceDeletion(s))
-----------------------------------------------------------------------------
Alive(o) == worker[o].pc \notin {"idle", "done"}

(* The type of the rows, the directories and the goroutines. *)
TypeOK ==
  /\ src \in [Sources -> [st : {"live", "deleting", "gone"}, rev : 1..MaxRev,
                          signer : Signers, snap : Ops \cup {NoOp}, lease : Ops \cup {NoOp}]]
  /\ op \in [Ops -> [src : Sources, rev : 0..MaxRev, signer : Signers,
                     status : {"none", "running", "failed", "succeeded"}]]
  /\ expired \subseteq Ops /\ snaps \subseteq Ops
  /\ staged \subseteq Ops \X Digests
  /\ catalog \in [Sources -> SUBSET Variants]
  /\ cached \subseteq Variants
  /\ DOMAIN intents \subseteq Intents /\ \A i \in DOMAIN intents : intents[i] \in BOOLEAN
  /\ rows \in [Paths -> [state : {"none", "provisional", "retired"},
                         claim : Cleaners \cup {"none"}, stale : BOOLEAN]]
  /\ disk \subseteq Paths
  /\ worker \in [Ops -> [pc : Pcs, content : SUBSET Digests, todo : SUBSET Digests]]
  /\ cleaner \in [Cleaners -> [path : Paths \cup {NoPath}, removed : BOOLEAN]]

(* The rows of a source agree with each other, however a timeout, an expiry, a
   restart and a late failure interleave.  The lease a live source names is one
   of a running operation of its present configuration, so that
   UpdateMarketplaceSource never meets the "active marketplace refresh lease is
   inconsistent" it refuses an edit with; the current snapshot was fetched for
   this revision and by this signer, and the acquisition rows are exactly its
   packages, so that a worker that an edit overtook never promotes; and a staging
   row has its source row, without which the start of the control plane fails
   (reconcileTerminalMarketplaceRefreshStaging). *)
RowsAgree ==
  /\ \A s \in Sources : src[s].st = "live" => LeaseConsistent(s)
  /\ \A s \in Sources : src[s].st = "live" /\ src[s].snap # NoOp =>
       LET o == src[s].snap
       IN /\ o \in snaps /\ op[o].src = s /\ Bound(o)
          /\ catalog[s] = {[digest |-> d, signer |-> src[s].signer] : d \in worker[o].content}
  /\ \A x \in staged : src[op[x[1]].src].st # "gone"

(* The directory of a live source's current snapshot is never removed, by a
   cleaner whose claim is stale or by a worker that was fenced, and no directory
   is forgotten: one that exists has a cleanup row or a snapshot row, or the
   worker that made it is still there to remove it, as long as the process does
   not end. *)
DirsAreOwned ==
  /\ \A s \in Sources : src[s].st = "live" /\ src[s].snap # NoOp =>
       <<src[s].snap, "snapshot">> \in disk
  /\ "crash" \notin Calls =>
       \A p \in disk : \/ rows[p].state # "none"
                       \/ p[2] = "snapshot" /\ p[1] \in snaps
                       \/ Alive(p[1])

(* A source that is being deleted is deleted in the end, whatever refresh was
   under way, as long as someone cleans up. *)
DeletionCompletes ==
  []<>(setting.cleaners # {} => \A s \in Sources : src[s].st # "deleting")
=============================================================================
