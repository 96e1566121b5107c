----------------------------- MODULE PackageGC ------------------------------
(***************************************************************************)
(* The collection of one package digest in the verified cache of the       *)
(* control plane (storage/plugin_store.go, service/marketplace.go,         *)
(* marketplace/cache.go), against everything that uses the digest: the     *)
(* catalogs and refreshes of the sources, the resolution of a package for  *)
(* an installation and the installation itself.                            *)
(*                                                                         *)
(* A variant of the digest is the package as one signer signed it.  Every  *)
(* source is bound to one signer, so that an intent is named by its source.*)
(* A refresh is three steps here; MarketplaceRefresh has all of them.      *)
(***************************************************************************)
EXTENDS Naturals, FiniteSets

CONSTANTS Sources,    \* sources that may offer the digest
          Signers,    \* signer fingerprints
          Workers,    \* callers of executePackageGC: scheduler and handlers
          Settings    \* what the runs range over, see Setting

\* A setting: the sources that take part and the signer of each, the ones whose
\* refresh takes no packages (official v2), the workers, the calls and faults
\* that may happen, and a bound on the faults.
Setting == [sources : SUBSET Sources, signerOf : [Sources -> Signers],
            metadata : SUBSET Sources, workers : SUBSET Workers,
            calls : SUBSET {"crash", "expire", "fail", "resolve"},
            faults : Nat]

NoOne == "none"

ASSUME PackageGCConstants ==
  Settings \subseteq Setting /\ NoOne \notin Sources \cup Workers

VARIABLES
  live,       \* signers whose variant is in the cache
  quarantine, \* intents whose quarantine directory exists
  catalog,    \* sources with an acquisition row for the digest
  staged,     \* sources with a staging row for the digest
  refresh,    \* [Sources -> how far the worker of a refresh has got]
  intent,     \* [Sources -> the GC intent row of the source's variant]
  fence,      \* the claim on the digest
  gc,         \* [Workers -> the collection the worker is at]
  installed,  \* the source the plugin was installed from
  packages,   \* sources with a package row for the digest
  installer,  \* the request that resolves and installs the package
  faults,     \* faults so far
  setting     \* chosen at the start

vars == <<live, quarantine, catalog, staged, refresh, intent, fence, gc,
          installed, packages, installer, faults, setting>>

SignerOf == setting.signerOf
Metadata == setting.metadata
Calls == setting.calls
MaxFaults == setting.faults

refreshVars == <<catalog, staged, refresh>>
installVars == <<installed, packages, installer>>

Fault(f) == f \in Calls /\ faults < MaxFaults /\ faults' = faults + 1

NoIntent == [st |-> "none", tok |-> NoOne, deferred |-> FALSE, prepared |-> FALSE,
             objects |-> {}]
FreeFence == [tok |-> NoOne, expired |-> FALSE]
IdleGC == [pc |-> "idle", src |-> NoOne, prepared |-> FALSE, objects |-> {}]
IdleInstaller == [pc |-> "idle", src |-> NoOne]

\* schedulePackageGCTx: a row that exists keeps its claim and its objects.
Schedule(s) ==
  intent' = IF intent[s].st = "none" THEN [intent EXCEPT ![s] = [NoIntent EXCEPT !.st = "pending"]]
            ELSE intent

Init ==
  /\ live = {} /\ quarantine = {} /\ catalog = {} /\ staged = {}
  /\ refresh = [s \in Sources |-> "none"]
  /\ intent = [s \in Sources |-> NoIntent]
  /\ fence = FreeFence
  /\ gc = [w \in Workers |-> IdleGC]
  /\ installed = NoOne /\ packages = {}
  /\ installer = IdleInstaller /\ faults = 0
  /\ setting \in Settings

-----------------------------------------------------------------------------
(* StagePackageAcquisition: refused while the digest is being collected. *)
StagePackageAcquisition(s) ==
  /\ s \notin Metadata /\ s \notin staged
  /\ fence.tok = NoOne
  /\ staged' = staged \cup {s}
  /\ refresh' = [refresh EXCEPT ![s] = "reserved"]
  /\ UNCHANGED <<live, quarantine, catalog, intent, fence, gc, installVars,
                 faults, setting>>

(* PublishPackageAcquisition stores the package under the fence's lock. *)
PublishPackageAcquisition(s) ==
  /\ refresh[s] = "reserved" /\ s \in staged
  /\ fence.tok = NoOne
  /\ live' = live \cup {SignerOf[s]}
  /\ refresh' = [refresh EXCEPT ![s] = "published"]
  /\ UNCHANGED <<quarantine, catalog, staged, intent, fence, gc, installVars,
                 faults, setting>>

(* PromoteSnapshotAndCompleteRefresh with the digest in the new catalog.  A
   refresh that takes metadata alone has reserved nothing. *)
PromoteWith(s) ==
  /\ refresh[s] = "published" \/ (s \in Metadata /\ s \notin catalog)
  /\ catalog' = catalog \cup {s}
  /\ staged' = staged \ {s} /\ refresh' = [refresh EXCEPT ![s] = "none"]
  /\ UNCHANGED <<live, quarantine, intent, fence, gc, installVars, faults,
                 setting>>

(* The promotion of a snapshot without the digest, and the deletion of the
   source: the variant is scheduled. *)
PromoteWithout(s) ==
  /\ s \in catalog
  /\ catalog' = catalog \ {s}
  /\ Schedule(s)
  /\ UNCHANGED <<live, quarantine, staged, refresh, fence, gc, installVars,
                 faults, setting>>

(* The refresh ends without a promotion: cleanupRefreshStagingTx. *)
AbortRefresh(s) ==
  /\ s \in staged
  /\ staged' = staged \ {s} /\ refresh' = [refresh EXCEPT ![s] = "none"]
  /\ Schedule(s)
  /\ UNCHANGED <<live, quarantine, catalog, fence, gc, installVars, faults,
                 setting>>

-----------------------------------------------------------------------------
\* Mutant: an installed plugin does not count.
ReferencedWithoutInstalled(g) == \E s \in catalog \cup staged : SignerOf[s] = g

\* pluginVariantReferenced: a catalog, a reservation or an installed plugin
\* has the variant.  An installed plugin is found through its package row.
Referenced(g) ==
  \/ \E s \in catalog \cup staged : SignerOf[s] = g
  \/ installed \in packages /\ SignerOf[installed] = g

\* Mutant: a claim does not expire.
ClaimFreeNever == fence.tok = NoOne

\* A claim that is free, or was, once its five minutes are over.
ClaimFree == fence.tok = NoOne \/ fence.expired

(* ClaimPackageGC: an expired claim is undone; a variant in use is deferred;
   another one is claimed with a token that the fence of the digest names. *)
ClaimPackageGC(w, s) ==
  /\ gc[w].pc = "idle" /\ intent[s].st # "none" /\ ClaimFree
  /\ LET reset == [r \in Sources |->
                     IF fence.tok # NoOne /\ intent[r].tok = fence.tok
                     THEN [intent[r] EXCEPT !.st = "pending", !.tok = NoOne] ELSE intent[r]]
     IN IF Referenced(SignerOf[s])
        THEN /\ intent' = [reset EXCEPT ![s].st = "pending", ![s].deferred = TRUE,
                                        ![s].tok = NoOne]
             /\ fence' = FreeFence
             /\ UNCHANGED gc
        ELSE /\ intent' = [reset EXCEPT ![s].st = "deleting", ![s].deferred = FALSE,
                                        ![s].tok = w]
             /\ fence' = [tok |-> w, expired |-> FALSE]
             /\ gc' = [gc EXCEPT ![w] = [pc |-> IF intent[s].prepared THEN "mutate" ELSE "discover",
                                         src |-> s, prepared |-> intent[s].prepared,
                                         objects |-> intent[s].objects]]
  /\ UNCHANGED <<live, quarantine, refreshVars, installVars, faults, setting>>

(* discoverPackageGCObjects: is there a directory of the variant? *)
DiscoverPackageGCObjects(w) ==
  /\ gc[w].pc = "discover"
  /\ gc' = [gc EXCEPT ![w].pc = "prepare", ![w].objects = {SignerOf[gc[w].src]} \cap live]
  /\ UNCHANGED <<live, quarantine, intent, fence, refreshVars, installVars,
                 faults, setting>>

\* The intent and the fence both name the claim of the worker.
Claims(w) == fence.tok = w /\ intent[gc[w].src].tok = w /\ intent[gc[w].src].st = "deleting"

(* PreparePackageGCObjects writes the objects down and renews the claim; it
   does not ask whether the claim has expired. *)
PreparePackageGCObjects(w) ==
  /\ gc[w].pc = "prepare"
  /\ IF Claims(w)
     THEN /\ intent' = [intent EXCEPT ![gc[w].src].prepared = TRUE,
                                      ![gc[w].src].objects = gc[w].objects]
          /\ fence' = [fence EXCEPT !.expired = FALSE]
          /\ gc' = [gc EXCEPT ![w].pc = "mutate", ![w].prepared = TRUE]
     ELSE gc' = [gc EXCEPT ![w] = IdleGC] /\ UNCHANGED <<intent, fence>>
  /\ UNCHANGED <<live, quarantine, refreshVars, installVars, faults, setting>>

\* WithPackageGCMutation runs the mutation only for a claim that has not run
\* out.
Fenced(w) == Claims(w) /\ ~fence.expired

(* WithPackageGCMutation around QuarantineAndDeleteVerifiedPackageVariant:
   the live directory is renamed to the quarantine of the intent, and that is
   removed.  A quarantine that exists already is all that is removed, and it
   is an error if there is a live directory beside it.  The transaction and
   the lock of the cache are held throughout. *)
MutateCache(w) ==
  /\ gc[w].pc = "mutate" /\ Fenced(w) /\ gc[w].objects # {}
  /\ LET s == gc[w].src
     IN IF s \in quarantine /\ SignerOf[s] \in live
        THEN gc' = [gc EXCEPT ![w].pc = "failed"] /\ UNCHANGED <<live, quarantine, faults>>
        ELSE /\ live' = live \ {SignerOf[s]}
             /\ \/ /\ quarantine' = quarantine \ {s} /\ gc' = [gc EXCEPT ![w].pc = "removed"]
                   /\ UNCHANGED faults
                \/ /\ Fault("fail")
                   /\ quarantine' = IF s \in quarantine \/ SignerOf[s] \in live
                                    THEN quarantine \cup {s} ELSE quarantine
                   /\ gc' = [gc EXCEPT ![w].pc = "failed"]
  /\ fence' = [fence EXCEPT !.expired = FALSE]
  /\ UNCHANGED <<intent, refreshVars, installVars, setting>>

(* A claim whose objects were prepared and are none has nothing to mutate. *)
NothingToMutate(w) ==
  /\ gc[w].pc = "mutate" /\ gc[w].objects = {}
  /\ gc' = [gc EXCEPT ![w].pc = "removed"]
  /\ UNCHANGED <<live, quarantine, intent, fence, refreshVars, installVars,
                 faults, setting>>

(* The mutation is refused: the claim is stale. *)
MutationRefused(w) ==
  /\ gc[w].pc = "mutate" /\ ~Fenced(w) /\ gc[w].objects # {}
  /\ gc' = [gc EXCEPT ![w].pc = "failed"]
  /\ UNCHANGED <<live, quarantine, intent, fence, refreshVars, installVars,
                 faults, setting>>

(* CompletePackageGC: the intent goes, with the package row of its source; or
   it is pending again after a failure.  A stale claim completes nothing. *)
CompletePackageGC(w) ==
  /\ gc[w].pc \in {"removed", "failed"}
  /\ IF Fenced(w)
     THEN /\ fence' = FreeFence
          /\ IF gc[w].pc = "removed"
             THEN /\ intent' = [intent EXCEPT ![gc[w].src] = NoIntent]
                  /\ packages' = packages \ {gc[w].src}
             ELSE /\ intent' = [intent EXCEPT ![gc[w].src].st = "pending", ![gc[w].src].tok = NoOne]
                  /\ UNCHANGED packages
     ELSE UNCHANGED <<fence, intent, packages>>
  /\ gc' = [gc EXCEPT ![w] = IdleGC]
  /\ UNCHANGED <<live, quarantine, refreshVars, installed, installer, faults,
                 setting>>

(* The five minutes of the claim pass. *)
ClaimExpires ==
  /\ fence.tok # NoOne /\ ~fence.expired
  /\ Fault("expire") \/ (gc[fence.tok].pc = "idle" /\ UNCHANGED faults)
  /\ fence' = [fence EXCEPT !.expired = TRUE]
  /\ UNCHANGED <<live, quarantine, intent, gc, refreshVars, installVars,
                 setting>>

-----------------------------------------------------------------------------
(* ResolvePackage reads the catalog; the package is in the cache, or is
   fetched on demand when the source's catalog is metadata alone. *)
ResolvePackage(s) ==
  /\ "resolve" \in Calls /\ installer.pc = "idle" /\ s \in catalog
  /\ SignerOf[s] \in live \/ s \in Metadata
  /\ installer' = [pc |-> IF SignerOf[s] \in live THEN "check" ELSE "store", src |-> s]
  /\ UNCHANGED <<live, quarantine, intent, fence, gc, refreshVars, installed,
                 packages, faults, setting>>

(* Manager.AcquirePackage stores the package, with no look at the fence; the
   catalog is read again afterwards. *)
AcquirePackage ==
  /\ installer.pc = "store"
  /\ live' = live \cup {SignerOf[installer.src]}
  /\ installer' = IF installer.src \in catalog THEN [installer EXCEPT !.pc = "check"]
                  ELSE IdleInstaller
  /\ UNCHANGED <<quarantine, intent, fence, gc, refreshVars, installed,
                 packages, faults, setting>>

(* validatePackageCandidate reads the package in the cache once more. *)
ValidateCandidate ==
  /\ installer.pc = "check"
  /\ installer' = IF SignerOf[installer.src] \in live THEN [installer EXCEPT !.pc = "commit"]
                  ELSE IdleInstaller
  /\ UNCHANGED <<live, quarantine, intent, fence, gc, refreshVars, installed,
                 packages, faults, setting>>

\* validatePackageAcquisitionTx
MayInstall == installer.src \in catalog /\ fence.tok = NoOne

(* InstallPlugin *)
InstallPlugin ==
  /\ installer.pc = "commit"
  /\ IF MayInstall /\ installed = NoOne
     THEN installed' = installer.src /\ packages' = packages \cup {installer.src}
     ELSE UNCHANGED <<installed, packages>>
  /\ installer' = IdleInstaller
  /\ UNCHANGED <<live, quarantine, intent, fence, gc, refreshVars, faults,
                 setting>>

(* The plugin is uninstalled; its package row stays. *)
UninstallPlugin ==
  /\ installed # NoOne
  /\ installed' = NoOne
  /\ UNCHANGED <<live, quarantine, intent, fence, gc, refreshVars, packages,
                 installer, faults, setting>>

(* The process ends, perhaps between the rename to the quarantine and the
   removal, and starts again.  A reservation stays until the next refresh of
   its source finds the lease expired (AbortRefresh). *)
Crash ==
  /\ Fault("crash")
  /\ installer.pc # "idle" \/ (\E s \in Sources : refresh[s] # "none") \/ \E w \in Workers : gc[w].pc # "idle"
  /\ gc' = [w \in Workers |-> IdleGC]
  /\ installer' = IdleInstaller /\ refresh' = [s \in Sources |-> "none"]
  /\ \/ UNCHANGED <<live, quarantine>>
     \/ \E w \in Workers :
          /\ gc[w].pc = "mutate" /\ Fenced(w) /\ gc[w].objects # {}
          /\ SignerOf[gc[w].src] \in live /\ gc[w].src \notin quarantine
          /\ live' = live \ {SignerOf[gc[w].src]}
          /\ quarantine' = quarantine \cup {gc[w].src}
  /\ UNCHANGED <<catalog, staged, intent, fence, installed, packages, setting>>

GCStep(w) ==
  \/ \E s \in setting.sources : ClaimPackageGC(w, s)
  \/ DiscoverPackageGCObjects(w) \/ PreparePackageGCObjects(w) \/ MutateCache(w)
  \/ NothingToMutate(w) \/ MutationRefused(w) \/ CompletePackageGC(w)

Next ==
  \/ \E s \in setting.sources :
       \/ StagePackageAcquisition(s) \/ PublishPackageAcquisition(s)
       \/ PromoteWith(s) \/ PromoteWithout(s) \/ AbortRefresh(s)
       \/ ResolvePackage(s)
  \/ \E w \in setting.workers : GCStep(w)
  \/ ClaimExpires \/ AcquirePackage \/ ValidateCandidate \/ InstallPlugin \/ UninstallPlugin
  \/ Crash

Spec == Init /\ [][Next]_vars

\* Fairness: the scheduler comes back to every intent, a worker goes on with
\* the claim it has, and an abandoned claim expires.
FairSpec ==
  /\ Spec
  /\ \A w \in Workers : WF_vars(gc[w].pc # "idle" /\ GCStep(w))
  /\ \A s \in Sources : SF_vars(\E w \in setting.workers : ClaimPackageGC(w, s))
  /\ WF_vars(ClaimExpires)

-----------------------------------------------------------------------------
(* The type of the rows, the cache and the workers. *)
TypeOK ==
  /\ live \subseteq Signers /\ quarantine \subseteq Sources
  /\ catalog \subseteq Sources /\ staged \subseteq Sources
  /\ refresh \in [Sources -> {"none", "reserved", "published"}]
  /\ \A s \in Sources : refresh[s] # "none" => s \in staged
  /\ packages \subseteq Sources /\ installed \in Sources \cup {NoOne}
  /\ intent \in [Sources -> [st : {"none", "pending", "deleting"}, tok : Workers \cup {NoOne},
                             deferred : BOOLEAN, prepared : BOOLEAN, objects : SUBSET Signers]]
  /\ fence \in [tok : Workers \cup {NoOne}, expired : BOOLEAN]
  /\ gc \in [Workers -> [pc : {"idle", "discover", "prepare", "mutate", "removed", "failed"},
                         src : Sources \cup {NoOne}, prepared : BOOLEAN, objects : SUBSET Signers]]
  /\ installer \in [pc : {"idle", "store", "check", "commit"}, src : Sources \cup {NoOne}]
  /\ faults \in 0..MaxFaults /\ setting \in Settings

(* What is used is in the cache, for the sources that take their packages with
   their refresh: the package of an installed plugin, because between the look of
   the installation at the cache and its transaction no collection that was under
   way takes it away, and the packages that the catalog offers. *)
UsedIsCached ==
  /\ installed \in Sources \ Metadata => SignerOf[installed] \in live
  /\ \A s \in catalog \ Metadata : SignerOf[s] \in live

\* The sources of a variant.
Of(g) == {s \in setting.sources : SignerOf[s] = g}

\* Nobody uses the variant.
Unused(g) == (catalog \cup staged \cup {installed}) \cap Of(g) = {}

\* Nothing is left of it.  (An on-demand acquisition, which knows no intent, may
\* leave the package.)
Collected(g) ==
  /\ \A s \in Of(g) : intent[s].st = "none"
  /\ Of(g) \cap Metadata = {} => g \notin live

\* A removal that failed left its quarantine, and the package has been stored
\* again beside it: every further attempt is refused.
Beside(g) == g \in live /\ Of(g) \cap quarantine # {}

\* An intent was prepared when there was nothing to remove, and keeps that
\* although the package has been stored since.
Overlooked(g) ==
  g \in live /\ \E s \in Of(g) : intent[s].prepared /\ intent[s].objects = {}

(* A variant that is used no more is collected in the end, and its intents with
   it, although restarts, expiries and failed removals interrupt the collection
   and several sources share it: a claim is resumed from the objects it wrote
   down.  Two things defeat that, and only these: a package stored again beside
   the quarantine of a removal that failed (QuarantineAndDeleteVerifiedPackageVariant
   refuses it for ever), and one stored after an intent had found nothing
   (PreparePackageGCObjects is not done again, and the intent ends without it). *)
UnusedIsCollected ==
  \A g \in Signers :
    <>[](Unused(g)) => \/ <>[](Collected(g))
                       \/ <>[](Beside(g))
                       \/ <>(Overlooked(g))
=============================================================================
