--------------------------- MODULE PackageGCProofs ---------------------------
(***************************************************************************)
(* Proofs about the collection of a package digest, for any number of      *)
(* sources, signers, workers and faults.                                   *)
(*                                                                         *)
(* CollectionInv is the inductive invariant.  The look at the references   *)
(* and the removal of the directory are steps of their own, with a restart *)
(* or an expiry of the claim in between, so that UsedIsCached alone is not *)
(* inductive: ClaimInv says that the fence names the one intent that is    *)
(* being collected, and CollectedInv that its variant is still as unused   *)
(* as it was when it was claimed.  Metadata sources promise nothing: they  *)
(* enter the catalog without a look at the fence.                          *)
(***************************************************************************)
EXTENDS PackageGC, TLAPS

\* The rows of the intents and of the workers.
IntentRow == [st : {"none", "pending", "deleting"}, tok : Workers \cup {NoOne},
              deferred : BOOLEAN, prepared : BOOLEAN, objects : SUBSET Signers]

WorkerRow == [pc : {"idle", "discover", "prepare", "mutate", "removed", "failed"},
              src : Sources \cup {NoOne}, prepared : BOOLEAN, objects : SUBSET Signers]

RowsInv ==
  /\ catalog \subseteq Sources /\ staged \subseteq Sources
  /\ refresh \in [Sources -> {"none", "reserved", "published"}]
  /\ intent \in [Sources -> IntentRow]
  /\ fence \in [tok : Workers \cup {NoOne}, expired : BOOLEAN]
  /\ gc \in [Workers -> WorkerRow]
  /\ \A w \in Workers : gc[w].pc # "idle" => gc[w].src \in Sources
  /\ installed \in Sources \cup {NoOne}
  /\ installer \in [pc : {"idle", "store", "check", "commit"}, src : Sources \cup {NoOne}]
  /\ setting \in Setting

\* A refresh works on its reservation, and only a source with packages reserves.
RefreshInv ==
  /\ staged \cap Metadata = {}
  /\ \A s \in Sources : refresh[s] # "none" => s \in staged
  /\ \A s \in Sources : refresh[s] = "published" => SignerOf[s] \in live

\* The fence names the only intent that is claimed.
ClaimInv ==
  /\ \A s \in Sources : intent[s].tok \in {NoOne, fence.tok}
  /\ \A r, s \in Sources : intent[r].tok # NoOne /\ intent[s].tok # NoOne => r = s

\* The variant that is claimed is the one of no plugin, no reservation and no
\* catalog with packages.
CollectedInv ==
  \A s \in Sources : intent[s].tok # NoOne =>
    /\ \A r \in (catalog \cup staged) \ Metadata : SignerOf[r] # SignerOf[s]
    /\ installed \in Sources => SignerOf[installed] # SignerOf[s]

\* pluginVariantReferenced finds an installed plugin through its package row.
PackageInv == installed \in Sources => installed \in packages

CollectionInv ==
  /\ RowsInv
  /\ RefreshInv
  /\ ClaimInv
  /\ CollectedInv
  /\ PackageInv
  /\ UsedIsCached

----------------------------------------------------------------------------
(* What the steps have in common *)

\* Rows of the intents, the fence and the workers keep their shape.
LEMMA RowFields ==
  /\ \A i \in IntentRow : i.tok \in Workers \cup {NoOne} /\ i.objects \in SUBSET Signers
       /\ i.prepared \in BOOLEAN
  /\ \A i \in IntentRow, st \in {"none", "pending", "deleting"} :
       [i EXCEPT !.st = st] \in IntentRow /\ [i EXCEPT !.st = st].tok = i.tok
  /\ \A i \in IntentRow, d \in BOOLEAN :
       [i EXCEPT !.deferred = d] \in IntentRow /\ [i EXCEPT !.deferred = d].tok = i.tok
  /\ \A i \in IntentRow, p \in BOOLEAN :
       [i EXCEPT !.prepared = p] \in IntentRow /\ [i EXCEPT !.prepared = p].tok = i.tok
  /\ \A i \in IntentRow, o \in SUBSET Signers :
       [i EXCEPT !.objects = o] \in IntentRow /\ [i EXCEPT !.objects = o].tok = i.tok
  /\ \A i \in IntentRow, t \in Workers \cup {NoOne} :
       [i EXCEPT !.tok = t] \in IntentRow /\ [i EXCEPT !.tok = t].tok = t
  /\ NoIntent \in IntentRow /\ NoIntent.tok = NoOne
  /\ IdleGC \in WorkerRow /\ IdleGC.pc = "idle"
  /\ FreeFence \in [tok : Workers \cup {NoOne}, expired : BOOLEAN] /\ FreeFence.tok = NoOne
BY DEF IntentRow, WorkerRow, NoIntent, IdleGC, FreeFence

\* The setting stays, and with it what it says of the sources.
LEMMA SettingStays ==
  ASSUME setting' = setting
  PROVE  SignerOf' = SignerOf /\ Metadata' = Metadata
BY DEF SignerOf, Metadata

LEMMA SettingType ==
  RowsInv => /\ SignerOf \in [Sources -> Signers] /\ Metadata \subseteq Sources
             /\ setting.sources \subseteq Sources /\ setting.workers \subseteq Workers
BY DEF RowsInv, Setting, SignerOf, Metadata

\* A step that neither claims, references nor gives up a variant, and removes
\* no directory that is used.
LEMMA CacheFrame ==
  ASSUME CollectionInv, RowsInv', setting' = setting,
         UNCHANGED <<catalog, staged, installed, packages>>,
         \A s \in Sources : intent'[s].tok = intent[s].tok,
         fence'.tok = fence.tok,
         \A s \in Sources : refresh'[s] # "none" => s \in staged,
         \A s \in Sources : refresh'[s] = "published" =>
           refresh[s] = "published" \/ SignerOf[s] \in live',
         \A s \in (catalog \cup staged) \ Metadata : SignerOf[s] \in live => SignerOf[s] \in live',
         installed \in Sources /\ SignerOf[installed] \in live => SignerOf[installed] \in live'
  PROVE  CollectionInv'
<1>s. SignerOf' = SignerOf /\ Metadata' = Metadata
  BY SettingStays
<1>1. RefreshInv'
  BY <1>s DEF CollectionInv, RefreshInv
<1>2. ClaimInv'
  BY DEF CollectionInv, ClaimInv
<1>3. CollectedInv'
  BY <1>s DEF CollectionInv, CollectedInv
<1>4. PackageInv'
  BY DEF CollectionInv, PackageInv
<1>5. UsedIsCached'
  BY <1>s DEF CollectionInv, UsedIsCached
<1> QED BY <1>1, <1>2, <1>3, <1>4, <1>5 DEF CollectionInv

\* A worker moves on with the claim it has.
LEMMA WorkerMoves ==
  ASSUME RowsInv, NEW w \in Workers, NEW row \in WorkerRow,
         row.pc # "idle" => row.src \in Sources
  PROVE  /\ [gc EXCEPT ![w] = row] \in [Workers -> WorkerRow]
         /\ \A v \in Workers : [gc EXCEPT ![w] = row][v].pc # "idle"
              => [gc EXCEPT ![w] = row][v].src \in Sources
BY DEF RowsInv

LEMMA WorkerGoesOn ==
  ASSUME RowsInv, NEW w \in Workers, gc[w].pc # "idle",
         NEW pc \in {"discover", "prepare", "mutate", "removed", "failed"}
  PROVE  /\ [gc EXCEPT ![w].pc = pc] \in [Workers -> WorkerRow]
         /\ \A v \in Workers : [gc EXCEPT ![w].pc = pc][v].pc # "idle"
              => [gc EXCEPT ![w].pc = pc][v].src \in Sources
<1>1. gc[w] \in WorkerRow /\ gc[w].src \in Sources
  BY DEF RowsInv
<1>2. /\ [gc[w] EXCEPT !.pc = pc] \in WorkerRow
      /\ [gc[w] EXCEPT !.pc = pc].src \in Sources
  BY <1>1 DEF WorkerRow
<1>3. [gc EXCEPT ![w].pc = pc] = [gc EXCEPT ![w] = [gc[w] EXCEPT !.pc = pc]]
  BY DEF RowsInv
<1> QED BY <1>2, <1>3, WorkerMoves

\* schedulePackageGCTx leaves the claims alone.
LEMMA ScheduleKeeps ==
  ASSUME RowsInv, ClaimInv, NEW s \in Sources, Schedule(s)
  PROVE  /\ intent' \in [Sources -> IntentRow]
         /\ \A r \in Sources : intent'[r].tok \in {NoOne, intent[r].tok}
<1>1. [NoIntent EXCEPT !.st = "pending"] \in IntentRow
      /\ [NoIntent EXCEPT !.st = "pending"].tok = NoOne
  BY RowFields
<1> QED BY <1>1 DEF Schedule, RowsInv

\* Claims that are dropped leave the others as they are.
LEMMA ClaimsDropped ==
  ASSUME ClaimInv, CollectedInv, fence'.tok = fence.tok,
         \A r \in Sources : intent'[r].tok \in {NoOne, intent[r].tok},
         UNCHANGED setting,
         (catalog' \cup staged') \ Metadata \subseteq (catalog \cup staged) \ Metadata,
         installed' \in Sources => installed' = installed
  PROVE  ClaimInv' /\ CollectedInv'
<1>1. ClaimInv'
  BY DEF ClaimInv
<1>2. CollectedInv'
  BY SettingStays DEF CollectedInv
<1> QED BY <1>1, <1>2


----------------------------------------------------------------------------
(* The catalogs and the refreshes *)

LEMMA StageNext ==
  ASSUME CollectionInv, NEW s \in Sources, StagePackageAcquisition(s)
  PROVE  CollectionInv'
<1>e. /\ s \notin Metadata /\ s \notin staged /\ fence.tok = NoOne
      /\ staged' = staged \cup {s} /\ refresh' = [refresh EXCEPT ![s] = "reserved"]
      /\ UNCHANGED <<live, catalog, intent, fence, gc, installed, packages, installer, setting>>
  BY DEF StagePackageAcquisition, installVars
<1>s. SignerOf' = SignerOf /\ Metadata' = Metadata
  BY <1>e, SettingStays
<1>1. RowsInv'
  BY <1>e DEF CollectionInv, RowsInv
<1>2. RefreshInv'
  BY <1>e, <1>s DEF CollectionInv, RowsInv, RefreshInv
<1>3. ClaimInv'
  BY <1>e DEF CollectionInv, ClaimInv
<1>4. CollectedInv'
  BY <1>e DEF CollectionInv, ClaimInv, CollectedInv
<1>5. PackageInv'
  BY <1>e DEF CollectionInv, PackageInv
<1>6. UsedIsCached'
  BY <1>e, <1>s DEF CollectionInv, UsedIsCached
<1> QED BY <1>1, <1>2, <1>3, <1>4, <1>5, <1>6 DEF CollectionInv

LEMMA PublishNext ==
  ASSUME CollectionInv, NEW s \in Sources, PublishPackageAcquisition(s)
  PROVE  CollectionInv'
<1>e. /\ s \in staged
      /\ live' = live \cup {SignerOf[s]} /\ refresh' = [refresh EXCEPT ![s] = "published"]
      /\ UNCHANGED <<catalog, staged, intent, fence, gc, installed, packages, installer,
                     setting>>
  BY DEF PublishPackageAcquisition, installVars
<1>1. RowsInv'
  BY <1>e DEF CollectionInv, RowsInv
<1>2. \A r \in Sources : /\ refresh'[r] # "none" => r \in staged
                         /\ refresh'[r] = "published" =>
                              refresh[r] = "published" \/ SignerOf[r] \in live'
  BY <1>e DEF CollectionInv, RowsInv, RefreshInv
<1> QED BY <1>e, <1>1, <1>2, CacheFrame

\* A catalog with packages takes over what its reservation kept.
LEMMA PromoteWithNext ==
  ASSUME CollectionInv, NEW s \in Sources, PromoteWith(s)
  PROVE  CollectionInv'
<1>e. /\ refresh[s] = "published" \/ s \in Metadata
      /\ catalog' = catalog \cup {s} /\ staged' = staged \ {s}
      /\ refresh' = [refresh EXCEPT ![s] = "none"]
      /\ UNCHANGED <<live, intent, fence, gc, installed, packages, installer, setting>>
  BY DEF PromoteWith, installVars
<1>s. SignerOf' = SignerOf /\ Metadata' = Metadata
  BY <1>e, SettingStays
<1>p. s \notin Metadata => s \in staged /\ SignerOf[s] \in live
  BY <1>e DEF CollectionInv, RefreshInv
<1>1. RowsInv'
  BY <1>e DEF CollectionInv, RowsInv
<1>2. RefreshInv'
  BY <1>e, <1>s DEF CollectionInv, RowsInv, RefreshInv
<1>3. ClaimInv' /\ CollectedInv'
  <2>1. (catalog' \cup staged') \ Metadata \subseteq (catalog \cup staged) \ Metadata
    BY <1>e, <1>p
  <2>2. \A r \in Sources : intent'[r].tok \in {NoOne, intent[r].tok}
    BY <1>e
  <2> QED BY <1>e, <2>1, <2>2, ClaimsDropped DEF CollectionInv
<1>5. PackageInv'
  BY <1>e DEF CollectionInv, PackageInv
<1>6. UsedIsCached'
  BY <1>e, <1>s, <1>p DEF CollectionInv, UsedIsCached
<1> QED BY <1>1, <1>2, <1>3, <1>5, <1>6 DEF CollectionInv

LEMMA PromoteWithoutNext ==
  ASSUME CollectionInv, NEW s \in Sources, PromoteWithout(s)
  PROVE  CollectionInv'
<1>e. /\ catalog' = catalog \ {s} /\ Schedule(s)
      /\ UNCHANGED <<live, staged, refresh, fence, gc, installed, packages, installer,
                     setting>>
  BY DEF PromoteWithout, installVars
<1>s. SignerOf' = SignerOf /\ Metadata' = Metadata
  BY <1>e, SettingStays
<1>i. /\ intent' \in [Sources -> IntentRow]
      /\ \A r \in Sources : intent'[r].tok \in {NoOne, intent[r].tok}
  BY <1>e, ScheduleKeeps DEF CollectionInv
<1>1. RowsInv'
  BY <1>e, <1>i DEF CollectionInv, RowsInv
<1>2. RefreshInv'
  BY <1>e, <1>s DEF CollectionInv, RefreshInv
<1>3. ClaimInv' /\ CollectedInv'
  <2>1. (catalog' \cup staged') \ Metadata \subseteq (catalog \cup staged) \ Metadata
    BY <1>e
  <2> QED BY <1>e, <1>i, <2>1, ClaimsDropped DEF CollectionInv
<1>5. PackageInv'
  BY <1>e DEF CollectionInv, PackageInv
<1>6. UsedIsCached'
  BY <1>e, <1>s DEF CollectionInv, UsedIsCached
<1> QED BY <1>1, <1>2, <1>3, <1>5, <1>6 DEF CollectionInv

LEMMA AbortRefreshNext ==
  ASSUME CollectionInv, NEW s \in Sources, AbortRefresh(s)
  PROVE  CollectionInv'
<1>e. /\ staged' = staged \ {s} /\ refresh' = [refresh EXCEPT ![s] = "none"] /\ Schedule(s)
      /\ UNCHANGED <<live, catalog, fence, gc, installed, packages, installer, setting>>
  BY DEF AbortRefresh, installVars
<1>s. SignerOf' = SignerOf /\ Metadata' = Metadata
  BY <1>e, SettingStays
<1>i. /\ intent' \in [Sources -> IntentRow]
      /\ \A r \in Sources : intent'[r].tok \in {NoOne, intent[r].tok}
  BY <1>e, ScheduleKeeps DEF CollectionInv
<1>1. RowsInv'
  BY <1>e, <1>i DEF CollectionInv, RowsInv
<1>2. RefreshInv'
  BY <1>e, <1>s DEF CollectionInv, RowsInv, RefreshInv
<1>3. ClaimInv' /\ CollectedInv'
  <2>1. (catalog' \cup staged') \ Metadata \subseteq (catalog \cup staged) \ Metadata
    BY <1>e
  <2> QED BY <1>e, <1>i, <2>1, ClaimsDropped DEF CollectionInv
<1>5. PackageInv'
  BY <1>e DEF CollectionInv, PackageInv
<1>6. UsedIsCached'
  BY <1>e, <1>s DEF CollectionInv, UsedIsCached
<1> QED BY <1>1, <1>2, <1>3, <1>5, <1>6 DEF CollectionInv

----------------------------------------------------------------------------
(* The collection *)

\* The references are read with the claim: none is left when it is taken, and
\* no other intent is claimed.
LEMMA ClaimNext ==
  ASSUME CollectionInv, NEW w \in Workers, NEW s \in Sources, ClaimPackageGC(w, s)
  PROVE  CollectionInv'
<1> DEFINE reset == [r \in Sources |->
                       IF fence.tok # NoOne /\ intent[r].tok = fence.tok
                       THEN [intent[r] EXCEPT !.st = "pending", !.tok = NoOne] ELSE intent[r]]
           deferred == [reset EXCEPT ![s].st = "pending", ![s].deferred = TRUE, ![s].tok = NoOne]
           claimed == [reset EXCEPT ![s].st = "deleting", ![s].deferred = FALSE, ![s].tok = w]
<1>e. /\ UNCHANGED <<live, catalog, staged, refresh, installed, packages, installer, setting>>
      /\ \/ /\ Referenced(SignerOf[s]) /\ intent' = deferred /\ fence' = FreeFence /\ gc' = gc
         \/ /\ ~Referenced(SignerOf[s]) /\ intent' = claimed
            /\ fence' = [tok |-> w, expired |-> FALSE]
            /\ gc' = [gc EXCEPT ![w] = [pc |-> IF intent[s].prepared THEN "mutate" ELSE "discover",
                                        src |-> s, prepared |-> intent[s].prepared,
                                        objects |-> intent[s].objects]]
  BY DEF ClaimPackageGC, refreshVars, installVars
<1>s. SignerOf' = SignerOf /\ Metadata' = Metadata
  BY <1>e, SettingStays
<1>r. reset \in [Sources -> IntentRow] /\ \A r \in Sources : reset[r].tok = NoOne
  <2>1. ASSUME NEW r \in Sources
        PROVE  reset[r] \in IntentRow /\ reset[r].tok = NoOne
    <3>1. intent[r] \in IntentRow /\ intent[r].tok \in {NoOne, fence.tok}
      BY DEF CollectionInv, RowsInv, ClaimInv
    <3>2. [intent[r] EXCEPT !.st = "pending"] \in IntentRow
      BY <3>1, RowFields
    <3>3. /\ [[intent[r] EXCEPT !.st = "pending"] EXCEPT !.tok = NoOne] \in IntentRow
          /\ [[intent[r] EXCEPT !.st = "pending"] EXCEPT !.tok = NoOne].tok = NoOne
      BY <3>2, RowFields
    <3>4. [intent[r] EXCEPT !.st = "pending", !.tok = NoOne]
            = [[intent[r] EXCEPT !.st = "pending"] EXCEPT !.tok = NoOne]
      OBVIOUS
    <3> QED BY <3>1, <3>3, <3>4
  <2> QED BY <2>1
<1> HIDE DEF reset
<1>d. /\ deferred \in [Sources -> IntentRow] /\ \A r \in Sources : deferred[r].tok = NoOne
      /\ claimed \in [Sources -> IntentRow]
      /\ \A r \in Sources : claimed[r].tok = IF r = s THEN w ELSE NoOne
  <2>1. /\ [reset[s] EXCEPT !.st = "pending", !.deferred = TRUE, !.tok = NoOne] \in IntentRow
        /\ [reset[s] EXCEPT !.st = "pending", !.deferred = TRUE, !.tok = NoOne].tok = NoOne
        /\ [reset[s] EXCEPT !.st = "deleting", !.deferred = FALSE, !.tok = w] \in IntentRow
        /\ [reset[s] EXCEPT !.st = "deleting", !.deferred = FALSE, !.tok = w].tok = w
    BY <1>r DEF IntentRow
  <2>2. /\ deferred = [reset EXCEPT ![s] =
                         [reset[s] EXCEPT !.st = "pending", !.deferred = TRUE, !.tok = NoOne]]
        /\ claimed = [reset EXCEPT ![s] =
                        [reset[s] EXCEPT !.st = "deleting", !.deferred = FALSE, !.tok = w]]
    BY <1>r
  <2> HIDE DEF deferred, claimed
  <2> QED BY <1>r, <2>1, <2>2
<1> HIDE DEF deferred, claimed
<1>n. w # NoOne
  BY PackageGCConstants
<1>1. RowsInv'
  <2>1. CASE Referenced(SignerOf[s])
    BY <2>1, <1>e, <1>d, RowFields DEF CollectionInv, RowsInv
  <2>2. CASE ~Referenced(SignerOf[s])
    <3>1. intent[s] \in IntentRow
      BY DEF CollectionInv, RowsInv
    <3>2. [pc |-> IF intent[s].prepared THEN "mutate" ELSE "discover", src |-> s,
           prepared |-> intent[s].prepared, objects |-> intent[s].objects] \in WorkerRow
      BY <3>1, RowFields DEF WorkerRow
    <3>3. /\ gc' \in [Workers -> WorkerRow]
          /\ \A v \in Workers : gc'[v].pc # "idle" => gc'[v].src \in Sources
      BY <2>2, <1>e, <3>2, WorkerMoves DEF CollectionInv
    <3>4. fence' = [tok |-> w, expired |-> FALSE]
      BY <2>2, <1>e
    <3>5. fence' \in [tok : Workers \cup {NoOne}, expired : BOOLEAN]
      BY <3>4
    <3> QED BY <2>2, <1>e, <1>d, <3>3, <3>5 DEF CollectionInv, RowsInv
  <2> QED BY <2>1, <2>2
<1>2. RefreshInv'
  BY <1>e, <1>s DEF CollectionInv, RefreshInv
<1>3. ClaimInv' /\ CollectedInv'
  <2>1. CASE Referenced(SignerOf[s])
    BY <2>1, <1>e, <1>d DEF ClaimInv, CollectedInv
  <2>2. CASE ~Referenced(SignerOf[s])
    <3>1. ClaimInv'
      BY <2>2, <1>e, <1>d, <1>n DEF ClaimInv
    <3>2. /\ \A r \in (catalog \cup staged) \ Metadata : SignerOf[r] # SignerOf[s]
          /\ installed \in Sources => SignerOf[installed] # SignerOf[s]
      BY <2>2 DEF Referenced, CollectionInv, PackageInv
    <3>3. CollectedInv'
      BY <2>2, <1>e, <1>d, <1>s, <3>2 DEF CollectedInv
    <3> QED BY <3>1, <3>3
  <2> QED BY <2>1, <2>2
<1>5. PackageInv'
  BY <1>e DEF CollectionInv, PackageInv
<1>6. UsedIsCached'
  BY <1>e, <1>s DEF CollectionInv, UsedIsCached
<1> QED BY <1>1, <1>2, <1>3, <1>5, <1>6 DEF CollectionInv


LEMMA DiscoverNext ==
  ASSUME CollectionInv, NEW w \in Workers, DiscoverPackageGCObjects(w)
  PROVE  CollectionInv'
<1> DEFINE row == [gc[w] EXCEPT !.pc = "prepare", !.objects = {SignerOf[gc[w].src]} \cap live]
<1>e. /\ gc[w].pc = "discover"
      /\ gc' = [gc EXCEPT ![w].pc = "prepare", ![w].objects = {SignerOf[gc[w].src]} \cap live]
      /\ UNCHANGED <<live, catalog, staged, refresh, intent, fence, installed, packages,
                     installer, setting>>
  BY DEF DiscoverPackageGCObjects, refreshVars, installVars
<1>1. gc[w] \in WorkerRow /\ gc[w].src \in Sources
  BY <1>e DEF CollectionInv, RowsInv
<1>2. row \in WorkerRow /\ row.src \in Sources
  <2>1. {SignerOf[gc[w].src]} \cap live \in SUBSET Signers
    BY <1>1, SettingType DEF CollectionInv
  <2> QED BY <1>1, <2>1 DEF WorkerRow
<1>3. gc' = [gc EXCEPT ![w] = row]
  BY <1>e DEF CollectionInv, RowsInv
<1>4. RowsInv'
  <2>1. /\ gc' \in [Workers -> WorkerRow]
        /\ \A v \in Workers : gc'[v].pc # "idle" => gc'[v].src \in Sources
    BY <1>2, <1>3, WorkerMoves DEF CollectionInv
  <2> QED BY <1>e, <2>1 DEF CollectionInv, RowsInv
<1> QED BY <1>e, <1>4, CacheFrame DEF CollectionInv, RefreshInv

LEMMA PrepareNext ==
  ASSUME CollectionInv, NEW w \in Workers, PreparePackageGCObjects(w)
  PROVE  CollectionInv'
<1>e. /\ gc[w].pc = "prepare"
      /\ UNCHANGED <<live, catalog, staged, refresh, installed, packages, installer, setting>>
  BY DEF PreparePackageGCObjects, refreshVars, installVars
<1>1. gc[w] \in WorkerRow /\ gc[w].src \in Sources
  BY <1>e DEF CollectionInv, RowsInv
<1>2. CASE Claims(w)
  <2> DEFINE s == gc[w].src
             row == [intent[s] EXCEPT !.prepared = TRUE, !.objects = gc[w].objects]
             moved == [gc[w] EXCEPT !.pc = "mutate", !.prepared = TRUE]
  <2>1. /\ intent' = [intent EXCEPT ![s].prepared = TRUE, ![s].objects = gc[w].objects]
        /\ fence' = [fence EXCEPT !.expired = FALSE]
        /\ gc' = [gc EXCEPT ![w].pc = "mutate", ![w].prepared = TRUE]
    BY <1>2 DEF PreparePackageGCObjects
  <2>2. intent[s] \in IntentRow /\ gc[w].objects \in SUBSET Signers
    BY <1>1 DEF CollectionInv, RowsInv, WorkerRow
  <2>3. row \in IntentRow /\ row.tok = intent[s].tok
    BY <2>2 DEF IntentRow
  <2>4. intent' = [intent EXCEPT ![s] = row]
    BY <1>1, <2>1 DEF CollectionInv, RowsInv
  <2>5. /\ intent' \in [Sources -> IntentRow]
        /\ \A r \in Sources : intent'[r].tok = intent[r].tok
    BY <1>1, <2>3, <2>4 DEF CollectionInv, RowsInv
  <2>6. moved \in WorkerRow /\ moved.src \in Sources
    BY <1>1 DEF WorkerRow
  <2>7. gc' = [gc EXCEPT ![w] = moved]
    BY <2>1 DEF CollectionInv, RowsInv
  <2>8. /\ gc' \in [Workers -> WorkerRow]
        /\ \A v \in Workers : gc'[v].pc # "idle" => gc'[v].src \in Sources
    BY <2>6, <2>7, WorkerMoves DEF CollectionInv
  <2>9. fence' \in [tok : Workers \cup {NoOne}, expired : BOOLEAN] /\ fence'.tok = fence.tok
    BY <2>1 DEF CollectionInv, RowsInv
  <2>10. RowsInv'
    BY <1>e, <2>5, <2>8, <2>9 DEF CollectionInv, RowsInv
  <2> QED BY <1>e, <2>5, <2>9, <2>10, CacheFrame DEF CollectionInv, RefreshInv
<1>3. CASE ~Claims(w)
  <2>1. gc' = [gc EXCEPT ![w] = IdleGC] /\ UNCHANGED <<intent, fence>>
    BY <1>3 DEF PreparePackageGCObjects
  <2>2. RowsInv'
    <3>1. /\ gc' \in [Workers -> WorkerRow]
          /\ \A v \in Workers : gc'[v].pc # "idle" => gc'[v].src \in Sources
      BY <2>1, RowFields, WorkerMoves DEF CollectionInv
    <3> QED BY <1>e, <2>1, <3>1 DEF CollectionInv, RowsInv
  <2> QED BY <1>e, <2>1, <2>2, CacheFrame DEF CollectionInv, RefreshInv
<1> QED BY <1>2, <1>3

\* The directory of the claimed variant is the one of nobody else.
LEMMA RemovalIsUnused ==
  ASSUME CollectionInv, NEW w \in Workers, gc[w].pc # "idle", Fenced(w)
  PROVE  /\ gc[w].src \in Sources
         /\ \A r \in (catalog \cup staged) \ Metadata : SignerOf[r] # SignerOf[gc[w].src]
         /\ installed \in Sources => SignerOf[installed] # SignerOf[gc[w].src]
<1>1. gc[w].src \in Sources
  BY DEF CollectionInv, RowsInv
<1>2. intent[gc[w].src].tok # NoOne
  BY PackageGCConstants DEF Fenced, Claims
<1> QED BY <1>1, <1>2 DEF CollectionInv, CollectedInv

LEMMA MutateCacheNext ==
  ASSUME CollectionInv, NEW w \in Workers, MutateCache(w)
  PROVE  CollectionInv'
<1>e. /\ gc[w].pc = "mutate" /\ Fenced(w)
      /\ live' = live \/ live' = live \ {SignerOf[gc[w].src]}
      /\ fence' = [fence EXCEPT !.expired = FALSE]
      /\ gc' \in {[gc EXCEPT ![w].pc = "removed"], [gc EXCEPT ![w].pc = "failed"]}
      /\ UNCHANGED <<catalog, staged, refresh, intent, installed, packages, installer, setting>>
  BY DEF MutateCache, refreshVars, installVars
<1>1. /\ gc' \in [Workers -> WorkerRow]
      /\ \A v \in Workers : gc'[v].pc # "idle" => gc'[v].src \in Sources
  <2>1. \A pc \in {"removed", "failed"} :
          /\ [gc EXCEPT ![w].pc = pc] \in [Workers -> WorkerRow]
          /\ \A v \in Workers : [gc EXCEPT ![w].pc = pc][v].pc # "idle"
               => [gc EXCEPT ![w].pc = pc][v].src \in Sources
    BY <1>e, WorkerGoesOn DEF CollectionInv
  <2> QED BY <1>e, <2>1
<1>2. fence' \in [tok : Workers \cup {NoOne}, expired : BOOLEAN] /\ fence'.tok = fence.tok
  BY <1>e DEF CollectionInv, RowsInv
<1>3. RowsInv'
  BY <1>e, <1>1, <1>2 DEF CollectionInv, RowsInv
<1>4. /\ \A s \in (catalog \cup staged) \ Metadata : SignerOf[s] \in live => SignerOf[s] \in live'
      /\ installed \in Sources /\ SignerOf[installed] \in live => SignerOf[installed] \in live'
  BY <1>e, RemovalIsUnused
<1> QED BY <1>e, <1>2, <1>3, <1>4, CacheFrame DEF CollectionInv, RefreshInv

LEMMA MutationEndsNext ==
  ASSUME CollectionInv, NEW w \in Workers, NothingToMutate(w) \/ MutationRefused(w)
  PROVE  CollectionInv'
<1>e. /\ gc[w].pc = "mutate"
      /\ gc' \in {[gc EXCEPT ![w].pc = "removed"], [gc EXCEPT ![w].pc = "failed"]}
      /\ UNCHANGED <<live, catalog, staged, refresh, intent, fence, installed, packages,
                     installer, setting>>
  BY DEF NothingToMutate, MutationRefused, refreshVars, installVars
<1>1. /\ gc' \in [Workers -> WorkerRow]
      /\ \A v \in Workers : gc'[v].pc # "idle" => gc'[v].src \in Sources
  <2>1. \A pc \in {"removed", "failed"} :
          /\ [gc EXCEPT ![w].pc = pc] \in [Workers -> WorkerRow]
          /\ \A v \in Workers : [gc EXCEPT ![w].pc = pc][v].pc # "idle"
               => [gc EXCEPT ![w].pc = pc][v].src \in Sources
    BY <1>e, WorkerGoesOn DEF CollectionInv
  <2> QED BY <1>e, <2>1
<1>2. RowsInv'
  BY <1>e, <1>1 DEF CollectionInv, RowsInv
<1> QED BY <1>e, <1>2, CacheFrame DEF CollectionInv, RefreshInv

\* The row that goes is not the one of the installed plugin.
LEMMA CompleteNext ==
  ASSUME CollectionInv, NEW w \in Workers, CompletePackageGC(w)
  PROVE  CollectionInv'
<1>e. /\ gc[w].pc \in {"removed", "failed"} /\ gc' = [gc EXCEPT ![w] = IdleGC]
      /\ UNCHANGED <<live, catalog, staged, refresh, installed, installer, setting>>
  BY DEF CompletePackageGC, refreshVars
<1>g. /\ gc' \in [Workers -> WorkerRow]
      /\ \A v \in Workers : gc'[v].pc # "idle" => gc'[v].src \in Sources
  BY <1>e, RowFields, WorkerMoves DEF CollectionInv
<1>s. SignerOf' = SignerOf /\ Metadata' = Metadata
  BY <1>e, SettingStays
<1>1. CASE Fenced(w)
  <2> DEFINE s == gc[w].src
  <2>s. /\ s \in Sources /\ intent[s].tok # NoOne /\ intent[s] \in IntentRow
        /\ (installed \in Sources => installed # s)
    BY <1>1, <1>e, RemovalIsUnused, PackageGCConstants
       DEF Fenced, Claims, CollectionInv, RowsInv
  <2>f. fence' = FreeFence
    BY <1>1 DEF CompletePackageGC
  <2>i. /\ intent' \in [Sources -> IntentRow]
        /\ \A r \in Sources : intent'[r].tok = IF r = s THEN NoOne ELSE intent[r].tok
    <3>1. CASE intent' = [intent EXCEPT ![s] = NoIntent]
      BY <3>1, <2>s, RowFields DEF CollectionInv, RowsInv
    <3>2. CASE intent' = [intent EXCEPT ![s].st = "pending", ![s].tok = NoOne]
      <4> DEFINE row == [intent[s] EXCEPT !.st = "pending", !.tok = NoOne]
      <4>1. row \in IntentRow /\ row.tok = NoOne
        BY <2>s DEF IntentRow
      <4>2. intent' = [intent EXCEPT ![s] = row]
        BY <3>2, <2>s DEF CollectionInv, RowsInv
      <4> QED BY <4>1, <4>2, <2>s DEF CollectionInv, RowsInv
    <3> QED BY <1>1, <3>1, <3>2 DEF CompletePackageGC
  <2>p. packages' = packages \/ packages' = packages \ {s}
    BY <1>1 DEF CompletePackageGC
  <2>n. \A r \in Sources : intent'[r].tok = NoOne
    BY <2>s, <2>i DEF CollectionInv, ClaimInv
  <2>1. RowsInv'
    BY <1>e, <1>g, <2>f, <2>i, RowFields DEF CollectionInv, RowsInv
  <2>2. RefreshInv'
    BY <1>e, <1>s DEF CollectionInv, RefreshInv
  <2>3. ClaimInv' /\ CollectedInv'
    BY <2>n DEF ClaimInv, CollectedInv
  <2>4. PackageInv'
    BY <1>e, <2>s, <2>p DEF CollectionInv, PackageInv
  <2>5. UsedIsCached'
    BY <1>e, <1>s DEF CollectionInv, UsedIsCached
  <2> QED BY <2>1, <2>2, <2>3, <2>4, <2>5 DEF CollectionInv
<1>2. CASE ~Fenced(w)
  <2>1. UNCHANGED <<fence, intent, packages>>
    BY <1>2 DEF CompletePackageGC
  <2>2. RowsInv'
    BY <1>e, <1>g, <2>1 DEF CollectionInv, RowsInv
  <2> QED BY <1>e, <2>1, <2>2, CacheFrame DEF CollectionInv, RefreshInv
<1> QED BY <1>1, <1>2

LEMMA ClaimExpiresNext == CollectionInv /\ ClaimExpires => CollectionInv'
<1> SUFFICES ASSUME CollectionInv, ClaimExpires PROVE CollectionInv'
  OBVIOUS
<1>e. /\ fence' = [fence EXCEPT !.expired = TRUE]
      /\ UNCHANGED <<live, catalog, staged, refresh, intent, gc, installed, packages,
                     installer, setting>>
  BY DEF ClaimExpires, refreshVars, installVars
<1>1. fence' \in [tok : Workers \cup {NoOne}, expired : BOOLEAN] /\ fence'.tok = fence.tok
  BY <1>e DEF CollectionInv, RowsInv
<1>2. RowsInv'
  BY <1>e, <1>1 DEF CollectionInv, RowsInv
<1> QED BY <1>e, <1>1, <1>2, CacheFrame DEF CollectionInv, RefreshInv


----------------------------------------------------------------------------
(* The installation and the restart *)

LEMMA InstallerNext ==
  ASSUME CollectionInv,
         \/ \E s \in setting.sources : ResolvePackage(s)
         \/ AcquirePackage
         \/ ValidateCandidate
  PROVE  CollectionInv'
<1>e. /\ live \subseteq live'
      /\ UNCHANGED <<catalog, staged, refresh, intent, fence, gc, installed, packages, setting>>
  BY DEF ResolvePackage, AcquirePackage, ValidateCandidate, refreshVars
<1>1. installer' \in [pc : {"idle", "store", "check", "commit"}, src : Sources \cup {NoOne}]
  <2>1. installer \in [pc : {"idle", "store", "check", "commit"}, src : Sources \cup {NoOne}]
    BY DEF CollectionInv, RowsInv
  <2>2. CASE \E s \in setting.sources : ResolvePackage(s)
    BY <2>2, SettingType DEF ResolvePackage, CollectionInv
  <2>3. CASE AcquirePackage
    BY <2>1, <2>3 DEF AcquirePackage, IdleInstaller
  <2>4. CASE ValidateCandidate
    BY <2>1, <2>4 DEF ValidateCandidate, IdleInstaller
  <2> QED BY <2>2, <2>3, <2>4
<1>2. RowsInv'
  BY <1>e, <1>1 DEF CollectionInv, RowsInv
<1> QED BY <1>e, <1>2, CacheFrame DEF CollectionInv, RefreshInv

\* The transaction reads the catalog and the fence once more.
LEMMA InstallPluginNext == CollectionInv /\ InstallPlugin => CollectionInv'
<1> SUFFICES ASSUME CollectionInv, InstallPlugin PROVE CollectionInv'
  OBVIOUS
<1>e. /\ installer' = IdleInstaller
      /\ \/ /\ MayInstall /\ installed' = installer.src
            /\ packages' = packages \cup {installer.src}
         \/ UNCHANGED <<installed, packages>>
      /\ UNCHANGED <<live, catalog, staged, refresh, intent, fence, gc, setting>>
  BY DEF InstallPlugin, refreshVars
<1>s. SignerOf' = SignerOf /\ Metadata' = Metadata
  BY <1>e, SettingStays
<1>i. installer' \in [pc : {"idle", "store", "check", "commit"}, src : Sources \cup {NoOne}]
  BY <1>e DEF IdleInstaller
<1>1. CASE UNCHANGED <<installed, packages>>
  <2>1. RowsInv'
    BY <1>e, <1>i, <1>1 DEF CollectionInv, RowsInv
  <2> QED BY <1>e, <1>1, <2>1, CacheFrame DEF CollectionInv, RefreshInv
<1>2. CASE /\ MayInstall /\ installed' = installer.src
           /\ packages' = packages \cup {installer.src}
  <2>1. installer.src \in catalog /\ fence.tok = NoOne /\ catalog \subseteq Sources
    BY <1>2 DEF MayInstall, CollectionInv, RowsInv
  <2>2. RowsInv'
    BY <1>e, <1>i, <1>2, <2>1 DEF CollectionInv, RowsInv
  <2>3. RefreshInv'
    BY <1>e, <1>s DEF CollectionInv, RefreshInv
  <2>4. ClaimInv'
    BY <1>e DEF CollectionInv, ClaimInv
  <2>5. CollectedInv'
    BY <1>e, <2>1 DEF CollectionInv, ClaimInv, CollectedInv
  <2>6. PackageInv'
    BY <1>2 DEF PackageInv
  <2>7. UsedIsCached'
    BY <1>e, <1>s, <1>2, <2>1 DEF CollectionInv, UsedIsCached
  <2> QED BY <2>2, <2>3, <2>4, <2>5, <2>6, <2>7 DEF CollectionInv
<1> QED BY <1>e, <1>1, <1>2

LEMMA UninstallPluginNext == CollectionInv /\ UninstallPlugin => CollectionInv'
<1> SUFFICES ASSUME CollectionInv, UninstallPlugin PROVE CollectionInv'
  OBVIOUS
<1>e. /\ installed' = NoOne /\ NoOne \notin Sources
      /\ UNCHANGED <<live, catalog, staged, refresh, intent, fence, gc, packages, installer,
                     setting>>
  BY PackageGCConstants DEF UninstallPlugin, refreshVars
<1>s. SignerOf' = SignerOf /\ Metadata' = Metadata
  BY <1>e, SettingStays
<1>1. RowsInv'
  BY <1>e DEF CollectionInv, RowsInv
<1>2. RefreshInv'
  BY <1>e, <1>s DEF CollectionInv, RefreshInv
<1>3. ClaimInv' /\ CollectedInv'
  <2>1. (catalog' \cup staged') \ Metadata \subseteq (catalog \cup staged) \ Metadata
    BY <1>e
  <2>2. \A r \in Sources : intent'[r].tok \in {NoOne, intent[r].tok}
    BY <1>e
  <2> QED BY <1>e, <2>1, <2>2, ClaimsDropped DEF CollectionInv
<1>4. PackageInv'
  BY <1>e DEF PackageInv
<1>5. UsedIsCached'
  BY <1>e, <1>s DEF CollectionInv, UsedIsCached
<1> QED BY <1>1, <1>2, <1>3, <1>4, <1>5 DEF CollectionInv

\* Between the rename to the quarantine and the end of the transaction.
LEMMA CrashNext == CollectionInv /\ Crash => CollectionInv'
<1> SUFFICES ASSUME CollectionInv, Crash PROVE CollectionInv'
  OBVIOUS
<1>e. /\ gc' = [w \in Workers |-> IdleGC] /\ installer' = IdleInstaller
      /\ refresh' = [s \in Sources |-> "none"]
      /\ \/ live' = live
         \/ \E w \in Workers : /\ gc[w].pc = "mutate" /\ Fenced(w)
                               /\ live' = live \ {SignerOf[gc[w].src]}
      /\ UNCHANGED <<catalog, staged, intent, fence, installed, packages, setting>>
  BY DEF Crash
<1>1. RowsInv'
  BY <1>e, RowFields DEF CollectionInv, RowsInv, IdleInstaller
<1>2. /\ \A s \in (catalog \cup staged) \ Metadata : SignerOf[s] \in live => SignerOf[s] \in live'
      /\ installed \in Sources /\ SignerOf[installed] \in live => SignerOf[installed] \in live'
  BY <1>e, RemovalIsUnused
<1> QED BY <1>e, <1>1, <1>2, CacheFrame

----------------------------------------------------------------------------
(* The invariant, and what is used *)

LEMMA CollectionInit == Init => CollectionInv
<1> SUFFICES ASSUME Init PROVE CollectionInv
  OBVIOUS
<1>1. RowsInv
  BY RowFields, PackageGCConstants DEF Init, RowsInv, IdleInstaller
<1>2. RefreshInv
  BY DEF Init, RefreshInv
<1>3. ClaimInv /\ CollectedInv
  BY DEF Init, ClaimInv, CollectedInv, NoIntent
<1>4. PackageInv /\ UsedIsCached
  BY PackageGCConstants DEF Init, PackageInv, UsedIsCached
<1> QED BY <1>1, <1>2, <1>3, <1>4 DEF CollectionInv

\* Every step keeps the invariant.
LEMMA CollectionNext == CollectionInv /\ [Next]_vars => CollectionInv'
<1> SUFFICES ASSUME CollectionInv, [Next]_vars PROVE CollectionInv'
  OBVIOUS
<1>s. setting.sources \subseteq Sources /\ setting.workers \subseteq Workers
  BY SettingType DEF CollectionInv
<1>1. ASSUME NEW s \in setting.sources,
             \/ StagePackageAcquisition(s) \/ PublishPackageAcquisition(s)
             \/ PromoteWith(s) \/ PromoteWithout(s) \/ AbortRefresh(s)
             \/ ResolvePackage(s)
      PROVE  CollectionInv'
  BY <1>s, <1>1, StageNext, PublishNext, PromoteWithNext, PromoteWithoutNext,
     AbortRefreshNext, InstallerNext
<1>2. ASSUME NEW w \in setting.workers, GCStep(w) PROVE CollectionInv'
  BY <1>s, <1>2, ClaimNext, DiscoverNext, PrepareNext, MutateCacheNext, MutationEndsNext,
     CompleteNext DEF GCStep
<1>3. CASE \/ ClaimExpires \/ AcquirePackage \/ ValidateCandidate \/ InstallPlugin
           \/ UninstallPlugin \/ Crash
  BY <1>3, ClaimExpiresNext, InstallerNext, InstallPluginNext, UninstallPluginNext, CrashNext
<1>4. CASE UNCHANGED vars
  <2>1. UNCHANGED <<live, catalog, staged, refresh, intent, fence, gc, installed, packages,
                    installer, setting>>
    BY <1>4 DEF vars
  <2>2. RowsInv'
    BY <2>1 DEF CollectionInv, RowsInv
  <2> QED BY <2>1, <2>2, CacheFrame DEF CollectionInv, RefreshInv
<1> QED BY <1>1, <1>2, <1>3, <1>4 DEF Next

\* The invariant of the collection holds for every mixture of refreshes,
\* installations, collections, expiries and restarts
\* (storage/plugin_store.go: ClaimPackageGC, WithPackageGCMutation).
THEOREM CollectionInvariance == Spec => []CollectionInv
<1> QED BY CollectionInit, CollectionNext, PTL DEF Spec

\* A package that is installed, or that a catalog with packages offers, is in the
\* cache: no collection takes it away, although it looks at the references and
\* removes the directory in two steps (WithPackageGCMutation, InstallPlugin).
THEOREM CacheSafety == Spec => []UsedIsCached
<1>1. CollectionInv => UsedIsCached
  BY DEF CollectionInv
<1> QED BY <1>1, CollectionInvariance, PTL

=============================================================================
