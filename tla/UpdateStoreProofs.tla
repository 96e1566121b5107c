------------------------- MODULE UpdateStoreProofs -------------------------
(***************************************************************************)
(* Proofs about the package store of the agent, for every set of packages, *)
(* versions and faults: nothing that may still be needed is reclaimed, and *)
(* wherever a crash or a failed write hits, the executable is one that the *)
(* pointers know.                                                          *)
(*                                                                         *)
(* A call is a list of writes, so that the invariant says what holds       *)
(* before each of them: SafetyInv is inductive because the plan of a call  *)
(* is always one of a few (Plans), and because each write of a plan        *)
(* leaves what the next one relies on (StageHolds to BackHolds).           *)
(***************************************************************************)
EXTENDS UpdateStore, TLAPS

----------------------------------------------------------------------------
(* The inductive invariant *)

\* The calls of Stage, by what is left to do.
StagePlans ==
  {<<"cleanup", "lookup">>, <<"lookup">>, <<"download", "manifest">>,
   <<"manifest">>}

\* An activation that looks for its baseline.
BasePlans ==
  {<<"binary", "imported", "decide">>, <<"imported", "decide">>, <<"decide">>,
   <<"reconcile", "decide">>}

\* An activation that goes forward.
ForwardPlans ==
  {ActivatePlan, <<"current", "promote", "exec">>, <<"promote", "exec">>,
   <<"exec">>}

\* An activation that goes back.
BackPlans ==
  {UndoPlan, <<"undo_current", "undo_previous">>, <<"undo_previous">>,
   <<"undo_current">>}

\* Nothing, cleanup alone, Stage or Activate.
Plans ==
  {<<>>, <<"cleanup">>} \union StagePlans \union BasePlans
    \union ForwardPlans \union BackPlans

\* What is on disk, running and under way, by type.
TypeOK ==
  /\ files \in [Packages -> SUBSET {"dir", "binary", "manifest", "temp"}]
  /\ current \in Pointer \union {NoPointer}
  /\ previous \in Pointer \union {NoPointer}
  /\ installed \in Packages
  /\ replaced \in BOOLEAN
  /\ worker \in [image : Packages, entry : BOOLEAN]
  /\ parents \subseteq Packages
  /\ aged \subseteq Packages
  /\ staged \in Packages \union {NoPackage}
  /\ mgr \in [todo : Plans, pkg : Packages \union {NoPackage},
              version : Versions \union {""},
              base : Pointer \union {NoPointer}, victims : SUBSET Packages]

\* A file is in a directory; what cleanup removes has no temporary file.
DirectoriesHold ==
  /\ \A p \in Packages : files[p] = {} \/ "dir" \in files[p]
  /\ \A p \in mgr.victims : files[p] \subseteq Full

\* Cleanup is the only call with victims, and none of them is needed.
VictimsAreObsolete ==
  /\ mgr.victims # {} => mgr.todo \in {<<"cleanup">>, <<"cleanup", "lookup">>}
  /\ mgr.victims \intersect Needed = {}

\* Both pointers lead to a package that can be read.
PointersLoad ==
  \A q \in {current, previous} \ {NoPointer} : Readable(q.pkg)

\* A pointer names the executable, unless it came from outside.
SomePointerNames ==
  ~replaced /\ {current, previous} # {NoPointer}
    => \E q \in {current, previous} \ {NoPointer} : q.pkg = installed

\* What is staged, or in a call, is not what runs here.
StagedIsPending == staged # worker.image /\ mgr.pkg # worker.image

\* Before the first activation the worker is the one the service started, from
\* the executable as it is.
FirstStart ==
  current = NoPointer /\ ~replaced
    => worker.entry /\ (previous = NoPointer => worker.image = installed)

\* The directory that a Stage is filling.
StageHolds ==
  mgr.todo \in StagePlans =>
    /\ mgr.pkg \in Packages
    /\ mgr.todo = <<"download", "manifest">> => files[mgr.pkg] \subseteq {"dir"}
    /\ mgr.todo = <<"manifest">> => {"dir", "binary"} \subseteq files[mgr.pkg]

\* The baseline describes the executable, unless that came from outside.
BaseNames == ~replaced => mgr.base.pkg = installed

\* Both pointers of an activation are written.
BothWritten == previous = mgr.base /\ current = NextPointer

\* The package to install and the baseline can be read, the second from when
\* its import is over.
ActivateReads ==
  mgr.todo \in BasePlans \union ForwardPlans \union BackPlans =>
    /\ mgr.pkg \in Packages
    /\ Readable(mgr.pkg)
    /\ mgr.base \in Pointer
    /\ mgr.todo = <<"binary", "imported", "decide">>
         => files[mgr.base.pkg] \subseteq {"dir"}
    /\ mgr.todo = <<"imported", "decide">>
         => {"dir", "binary"} \subseteq files[mgr.base.pkg]
    /\ mgr.todo \notin {<<"binary", "imported", "decide">>,
                        <<"imported", "decide">>}
         => Readable(mgr.base.pkg)

\* The baseline and the pointers, before the activation decides.
BaseHolds ==
  mgr.todo \in BasePlans =>
    /\ BaseNames
    /\ IF mgr.todo = <<"reconcile", "decide">>
         THEN mgr.base = previous
         ELSE /\ current = mgr.base \/ mgr.base.pkg = installed \/ Changed
              /\ current = NoPointer => previous = NoPointer

\* The pointers and the executable, at each write of an activation.
ForwardHolds ==
  /\ mgr.todo = ActivatePlan => BaseNames /\ Changed
  /\ mgr.todo = <<"current", "promote", "exec">>
       => BaseNames /\ (Changed => previous = mgr.base)
  /\ mgr.todo = <<"promote", "exec">>
       => /\ BaseNames
          /\ Changed => BothWritten
          /\ \/ current # NoPointer /\ current.pkg = mgr.pkg
             \/ ~Changed /\ mgr.base.pkg = installed
          /\ current = NoPointer => previous = NoPointer /\ replaced
  /\ mgr.todo = <<"exec">>
       => /\ installed = mgr.pkg
          /\ Changed => BothWritten
          /\ current = NoPointer => replaced

\* The pointers and the executable, at each write that undoes one.
BackHolds ==
  /\ mgr.todo = UndoPlan => Changed /\ BothWritten
  /\ mgr.todo = <<"undo_current", "undo_previous">>
       => Changed /\ previous = mgr.base /\ installed = mgr.base.pkg
  /\ mgr.todo = <<"undo_previous">>
       => Changed /\ current = mgr.base /\ installed = mgr.base.pkg
  /\ mgr.todo = <<"undo_current">> => ~Changed /\ BaseNames

SafetyInv ==
  /\ TypeOK
  /\ DirectoriesHold
  /\ VictimsAreObsolete
  /\ PointersLoad
  /\ SomePointerNames
  /\ StagedIsPending
  /\ FirstStart
  /\ StageHolds
  /\ ActivateReads
  /\ BaseHolds
  /\ ForwardHolds
  /\ BackHolds

----------------------------------------------------------------------------
(* Calls and plans *)

\* The version of a pointer, and that of an imported package.
AnyVersion == Versions \union {""}
Unversioned == ""

\* A pointer is a package and a version; no package and no pointer are neither.
LEMMA PointerType ==
  /\ Pointer = [pkg : Packages, version : AnyVersion]
  /\ NoPointer \notin Pointer
  /\ NoPackage \notin Packages
  /\ Versions \subseteq AnyVersion
  /\ Unversioned \in AnyVersion
BY NothingAssumption, Zenon DEF Pointer, AnyVersion, Unversioned

\* What a manager that is not called holds.
LEMMA NoCallIs ==
  NoCall = [todo |-> <<>>, pkg |-> NoPackage, version |-> Unversioned,
            base |-> NoPointer, victims |-> {}]
BY Zenon DEF NoCall, Unversioned

\* What a directory may hold.
Directories == SUBSET {"dir", "binary", "manifest", "temp"}

\* What a cleanup may be asked to remove.
Removals == SUBSET Packages

\* The type of a call.
Calls == [todo : Plans, pkg : Packages \union {NoPackage},
          version : AnyVersion, base : Pointer \union {NoPointer},
          victims : Removals]

\* TypeOK with the type of a call by its name.
LEMMA TypeIs ==
  TypeOK <=>
    /\ files \in [Packages -> Directories]
    /\ current \in Pointer \union {NoPointer}
    /\ previous \in Pointer \union {NoPointer}
    /\ installed \in Packages
    /\ replaced \in BOOLEAN
    /\ worker \in [image : Packages, entry : BOOLEAN]
    /\ parents \subseteq Packages
    /\ aged \subseteq Packages
    /\ staged \in Packages \union {NoPackage}
    /\ mgr \in Calls
BY Zenon DEF TypeOK, Calls, Removals, AnyVersion, Directories

\* The same after a step.
LEMMA TypeIsNext ==
  TypeOK' <=>
    /\ files' \in [Packages -> Directories]
    /\ current' \in Pointer \union {NoPointer}
    /\ previous' \in Pointer \union {NoPointer}
    /\ installed' \in Packages
    /\ replaced' \in BOOLEAN
    /\ worker' \in [image : Packages, entry : BOOLEAN]
    /\ parents' \subseteq Packages
    /\ aged' \subseteq Packages
    /\ staged' \in Packages \union {NoPackage}
    /\ mgr' \in Calls
BY Zenon DEF TypeOK, Calls, Removals, AnyVersion, Directories

\* A manager that is not called is a call of that type.
LEMMA NoCallType == NoCall \in Calls
<1>1. <<>> \in Plans /\ Unversioned \in AnyVersion
  BY PointerType, Zenon DEF Plans
<1> QED BY <1>1, NoCallIs, SMT DEF Calls, Removals

\* The plans a step belongs to.
LEMMA PlansOf ==
  ASSUME mgr.todo \in Plans
  PROVE  /\ At("cleanup") => mgr.todo \in {<<"cleanup">>, <<"cleanup", "lookup">>}
         /\ At("lookup") => mgr.todo = <<"lookup">>
         /\ At("download") => mgr.todo = <<"download", "manifest">>
         /\ At("manifest") => mgr.todo = <<"manifest">>
         /\ At("binary") => mgr.todo = <<"binary", "imported", "decide">>
         /\ At("imported") => mgr.todo = <<"imported", "decide">>
         /\ At("decide") => mgr.todo = <<"decide">>
         /\ At("reconcile") => mgr.todo = <<"reconcile", "decide">>
         /\ At("previous") => mgr.todo = ActivatePlan
         /\ At("current") => mgr.todo = <<"current", "promote", "exec">>
         /\ At("promote") => mgr.todo = <<"promote", "exec">>
         /\ At("exec") => mgr.todo = <<"exec">>
         /\ At("undo_promote") => mgr.todo = UndoPlan
         /\ At("undo_current") => mgr.todo \in {<<"undo_current", "undo_previous">>, <<"undo_current">>}
         /\ At("undo_previous") => mgr.todo = <<"undo_previous">>
<1>1. CASE mgr.todo \in {<<>>, <<"cleanup">>} \union StagePlans
  BY <1>1, SMT DEF At, StagePlans, ActivatePlan, UndoPlan
<1>2. CASE mgr.todo \in BasePlans
  BY <1>2, SMT DEF At, BasePlans, ActivatePlan, UndoPlan
<1>3. CASE mgr.todo \in ForwardPlans
  BY <1>3, SMT DEF At, ForwardPlans, ActivatePlan, UndoPlan
<1>4. CASE mgr.todo \in BackPlans
  BY <1>4, SMT DEF At, BackPlans, ActivatePlan, UndoPlan
<1> QED BY <1>1, <1>2, <1>3, <1>4, Zenon DEF Plans

\* What is left of each plan after its first step.
LEMMA PlanGoesOn ==
  /\ Len(<<"cleanup">>) = 1
  /\ Len(<<"cleanup", "lookup">>) = 2 /\ Tail(<<"cleanup", "lookup">>) = <<"lookup">>
  /\ Len(<<"download", "manifest">>) = 2 /\ Tail(<<"download", "manifest">>) = <<"manifest">>
  /\ Len(<<"manifest">>) = 1
  /\ Len(<<"binary", "imported", "decide">>) = 3
  /\ Tail(<<"binary", "imported", "decide">>) = <<"imported", "decide">>
  /\ Len(<<"imported", "decide">>) = 2 /\ Tail(<<"imported", "decide">>) = <<"decide">>
  /\ Len(<<"reconcile", "decide">>) = 2 /\ Tail(<<"reconcile", "decide">>) = <<"decide">>
  /\ Len(ActivatePlan) = 4 /\ Tail(ActivatePlan) = <<"current", "promote", "exec">>
  /\ Len(<<"current", "promote", "exec">>) = 3
  /\ Tail(<<"current", "promote", "exec">>) = <<"promote", "exec">>
  /\ Len(<<"promote", "exec">>) = 2 /\ Tail(<<"promote", "exec">>) = <<"exec">>
  /\ Len(UndoPlan) = 3 /\ Tail(UndoPlan) = <<"undo_current", "undo_previous">>
  /\ Len(<<"undo_current", "undo_previous">>) = 2
  /\ Tail(<<"undo_current", "undo_previous">>) = <<"undo_previous">>
  /\ Len(<<"undo_previous">>) = 1
  /\ Len(<<"undo_current">>) = 1
BY SMT DEF ActivatePlan, UndoPlan

\* The call goes on with the rest of its plan, and with nothing else changed.
LEMMA AdvanceIs ==
  ASSUME mgr \in Calls, Advance,
         NEW rest, Tail(mgr.todo) = rest, Len(mgr.todo) # 1
  PROVE  mgr' = [mgr EXCEPT !.todo = rest]
BY Zenon DEF Advance

\* The last step of a plan ends the call.
LEMMA AdvanceEnds == ASSUME Advance, Len(mgr.todo) = 1 PROVE mgr' = NoCall
BY Zenon DEF Advance

\* The parts of a call with another plan.
LEMMA WithPlan ==
  ASSUME NEW m \in Calls, NEW x \in Plans, NEW n, n = [m EXCEPT !.todo = x]
  PROVE  /\ n \in Calls /\ n.todo = x
         /\ n.pkg = m.pkg /\ n.version = m.version
         /\ n.base = m.base /\ n.victims = m.victims
BY SMT DEF Calls

\* The parts of a call with another package.
LEMMA WithPackage ==
  ASSUME NEW m \in Calls, NEW x \in Packages, NEW n, n = [m EXCEPT !.pkg = x]
  PROVE  /\ n \in Calls /\ n.pkg = x
         /\ n.todo = m.todo /\ n.version = m.version
         /\ n.base = m.base /\ n.victims = m.victims
BY SMT DEF Calls

\* The parts of a call with another version.
LEMMA WithVersion ==
  ASSUME NEW m \in Calls, NEW x \in AnyVersion, NEW n, n = [m EXCEPT !.version = x]
  PROVE  /\ n \in Calls /\ n.version = x
         /\ n.todo = m.todo /\ n.pkg = m.pkg
         /\ n.base = m.base /\ n.victims = m.victims
BY SMT DEF Calls

\* The parts of a call with another baseline.
LEMMA WithBase ==
  ASSUME NEW m \in Calls, NEW x \in Pointer, NEW n, n = [m EXCEPT !.base = x]
  PROVE  /\ n \in Calls /\ n.base = x
         /\ n.todo = m.todo /\ n.pkg = m.pkg
         /\ n.version = m.version /\ n.victims = m.victims
BY SMT DEF Calls

\* The parts of a call with other victims.
LEMMA WithVictims ==
  ASSUME NEW m \in Calls, NEW x \in Removals, NEW n, n = [m EXCEPT !.victims = x]
  PROVE  /\ n \in Calls /\ n.victims = x
         /\ n.todo = m.todo /\ n.pkg = m.pkg
         /\ n.version = m.version /\ n.base = m.base
BY SMT DEF Calls

\* The parts of no call.
LEMMA NoCallParts ==
  /\ NoCall \in Calls
  /\ NoCall.todo = <<>> /\ NoCall.pkg = NoPackage /\ NoCall.base = NoPointer
  /\ NoCall.victims = {}
BY NoCallIs, NoCallType, SMT

\* A call that begins with a cleanup, by its parts.
LEMMA CleanupCall ==
  ASSUME NEW todo \in Plans, NEW victims \in Removals,
         mgr' = [NoCall EXCEPT !.todo = todo, !.victims = victims]
  PROVE  /\ mgr' \in Calls
         /\ mgr'.todo = todo /\ mgr'.victims = victims /\ mgr'.pkg = NoPackage
<1>1. PICK m : m = [NoCall EXCEPT !.todo = todo]
  OBVIOUS
<1>2. m \in Calls /\ m.todo = todo /\ m.pkg = NoPackage
  BY <1>1, NoCallParts, WithPlan, SMT
<1>3. PICK next : next = mgr'
  OBVIOUS
<1>4. next = [m EXCEPT !.victims = victims]
  BY <1>3, <1>1, Zenon
<1>5. /\ next \in Calls
      /\ next.todo = todo /\ next.victims = victims /\ next.pkg = NoPackage
  BY <1>2, <1>4, WithVictims, SMT
<1> QED BY <1>3, <1>5, Zenon

\* The call of Stage, by its parts.
LEMMA StageCall ==
  ASSUME NEW todo \in Plans, NEW victims \in Removals,
         NEW p \in Packages,
         mgr' = [NoCall EXCEPT !.todo = todo, !.pkg = p, !.victims = victims]
  PROVE  /\ mgr' \in Calls
         /\ mgr'.todo = todo /\ mgr'.victims = victims /\ mgr'.pkg = p
<1>1. PICK m : m = [NoCall EXCEPT !.todo = todo]
  OBVIOUS
<1>2. m \in Calls /\ m.todo = todo
  BY <1>1, NoCallParts, WithPlan, SMT
<1>3. PICK n : n = [m EXCEPT !.pkg = p]
  OBVIOUS
<1>4. n \in Calls /\ n.todo = todo /\ n.pkg = p
  BY <1>2, <1>3, WithPackage, SMT
<1>5. PICK next : next = mgr'
  OBVIOUS
<1>6. next = [n EXCEPT !.victims = victims]
  BY <1>5, <1>1, <1>3, Zenon
<1>7. /\ next \in Calls
      /\ next.todo = todo /\ next.victims = victims /\ next.pkg = p
  BY <1>4, <1>6, WithVictims, SMT
<1> QED BY <1>5, <1>7, Zenon

\* The call of Activate, by its parts.
LEMMA ActivateCall ==
  ASSUME NEW todo \in Plans, NEW p \in Packages, NEW v \in Versions,
         NEW base \in Pointer,
         mgr' = [NoCall EXCEPT !.todo = todo, !.pkg = p, !.version = v,
                               !.base = base]
  PROVE  /\ mgr' \in Calls
         /\ mgr'.todo = todo /\ mgr'.pkg = p /\ mgr'.base = base
         /\ mgr'.victims = {}
<1>1. PICK m : m = [NoCall EXCEPT !.todo = todo]
  OBVIOUS
<1>2. m \in Calls /\ m.todo = todo /\ m.victims = {}
  BY <1>1, NoCallParts, WithPlan, SMT
<1>3. PICK n : n = [m EXCEPT !.pkg = p]
  OBVIOUS
<1>4. n \in Calls /\ n.todo = todo /\ n.pkg = p /\ n.victims = {}
  BY <1>2, <1>3, WithPackage, SMT
<1>5. PICK o : o = [n EXCEPT !.version = v]
  OBVIOUS
<1>6. o \in Calls /\ o.todo = todo /\ o.pkg = p /\ o.victims = {}
  BY <1>4, <1>5, WithVersion, PointerType, SMT
<1>7. PICK next : next = mgr'
  OBVIOUS
<1>8. next = [o EXCEPT !.base = base]
  BY <1>7, <1>1, <1>3, <1>5, Zenon
<1>9. /\ next \in Calls
      /\ next.todo = todo /\ next.pkg = p /\ next.base = base
      /\ next.victims = {}
  BY <1>6, <1>8, WithBase, SMT
<1> QED BY <1>7, <1>9, Zenon

\* A call that goes on with the plan todo, by its parts.
LEMMA CallGoesOn ==
  ASSUME mgr \in Calls, NEW todo \in Plans, NEW victims \in Removals,
         mgr' = [mgr EXCEPT !.todo = todo, !.victims = victims]
  PROVE  /\ mgr' \in Calls
         /\ mgr'.todo = todo /\ mgr'.pkg = mgr.pkg /\ mgr'.victims = victims
<1>1. PICK m : m = [mgr EXCEPT !.todo = todo]
  OBVIOUS
<1>2. m \in Calls /\ m.todo = todo /\ m.pkg = mgr.pkg
  BY <1>1, WithPlan, SMT
<1>3. PICK next : next = mgr'
  OBVIOUS
<1>4. next = [m EXCEPT !.victims = victims]
  BY <1>3, <1>1, Zenon
<1>5. /\ next \in Calls
      /\ next.todo = todo /\ next.pkg = mgr.pkg /\ next.victims = victims
  BY <1>2, <1>4, WithVictims, SMT
<1> QED BY <1>3, <1>5, Zenon

\* The same with the victims of the call as they are.
LEMMA PlanChanges ==
  ASSUME mgr \in Calls, NEW todo \in Plans,
         mgr' = [mgr EXCEPT !.todo = todo]
  PROVE  /\ mgr' \in Calls
         /\ mgr'.todo = todo /\ mgr'.pkg = mgr.pkg /\ mgr'.version = mgr.version
         /\ mgr'.base = mgr.base /\ mgr'.victims = mgr.victims
BY SMT DEF Calls

\* The plan of the call is one of the plans.
LEMMA PlanIs == ASSUME SafetyInv PROVE mgr \in Calls /\ mgr.todo \in Plans
<1>1. mgr \in Calls
  BY TypeIs, Zenon DEF SafetyInv
<1> QED BY <1>1, SMT DEF Calls

\* A plan is of one kind.
LEMMA PlansDiffer ==
  ASSUME NEW todo
  PROVE  /\ todo \in {<<>>, <<"cleanup">>} \union StagePlans
              => todo \notin BasePlans \union ForwardPlans \union BackPlans
         /\ todo \in BasePlans => todo \notin ForwardPlans \union BackPlans
         /\ todo \in ForwardPlans => todo \notin BackPlans
<1>1. CASE todo \in {<<>>, <<"cleanup">>} \union StagePlans
  <2>1. todo \notin BasePlans
    BY <1>1, SMT DEF StagePlans, BasePlans
  <2>2. todo \notin ForwardPlans
    BY <1>1, SMT DEF StagePlans, ForwardPlans, ActivatePlan
  <2>3. todo \notin BackPlans
    BY <1>1, SMT DEF StagePlans, BackPlans, UndoPlan
  <2> QED BY <2>1, <2>2, <2>3, Zenon
<1>2. todo \in BasePlans => todo \notin ForwardPlans
  BY SMT DEF BasePlans, ForwardPlans, ActivatePlan
<1>3. todo \in BasePlans => todo \notin BackPlans
  BY SMT DEF BasePlans, BackPlans, UndoPlan
<1>4. todo \in ForwardPlans => todo \notin BackPlans
  BY SMT DEF ForwardPlans, BackPlans, ActivatePlan, UndoPlan
<1> QED BY <1>1, <1>2, <1>3, <1>4, Zenon

\* A manager that is idle, cleans up or stages holds nothing of an activation.
LEMMA NotActivating ==
  ASSUME mgr'.todo \in {<<>>, <<"cleanup">>} \union StagePlans
  PROVE  (ActivateReads /\ BaseHolds /\ ForwardHolds /\ BackHolds)'
<1>1. mgr'.todo \notin BasePlans \union ForwardPlans \union BackPlans
  BY PlansDiffer, Zenon
<1>2. ActivateReads' /\ BaseHolds'
  BY <1>1, Zenon DEF ActivateReads, BaseHolds
<1>3. ForwardHolds'
  BY <1>1, Zenon DEF ForwardHolds, ForwardPlans
<1>4. BackHolds'
  BY <1>1, Zenon DEF BackHolds, BackPlans
<1> QED BY <1>2, <1>3, <1>4, Zenon

\* An activation is no Stage, and has no victims.
LEMMA Activating ==
  ASSUME mgr'.todo \in BasePlans \union ForwardPlans \union BackPlans,
         mgr'.victims = {}
  PROVE  (StageHolds /\ VictimsAreObsolete)'
<1>1. mgr'.todo \notin StagePlans
  BY PlansDiffer, Zenon
<1> QED BY <1>1, Zenon DEF StageHolds, VictimsAreObsolete

\* A call that is over leaves nothing under way.
LEMMA CallOver ==
  ASSUME mgr' = NoCall
  PROVE  /\ mgr' \in Calls /\ mgr'.victims = {} /\ mgr'.pkg = NoPackage
         /\ (StageHolds /\ ActivateReads /\ BaseHolds /\ ForwardHolds /\ BackHolds)'
         /\ VictimsAreObsolete'
<1>1. mgr'.todo = <<>> /\ mgr'.victims = {} /\ mgr'.pkg = NoPackage
  BY NoCallIs, SMT
<1>2. (ActivateReads /\ BaseHolds /\ ForwardHolds /\ BackHolds)'
  BY <1>1, NotActivating, Zenon
<1>3. <<>> \notin StagePlans
  BY SMT DEF StagePlans
<1>4. StageHolds' /\ VictimsAreObsolete'
  BY <1>1, <1>3, Zenon DEF StageHolds, VictimsAreObsolete
<1> QED BY <1>1, <1>2, <1>4, NoCallType, Zenon

\* A call that returns, with the disk and the processes as they are.
LEMMA ReturnKeeps ==
  ASSUME SafetyInv, mgr' = NoCall, UNCHANGED <<disk, worker, parents, staged>>
  PROVE  SafetyInv'
<1>1. /\ mgr' \in Calls /\ mgr'.victims = {} /\ mgr'.pkg = NoPackage
      /\ (StageHolds /\ ActivateReads /\ BaseHolds /\ ForwardHolds /\ BackHolds)'
      /\ VictimsAreObsolete'
  BY CallOver, Zenon DEF SafetyInv
<1>2. TypeOK'
  BY <1>1, TypeIs, TypeIsNext, Zenon DEF SafetyInv, disk
<1>3. DirectoriesHold'
  BY <1>1, SMT DEF SafetyInv, DirectoriesHold, disk
<1>4. PointersLoad' /\ SomePointerNames' /\ FirstStart'
  BY SMT DEF SafetyInv, PointersLoad, SomePointerNames, FirstStart, disk, Readable
<1>5. StagedIsPending'
  BY <1>1, TypeIs, PointerType, SMT DEF SafetyInv, StagedIsPending
<1> QED BY <1>1, <1>2, <1>3, <1>4, <1>5, Zenon DEF SafetyInv

----------------------------------------------------------------------------
(* The steps of cleanup *)

\* CleanupPackages and Stage choose victims that nothing needs.
LEMMA ObsoleteIsNotNeeded ==
  ASSUME SafetyInv, NEW target
  PROVE  /\ Obsolete(target) \subseteq Packages
         /\ Obsolete(target) \intersect Needed = {}
         /\ \A p \in Obsolete(target) : files[p] = Full
<1>1. /\ aged \subseteq Packages
      /\ \A q \in {current, previous} \ {NoPointer} : Loads(q)
  BY TypeIs, Zenon DEF SafetyInv, Loads, PointersLoad
<1> QED BY <1>1, SMT DEF Obsolete, Keep, Needed

\* A call that cleans up begins, and nothing is touched yet.
LEMMA CleanupBegins ==
  ASSUME SafetyInv, UNCHANGED <<disk, worker, parents, staged>>,
         NEW target, mgr' \in Calls, mgr'.victims = Obsolete(target),
         mgr'.todo \in {<<"cleanup">>, <<"cleanup", "lookup">>},
         mgr'.todo = <<"cleanup", "lookup">> => mgr'.pkg \in Packages,
         mgr'.pkg # worker.image
  PROVE  SafetyInv'
<1>1. TypeOK'
  BY TypeIs, TypeIsNext, Zenon DEF SafetyInv, disk
<1>2. mgr'.todo \in {<<>>, <<"cleanup">>} \union StagePlans
  BY Zenon DEF StagePlans
<1>3. (ActivateReads /\ BaseHolds /\ ForwardHolds /\ BackHolds)'
  BY <1>2, NotActivating, Zenon
<1>4. StageHolds'
  BY SMT DEF StageHolds, StagePlans
<1>5. UNCHANGED Needed
  BY SMT DEF Needed, Running, disk
<1>6. DirectoriesHold' /\ VictimsAreObsolete'
  BY <1>5, ObsoleteIsNotNeeded, SMT DEF SafetyInv, DirectoriesHold, VictimsAreObsolete, disk
<1>7. PointersLoad' /\ SomePointerNames' /\ FirstStart' /\ StagedIsPending'
  BY SMT DEF SafetyInv, PointersLoad, SomePointerNames, FirstStart, StagedIsPending, disk, Readable
<1> QED BY <1>1, <1>3, <1>4, <1>6, <1>7, Zenon DEF SafetyInv

\* CleanupPackages keeps the invariant.
LEMMA CleanupPackagesStep == ASSUME SafetyInv, CleanupPackages PROVE SafetyInv'
<1>1. /\ UNCHANGED <<disk, worker, parents, staged>>
      /\ mgr' = [NoCall EXCEPT !.todo = <<"cleanup">>, !.victims = Obsolete(NoPackage)]
  BY Zenon DEF CleanupPackages
<1>2. /\ mgr' \in Calls
      /\ mgr'.todo = <<"cleanup">> /\ mgr'.victims = Obsolete(NoPackage)
      /\ mgr'.pkg = NoPackage
  <2>1. <<"cleanup">> \in Plans
    BY Zenon DEF Plans
  <2>2. Obsolete(NoPackage) \in Removals
    BY ObsoleteIsNotNeeded, Zenon DEF Removals
  <2> QED BY <1>1, <2>1, <2>2, CleanupCall, Zenon
<1>3. NoPackage # worker.image
  BY TypeIs, PointerType, SMT DEF SafetyInv
<1>4. <<"cleanup">> # <<"cleanup", "lookup">>
  BY SMT
<1> QED BY <1>1, <1>2, <1>3, <1>4, CleanupBegins, Zenon

\* Stage keeps the invariant.
LEMMA StageStep ==
  ASSUME SafetyInv, NEW p \in Packages, Stage(p) PROVE SafetyInv'
<1>1. /\ UNCHANGED <<disk, worker, parents, staged>> /\ p # worker.image
      /\ mgr' = [NoCall EXCEPT !.todo = <<"cleanup", "lookup">>, !.pkg = p,
                               !.victims = Obsolete(p)]
  BY Zenon DEF Stage, Pending
<1>2. /\ <<"cleanup", "lookup">> \in Plans
      /\ Obsolete(p) \in Removals
  BY ObsoleteIsNotNeeded, Zenon DEF Plans, StagePlans, Removals
<1>3. /\ mgr' \in Calls
      /\ mgr'.todo = <<"cleanup", "lookup">> /\ mgr'.victims = Obsolete(p)
      /\ mgr'.pkg = p
  BY <1>1, <1>2, StageCall, Zenon
<1> QED BY <1>1, <1>3, CleanupBegins, Zenon

\* A call that is cleaning up goes on, or to the lookup, and nothing else
\* changes.
LEMMA CleanupGoesOn ==
  ASSUME SafetyInv, At("cleanup"), UNCHANGED <<disk, worker, parents, staged>>,
         mgr' \in Calls, mgr'.victims \subseteq mgr.victims,
         mgr'.pkg = mgr.pkg,
         \/ mgr'.todo = mgr.todo
         \/ /\ mgr.todo = <<"cleanup", "lookup">>
            /\ mgr'.todo = <<"lookup">>
            /\ mgr'.victims = {}
  PROVE  SafetyInv'
<1>1. TypeOK'
  BY TypeIs, TypeIsNext, Zenon DEF SafetyInv, disk
<1>2. mgr.todo \in {<<"cleanup">>, <<"cleanup", "lookup">>}
  BY PlansOf, PlanIs, Zenon
<1>3. mgr'.todo \in {<<>>, <<"cleanup">>} \union StagePlans
  BY <1>2, Zenon DEF StagePlans
<1>4. (ActivateReads /\ BaseHolds /\ ForwardHolds /\ BackHolds)'
  BY <1>3, NotActivating, Zenon
<1>5. StageHolds'
  BY <1>2, SMT DEF SafetyInv, StageHolds, StagePlans
<1>6. UNCHANGED Needed
  BY SMT DEF Needed, Running, disk
<1>7. DirectoriesHold' /\ VictimsAreObsolete'
  BY <1>2, <1>6, SMT DEF SafetyInv, DirectoriesHold, VictimsAreObsolete, disk
<1>8. PointersLoad' /\ SomePointerNames' /\ FirstStart' /\ StagedIsPending'
  BY SMT DEF SafetyInv, PointersLoad, SomePointerNames, FirstStart, StagedIsPending, disk, Readable
<1> QED BY <1>1, <1>4, <1>5, <1>7, <1>8, Zenon DEF SafetyInv

\* RemoveFails keeps the invariant.
LEMMA RemoveFailsStep ==
  ASSUME SafetyInv, NEW p \in Packages, RemoveFails(p) PROVE SafetyInv'
<1>1. At("cleanup") /\ UNCHANGED <<disk, worker, parents, staged>>
  BY Zenon DEF RemoveFails
<1>2. mgr \in Calls /\ mgr' = [mgr EXCEPT !.victims = @ \ {p}]
  BY TypeIs, Zenon DEF SafetyInv, RemoveFails
<1>3. /\ mgr' \in Calls /\ mgr'.victims \subseteq mgr.victims
      /\ mgr'.pkg = mgr.pkg /\ mgr'.todo = mgr.todo
  BY <1>2, SMT DEF Calls, Removals
<1> QED BY <1>1, <1>3, CleanupGoesOn, Zenon

\* CleanupEnds keeps the invariant.
LEMMA CleanupEndsStep == ASSUME SafetyInv, CleanupEnds PROVE SafetyInv'
<1>1. At("cleanup") /\ UNCHANGED <<disk, worker, parents, staged>>
  BY Zenon DEF CleanupEnds
<1>2. CASE mgr' = NoCall
  BY <1>1, <1>2, ReturnKeeps, Zenon
<1>3. CASE Len(mgr.todo) # 1
  <2>1. mgr \in Calls /\ mgr' = [mgr EXCEPT !.todo = Tail(@), !.victims = {}]
    BY <1>3, TypeIs, Zenon DEF SafetyInv, CleanupEnds
  <2>2. mgr.todo = <<"cleanup", "lookup">>
    BY <1>1, <1>3, PlansOf, PlanIs, PlanGoesOn, Zenon
  <2>3. Tail(mgr.todo) = <<"lookup">>
    BY <2>2, PlanGoesOn, Zenon
  <2>4. mgr' = [mgr EXCEPT !.todo = <<"lookup">>, !.victims = {}]
    BY <2>1, <2>3, Zenon
  <2>5. <<"lookup">> \in Plans /\ {} \in Removals
    BY Zenon DEF Plans, StagePlans, Removals
  <2>6. /\ mgr' \in Calls /\ mgr'.victims = {}
        /\ mgr'.pkg = mgr.pkg /\ mgr'.todo = <<"lookup">>
    BY <2>1, <2>4, <2>5, CallGoesOn, Zenon
  <2>7. {} \subseteq mgr.victims
    OBVIOUS
  <2> QED BY <1>1, <2>2, <2>6, <2>7, CleanupGoesOn, Zenon
<1> QED BY <1>2, <1>3, Zenon DEF CleanupEnds

----------------------------------------------------------------------------
(* The steps that fill a directory *)

\* Only a cleanup has victims.
LEMMA NoVictims ==
  ASSUME SafetyInv, mgr.todo \notin {<<"cleanup">>, <<"cleanup", "lookup">>}
  PROVE  mgr.victims = {}
BY Zenon DEF SafetyInv, VictimsAreObsolete

\* A directory is written: what could be read can still be read, and what does
\* not depend on the plan holds as before.
LEMMA FilesChange ==
  ASSUME SafetyInv, NEW p \in Packages, NEW content \in Directories,
         files' = [files EXCEPT ![p] = content],
         content = {} \/ "dir" \in content,
         Readable(p) => {"binary", "manifest"} \subseteq content,
         mgr' \in Calls, mgr'.victims = {},
         mgr'.pkg \in {mgr.pkg, NoPackage},
         UNCHANGED <<current, previous, installed, replaced, worker, parents>>,
         aged' \subseteq aged, staged' \in {staged, mgr.pkg}
  PROVE  /\ TypeOK' /\ DirectoriesHold' /\ VictimsAreObsolete' /\ PointersLoad'
         /\ SomePointerNames' /\ StagedIsPending' /\ FirstStart'
         /\ \A q \in Packages : Readable(q) => Readable(q)'
         /\ files'[p] = content
         /\ \A q \in Packages \ {p} : files'[q] = files[q]
<1>1. files \in [Packages -> Directories] /\ mgr \in Calls
  BY TypeIs, Zenon DEF SafetyInv
<1>2. /\ files' \in [Packages -> Directories]
      /\ files'[p] = content
      /\ \A q \in Packages \ {p} : files'[q] = files[q]
  BY <1>1, SMT
<1>3. mgr.pkg \in Packages \union {NoPackage} /\ mgr.pkg # worker.image
  BY <1>1, SMT DEF Calls, SafetyInv, StagedIsPending
<1>4. NoPackage # worker.image
  BY TypeIs, PointerType, SMT DEF SafetyInv
<1>5. staged \in Packages \union {NoPackage} /\ aged \subseteq Packages
  BY TypeIs, Zenon DEF SafetyInv
<1>6. staged' \in Packages \union {NoPackage} /\ aged' \subseteq Packages
  BY <1>3, <1>5, Zenon
<1>7. TypeOK'
  BY <1>2, <1>6, TypeIs, TypeIsNext, Zenon DEF SafetyInv
<1>8. \A q \in Packages : Readable(q) => Readable(q)'
  BY <1>2, SMT DEF Readable
<1>9. DirectoriesHold' /\ VictimsAreObsolete'
  BY <1>2, SMT DEF SafetyInv, DirectoriesHold, VictimsAreObsolete
<1>10. \A q \in {current, previous} \ {NoPointer} : q.pkg \in Packages
  BY TypeIs, PointerType, SMT DEF SafetyInv
<1>11. PointersLoad'
  BY <1>8, <1>10, SMT DEF SafetyInv, PointersLoad
<1>12. SomePointerNames' /\ FirstStart'
  BY SMT DEF SafetyInv, SomePointerNames, FirstStart
<1>13. StagedIsPending'
  BY <1>3, <1>4, SMT DEF SafetyInv, StagedIsPending
<1> QED BY <1>2, <1>7, <1>8, <1>9, <1>11, <1>12, <1>13, Zenon

\* A Stage goes on.
LEMMA StageGoesOn ==
  ASSUME mgr'.todo \in {<<"download", "manifest">>, <<"manifest">>},
         mgr'.pkg \in Packages,
         mgr'.todo = <<"download", "manifest">> => files'[mgr'.pkg] \subseteq {"dir"},
         mgr'.todo = <<"manifest">> => {"dir", "binary"} \subseteq files'[mgr'.pkg]
  PROVE  (StageHolds /\ ActivateReads /\ BaseHolds /\ ForwardHolds /\ BackHolds)'
<1>1. mgr'.todo \in {<<>>, <<"cleanup">>} \union StagePlans
  BY Zenon DEF StagePlans
<1> QED BY <1>1, NotActivating, Zenon DEF StageHolds

\* What a Stage fills.
LEMMA StageFills ==
  ASSUME SafetyInv, mgr.todo \in StagePlans
  PROVE  /\ mgr.pkg \in Packages
         /\ mgr.todo = <<"download", "manifest">> => files[mgr.pkg] \subseteq {"dir"}
         /\ mgr.todo = <<"manifest">> => {"dir", "binary"} \subseteq files[mgr.pkg]
         /\ files[mgr.pkg] \in Directories
         /\ files[mgr.pkg] = {} \/ "dir" \in files[mgr.pkg]
<1>1. files \in [Packages -> Directories]
  BY TypeIs, Zenon DEF SafetyInv
<1>2. mgr.pkg \in Packages
  BY Zenon DEF SafetyInv, StageHolds
<1> QED BY <1>1, <1>2, SMT DEF SafetyInv, StageHolds, DirectoriesHold

\* StageLookup keeps the invariant.
LEMMA StageLookupStep == ASSUME SafetyInv, StageLookup PROVE SafetyInv'
<1>1. mgr.todo = <<"lookup">> /\ mgr \in Calls
  BY PlansOf, PlanIs, Zenon DEF StageLookup
<1>2. mgr.todo \in StagePlans /\ mgr.victims = {}
  <2>1. <<"lookup">> \notin {<<"cleanup">>, <<"cleanup", "lookup">>}
    BY SMT
  <2> QED BY <1>1, <2>1, NoVictims, Zenon DEF StagePlans
<1>3. /\ mgr.pkg \in Packages /\ files[mgr.pkg] \in Directories
      /\ files[mgr.pkg] = {} \/ "dir" \in files[mgr.pkg]
  BY <1>2, StageFills, Zenon
<1>4. UNCHANGED <<imported, current, previous, installed, replaced, aged, worker, parents>>
  BY Zenon DEF StageLookup
<1>5. /\ UNCHANGED <<current, previous, installed, replaced, worker, parents>>
      /\ aged' \subseteq aged
  BY <1>4, SMT
<1>6. Readable(mgr.pkg) => {"binary", "manifest"} \subseteq files[mgr.pkg]
  BY Zenon DEF Readable
<1>7. files = [files EXCEPT ![mgr.pkg] = files[mgr.pkg]]
  BY TypeIs, SMT DEF SafetyInv
<1>8. CASE staged' = mgr.pkg /\ mgr' = NoCall /\ files' = files
  <2>1. /\ mgr' \in Calls /\ mgr'.victims = {} /\ mgr'.pkg = NoPackage
        /\ (StageHolds /\ ActivateReads /\ BaseHolds /\ ForwardHolds /\ BackHolds)'
    BY <1>8, CallOver, Zenon
  <2>2. files' = [files EXCEPT ![mgr.pkg] = files[mgr.pkg]]
    BY <1>7, <1>8, Zenon
  <2>3. /\ TypeOK' /\ DirectoriesHold' /\ VictimsAreObsolete' /\ PointersLoad'
        /\ SomePointerNames' /\ StagedIsPending' /\ FirstStart'
    BY <1>3, <1>8, <1>5, <1>6, <2>1, <2>2, FilesChange, Zenon
  <2> QED BY <2>1, <2>3, Zenon DEF SafetyInv
<1>9. CASE mgr' = NoCall /\ UNCHANGED <<files, staged>>
  <2>1. UNCHANGED <<disk, worker, parents, staged>>
    BY <1>4, <1>9, SMT DEF disk
  <2> QED BY <1>9, <2>1, ReturnKeeps, Zenon
<1>10. CASE /\ files[mgr.pkg] = {"dir", "binary"}
           /\ mgr' = [mgr EXCEPT !.todo = <<"manifest">>]
           /\ UNCHANGED <<files, staged>>
  <2>1. /\ mgr' \in Calls /\ mgr'.todo = <<"manifest">>
        /\ mgr'.pkg = mgr.pkg /\ mgr'.victims = {}
    BY <1>1, <1>2, <1>10, PlanChanges, Zenon DEF Plans, StagePlans
  <2>2. files' = [files EXCEPT ![mgr.pkg] = files[mgr.pkg]]
    BY <1>7, <1>10, Zenon
  <2>3. /\ TypeOK' /\ DirectoriesHold' /\ VictimsAreObsolete' /\ PointersLoad'
        /\ SomePointerNames' /\ StagedIsPending' /\ FirstStart'
    BY <1>3, <1>10, <1>5, <1>6, <2>1, <2>2, FilesChange, Zenon
  <2>4. (StageHolds /\ ActivateReads /\ BaseHolds /\ ForwardHolds /\ BackHolds)'
    BY <1>3, <1>10, <2>1, StageGoesOn, SMT
  <2> QED BY <2>3, <2>4, Zenon DEF SafetyInv
<1>11. CASE /\ files[mgr.pkg] \subseteq {"dir"}
           /\ files' = [files EXCEPT ![mgr.pkg] = {}]
           /\ mgr' = [mgr EXCEPT !.todo = <<"download", "manifest">>]
           /\ UNCHANGED staged
  <2>1. /\ mgr' \in Calls /\ mgr'.todo = <<"download", "manifest">>
        /\ mgr'.pkg = mgr.pkg /\ mgr'.victims = {}
    BY <1>1, <1>2, <1>11, PlanChanges, Zenon DEF Plans, StagePlans
  <2>2. {} \in Directories /\ ~Readable(mgr.pkg)
    BY <1>11, SMT DEF Directories, Readable
  <2>3. /\ TypeOK' /\ DirectoriesHold' /\ VictimsAreObsolete' /\ PointersLoad'
        /\ SomePointerNames' /\ StagedIsPending' /\ FirstStart'
        /\ files'[mgr.pkg] = {}
    BY <1>3, <1>11, <1>5, <2>1, <2>2, FilesChange, Zenon
  <2>4. (StageHolds /\ ActivateReads /\ BaseHolds /\ ForwardHolds /\ BackHolds)'
    BY <1>3, <2>1, <2>3, StageGoesOn, SMT
  <2> QED BY <2>3, <2>4, Zenon DEF SafetyInv
<1> QED BY <1>8, <1>9, <1>10, <1>11, Zenon DEF StageLookup, Return

\* Download keeps the invariant.
LEMMA DownloadStep == ASSUME SafetyInv, Download PROVE SafetyInv'
<1>1. mgr.todo = <<"download", "manifest">> /\ mgr \in Calls
  BY PlansOf, PlanIs, Zenon DEF Download
<1>2. mgr.todo \in StagePlans /\ mgr.victims = {}
  <2>1. <<"download", "manifest">> \notin {<<"cleanup">>, <<"cleanup", "lookup">>}
    BY SMT
  <2> QED BY <1>1, <2>1, NoVictims, Zenon DEF StagePlans
<1>3. mgr.pkg \in Packages /\ files[mgr.pkg] \subseteq {"dir"}
  BY <1>1, <1>2, StageFills, Zenon
<1>4. /\ UNCHANGED <<current, previous, installed, replaced, worker, parents>>
      /\ staged' \in {staged, mgr.pkg}
  BY SMT DEF Download
<1>5. ~Readable(mgr.pkg)
  BY <1>3, SMT DEF Readable
<1>6. {"dir"} \in Directories /\ {"dir", "binary"} \in Directories
  BY SMT DEF Directories
<1>7. CASE /\ files' = [files EXCEPT ![mgr.pkg] = {"dir"}]
           /\ aged' = aged \ {mgr.pkg}
           /\ UNCHANGED mgr
  <2>1. aged' \subseteq aged
    BY <1>7, Zenon
  <2>2. /\ TypeOK' /\ DirectoriesHold' /\ VictimsAreObsolete' /\ PointersLoad'
        /\ SomePointerNames' /\ StagedIsPending' /\ FirstStart'
        /\ files'[mgr.pkg] = {"dir"}
    BY <1>1, <1>2, <1>3, <1>4, <1>5, <1>6, <1>7, <2>1, FilesChange, Zenon
  <2>3. <<"download", "manifest">> # <<"manifest">>
    BY SMT
  <2>4. (StageHolds /\ ActivateReads /\ BaseHolds /\ ForwardHolds /\ BackHolds)'
    BY <1>1, <1>3, <1>7, <2>2, <2>3, StageGoesOn, Zenon
  <2> QED BY <2>2, <2>4, Zenon DEF SafetyInv
<1>8. CASE /\ files' = [files EXCEPT ![mgr.pkg] = {"dir", "binary"}]
           /\ UNCHANGED aged
           /\ mgr' = NoCall \/ Advance
  <2>1. aged' \subseteq aged
    BY <1>8, Zenon
  <2>2. CASE mgr' = NoCall
    <3>1. /\ mgr' \in Calls /\ mgr'.victims = {} /\ mgr'.pkg = NoPackage
          /\ (StageHolds /\ ActivateReads /\ BaseHolds /\ ForwardHolds /\ BackHolds)'
      BY <2>2, CallOver, Zenon
    <3>2. /\ TypeOK' /\ DirectoriesHold' /\ VictimsAreObsolete' /\ PointersLoad'
          /\ SomePointerNames' /\ StagedIsPending' /\ FirstStart'
      BY <1>3, <1>4, <1>5, <1>6, <1>8, <2>1, <3>1, FilesChange, Zenon
    <3> QED BY <3>1, <3>2, Zenon DEF SafetyInv
  <2>3. CASE Advance
    <3>1. Len(mgr.todo) # 1 /\ Tail(mgr.todo) = <<"manifest">>
      BY <1>1, PlanGoesOn, SMT
    <3>2. mgr' = [mgr EXCEPT !.todo = <<"manifest">>]
      BY <1>1, <2>3, <3>1, AdvanceIs, Zenon
    <3>3. /\ mgr' \in Calls /\ mgr'.todo = <<"manifest">>
          /\ mgr'.pkg = mgr.pkg /\ mgr'.victims = {}
      BY <1>1, <1>2, <3>2, PlanChanges, Zenon DEF Plans, StagePlans
    <3>4. /\ TypeOK' /\ DirectoriesHold' /\ VictimsAreObsolete' /\ PointersLoad'
          /\ SomePointerNames' /\ StagedIsPending' /\ FirstStart'
          /\ files'[mgr.pkg] = {"dir", "binary"}
      BY <1>3, <1>4, <1>5, <1>6, <1>8, <2>1, <3>3, FilesChange, Zenon
    <3>5. (StageHolds /\ ActivateReads /\ BaseHolds /\ ForwardHolds /\ BackHolds)'
      BY <1>3, <3>3, <3>4, StageGoesOn, SMT
    <3> QED BY <3>4, <3>5, Zenon DEF SafetyInv
  <2> QED BY <1>8, <2>2, <2>3, Zenon
<1>9. CASE mgr' = NoCall /\ UNCHANGED <<files, aged>>
  <2>1. UNCHANGED <<disk, worker, parents, staged>>
    BY <1>9, SMT DEF Download, disk
  <2> QED BY <1>9, <2>1, ReturnKeeps, Zenon
<1> QED BY <1>7, <1>8, <1>9, Zenon DEF Download, Return

\* What an activation has, at each of its steps.
LEMMA ActivateHas ==
  ASSUME SafetyInv, mgr.todo \in BasePlans \union ForwardPlans \union BackPlans
  PROVE  /\ mgr \in Calls /\ mgr.victims = {}
         /\ mgr.pkg \in Packages /\ Readable(mgr.pkg)
         /\ mgr.base \in Pointer /\ mgr.base.pkg \in Packages
         /\ files[mgr.base.pkg] \in Directories
         /\ files[mgr.base.pkg] = {} \/ "dir" \in files[mgr.base.pkg]
<1>1. mgr.todo \notin {<<>>, <<"cleanup">>} \union StagePlans
  BY PlansDiffer, Zenon
<1>2. mgr.victims = {}
  BY <1>1, NoVictims, Zenon DEF StagePlans
<1>3. mgr.pkg \in Packages /\ Readable(mgr.pkg) /\ mgr.base \in Pointer
  BY Zenon DEF SafetyInv, ActivateReads
<1>4. mgr.base.pkg \in Packages
  BY <1>3, PointerType, SMT
<1>5. files \in [Packages -> Directories]
  BY TypeIs, Zenon DEF SafetyInv
<1>6. files[mgr.base.pkg] = {} \/ "dir" \in files[mgr.base.pkg]
  BY <1>4, Zenon DEF SafetyInv, DirectoriesHold
<1> QED BY <1>2, <1>3, <1>4, <1>5, <1>6, PlanIs, SMT

\* The baseline is read from the first step that does not import it.
LEMMA BaseReads ==
  ASSUME SafetyInv, mgr.todo \in BasePlans \union ForwardPlans \union BackPlans
  PROVE  /\ mgr.todo = <<"binary", "imported", "decide">>
              => files[mgr.base.pkg] \subseteq {"dir"}
         /\ mgr.todo = <<"imported", "decide">>
              => {"dir", "binary"} \subseteq files[mgr.base.pkg]
         /\ mgr.todo \notin {<<"binary", "imported", "decide">>,
                             <<"imported", "decide">>}
              => Readable(mgr.base.pkg)
BY Zenon DEF SafetyInv, ActivateReads

\* What an activation that has not decided knows.
LEMMA BaseKnows ==
  ASSUME SafetyInv, mgr.todo \in BasePlans
  PROVE  /\ BaseNames
         /\ mgr.todo = <<"reconcile", "decide">> => mgr.base = previous
         /\ mgr.todo # <<"reconcile", "decide">>
              => /\ current = mgr.base \/ mgr.base.pkg = installed \/ Changed
                 /\ current = NoPointer => previous = NoPointer
BY Zenon DEF SafetyInv, BaseHolds

\* An activation in its import goes on.
LEMMA ImportGoesOn ==
  ASSUME SafetyInv,
         mgr.todo \in {<<"binary", "imported", "decide">>, <<"imported", "decide">>},
         mgr'.todo \in {<<"binary", "imported", "decide">>, <<"imported", "decide">>,
                        <<"decide">>},
         mgr'.pkg = mgr.pkg, mgr'.base = mgr.base, mgr'.victims = {},
         UNCHANGED <<current, previous, installed, replaced>>,
         Readable(mgr.pkg)',
         mgr'.todo = <<"binary", "imported", "decide">>
           => files'[mgr.base.pkg] \subseteq {"dir"},
         mgr'.todo = <<"imported", "decide">>
           => {"dir", "binary"} \subseteq files'[mgr.base.pkg],
         mgr'.todo = <<"decide">>
           => {"dir", "binary", "manifest"} \subseteq files'[mgr.base.pkg]
  PROVE  (StageHolds /\ ActivateReads /\ BaseHolds /\ ForwardHolds /\ BackHolds)'
<1>1. /\ mgr.todo \in BasePlans /\ mgr'.todo \in BasePlans
      /\ mgr.todo # <<"reconcile", "decide">> /\ mgr'.todo # <<"reconcile", "decide">>
  BY SMT DEF BasePlans
<1>2. mgr'.todo \notin ForwardPlans \union BackPlans
  BY <1>1, PlansDiffer, Zenon
<1>3. ForwardHolds' /\ BackHolds'
  BY <1>2, Zenon DEF ForwardHolds, BackHolds, ForwardPlans, BackPlans
<1>4. StageHolds'
  BY <1>1, Activating, Zenon
<1>5. BaseHolds'
  BY <1>1, BaseKnows, SMT DEF BaseHolds, BaseNames, Changed
<1>6. mgr.pkg \in Packages /\ mgr.base \in Pointer
  BY <1>1, ActivateHas, Zenon
<1>7. ActivateReads'
  BY <1>6, SMT DEF ActivateReads, Readable
<1> QED BY <1>3, <1>4, <1>5, <1>7, Zenon

\* A temporary file is there before the manifest, and may be left alone.
Written(p) == {files[p] \union {"temp"}, Full, files[p] \ {"temp"}}

\* WriteManifest, by what it does to the directory and to the call.
LEMMA WriteManifestCases ==
  ASSUME WriteManifest, NEW p, p = IF At("manifest") THEN mgr.pkg ELSE mgr.base.pkg
  PROVE  \E content \in Written(p) :
           /\ files' = [files EXCEPT ![p] = content]
           /\ \/ /\ content = files[p] \union {"temp"} /\ UNCHANGED <<mgr, staged>>
              \/ /\ content = Full /\ Advance
                 /\ staged' = IF At("manifest") THEN p ELSE staged
              \/ /\ content = files[p] \ {"temp"} /\ mgr' = NoCall
                 /\ UNCHANGED staged
BY Zenon DEF WriteManifest, Written, Return

\* What WriteManifest makes of a directory.
LEMMA WrittenHolds ==
  ASSUME NEW p, files[p] \in Directories, {"dir", "binary"} \subseteq files[p],
         NEW content \in Written(p)
  PROVE  /\ content \in Directories /\ "dir" \in content
         /\ {"dir", "binary"} \subseteq content
         /\ Readable(p) => {"binary", "manifest"} \subseteq content
BY SMT DEF Written, Directories, Full, Readable

\* WriteManifest keeps the invariant.
LEMMA WriteManifestStep == ASSUME SafetyInv, WriteManifest PROVE SafetyInv'
<1>1. /\ UNCHANGED <<current, previous, installed, replaced, worker, parents>>
      /\ aged' \subseteq aged /\ mgr \in Calls
  BY PlanIs, SMT DEF WriteManifest
<1>2. CASE At("manifest")
  <2>1. mgr.todo = <<"manifest">>
    BY <1>2, PlansOf, PlanIs, Zenon
  <2>2. mgr.todo \in StagePlans /\ mgr.victims = {}
    <3>1. <<"manifest">> \notin {<<"cleanup">>, <<"cleanup", "lookup">>}
      BY SMT
    <3> QED BY <2>1, <3>1, NoVictims, Zenon DEF StagePlans
  <2>3. /\ mgr.pkg \in Packages /\ files[mgr.pkg] \in Directories
        /\ {"dir", "binary"} \subseteq files[mgr.pkg]
    BY <2>1, <2>2, StageFills, Zenon
  <2>4. PICK content \in Written(mgr.pkg) :
          /\ files' = [files EXCEPT ![mgr.pkg] = content]
          /\ \/ mgr' = mgr /\ staged' = staged
             \/ Advance /\ staged' = mgr.pkg
             \/ mgr' = NoCall /\ staged' = staged
    BY <1>2, WriteManifestCases, Zenon
  <2>5. /\ content \in Directories /\ "dir" \in content
        /\ {"dir", "binary"} \subseteq content
        /\ Readable(mgr.pkg) => {"binary", "manifest"} \subseteq content
    BY <2>3, WrittenHolds, Zenon
  <2>6. CASE mgr' = mgr /\ staged' = staged
    <3>1. /\ TypeOK' /\ DirectoriesHold' /\ VictimsAreObsolete' /\ PointersLoad'
          /\ SomePointerNames' /\ StagedIsPending' /\ FirstStart'
          /\ files'[mgr.pkg] = content
      BY <1>1, <2>2, <2>3, <2>4, <2>5, <2>6, FilesChange, Zenon
    <3>2. <<"download", "manifest">> # <<"manifest">>
      BY SMT
    <3>3. (StageHolds /\ ActivateReads /\ BaseHolds /\ ForwardHolds /\ BackHolds)'
      BY <2>1, <2>3, <2>5, <2>6, <3>1, <3>2, StageGoesOn, Zenon
    <3> QED BY <3>1, <3>3, Zenon DEF SafetyInv
  <2>7. CASE (Advance \/ mgr' = NoCall) /\ staged' \in {staged, mgr.pkg}
    <3>1. Len(mgr.todo) = 1
      BY <2>1, PlanGoesOn, Zenon
    <3>2. mgr' = NoCall
      BY <2>7, <3>1, AdvanceEnds, Zenon
    <3>3. /\ mgr' \in Calls /\ mgr'.victims = {} /\ mgr'.pkg = NoPackage
          /\ (StageHolds /\ ActivateReads /\ BaseHolds /\ ForwardHolds /\ BackHolds)'
      BY <3>2, CallOver, Zenon
    <3>4. /\ TypeOK' /\ DirectoriesHold' /\ VictimsAreObsolete' /\ PointersLoad'
          /\ SomePointerNames' /\ StagedIsPending' /\ FirstStart'
      BY <1>1, <2>3, <2>4, <2>5, <2>7, <3>3, FilesChange, Zenon
    <3> QED BY <3>3, <3>4, Zenon DEF SafetyInv
  <2> QED BY <2>4, <2>6, <2>7, Zenon
<1>3. CASE At("imported") /\ ~At("manifest")
  <2>1. mgr.todo = <<"imported", "decide">> /\ mgr.todo \in BasePlans
    BY <1>3, PlansOf, PlanIs, Zenon DEF BasePlans
  <2>2. /\ mgr.victims = {} /\ mgr.pkg \in Packages /\ Readable(mgr.pkg)
        /\ mgr.base.pkg \in Packages /\ files[mgr.base.pkg] \in Directories
    BY <2>1, ActivateHas, Zenon
  <2>3. {"dir", "binary"} \subseteq files[mgr.base.pkg]
    BY <2>1, BaseReads, Zenon
  <2>4. PICK content \in Written(mgr.base.pkg) :
          /\ files' = [files EXCEPT ![mgr.base.pkg] = content]
          /\ \/ mgr' = mgr
             \/ content = Full /\ Advance
             \/ mgr' = NoCall
          /\ staged' = staged
    BY <1>3, WriteManifestCases, Zenon
  <2>5. /\ content \in Directories /\ "dir" \in content
        /\ {"dir", "binary"} \subseteq content
        /\ Readable(mgr.base.pkg) => {"binary", "manifest"} \subseteq content
    BY <2>2, <2>3, WrittenHolds, Zenon
  <2>6. CASE mgr' = mgr
    <3>1. /\ TypeOK' /\ DirectoriesHold' /\ VictimsAreObsolete' /\ PointersLoad'
          /\ SomePointerNames' /\ StagedIsPending' /\ FirstStart'
          /\ Readable(mgr.pkg)'
          /\ files'[mgr.base.pkg] = content
      <4>1. PICK k : k = mgr.pkg
        OBVIOUS
      <4>2. /\ TypeOK' /\ DirectoriesHold' /\ VictimsAreObsolete' /\ PointersLoad'
            /\ SomePointerNames' /\ StagedIsPending' /\ FirstStart'
            /\ Readable(k) => Readable(k)'
            /\ files'[mgr.base.pkg] = content
        BY <1>1, <2>2, <2>4, <2>5, <2>6, <4>1, FilesChange, Zenon
      <4>3. Readable(mgr.pkg)'
        BY <2>2, <2>6, <4>1, <4>2, SMT DEF Readable
      <4> QED BY <4>2, <4>3, Zenon
    <3>2. /\ <<"imported", "decide">> # <<"binary", "imported", "decide">>
          /\ <<"imported", "decide">> # <<"decide">>
      BY SMT
    <3>3. (StageHolds /\ ActivateReads /\ BaseHolds /\ ForwardHolds /\ BackHolds)'
      <4>1. /\ mgr.todo \in {<<"binary", "imported", "decide">>, <<"imported", "decide">>}
            /\ mgr'.todo = <<"imported", "decide">>
            /\ mgr'.pkg = mgr.pkg /\ mgr'.base = mgr.base /\ mgr'.victims = {}
            /\ UNCHANGED <<current, previous, installed, replaced>>
        BY <1>1, <2>1, <2>2, <2>6, SMT
      <4> QED BY <2>5, <3>1, <3>2, <4>1, ImportGoesOn, Zenon
    <3> QED BY <3>1, <3>3, Zenon DEF SafetyInv
  <2>7. CASE content = Full /\ Advance
    <3>1. Len(mgr.todo) # 1 /\ Tail(mgr.todo) = <<"decide">>
      BY <2>1, PlanGoesOn, SMT
    <3>2. mgr' = [mgr EXCEPT !.todo = <<"decide">>]
      BY <1>1, <2>7, <3>1, AdvanceIs, Zenon
    <3>3. /\ mgr' \in Calls /\ mgr'.todo = <<"decide">> /\ mgr'.base = mgr.base
          /\ mgr'.pkg = mgr.pkg /\ mgr'.victims = {}
      BY <1>1, <2>2, <3>2, PlanChanges, Zenon DEF Plans, BasePlans
    <3>4. /\ TypeOK' /\ DirectoriesHold' /\ VictimsAreObsolete' /\ PointersLoad'
          /\ SomePointerNames' /\ StagedIsPending' /\ FirstStart'
          /\ Readable(mgr.pkg)'
          /\ files'[mgr.base.pkg] = content
      <4>1. PICK k : k = mgr.pkg
        OBVIOUS
      <4>2. /\ TypeOK' /\ DirectoriesHold' /\ VictimsAreObsolete' /\ PointersLoad'
            /\ SomePointerNames' /\ StagedIsPending' /\ FirstStart'
            /\ Readable(k) => Readable(k)'
            /\ files'[mgr.base.pkg] = content
        BY <1>1, <2>2, <2>4, <2>5, <3>3, <4>1, FilesChange, Zenon
      <4>3. Readable(mgr.pkg)'
        BY <2>2, <3>3, <4>1, <4>2, SMT DEF Readable
      <4> QED BY <4>2, <4>3, Zenon
    <3>5. (StageHolds /\ ActivateReads /\ BaseHolds /\ ForwardHolds /\ BackHolds)'
      <4>1. /\ mgr.todo \in {<<"binary", "imported", "decide">>, <<"imported", "decide">>}
            /\ UNCHANGED <<current, previous, installed, replaced>>
        BY <1>1, <2>1, SMT
      <4>2. /\ <<"decide">> # <<"binary", "imported", "decide">>
            /\ <<"imported", "decide">> # <<"decide">>
        BY SMT
      <4>3. {"dir", "binary", "manifest"} \subseteq files'[mgr.base.pkg]
        BY <2>7, <3>4, SMT DEF Full
      <4> QED BY <3>3, <3>4, <4>1, <4>2, <4>3, ImportGoesOn, Zenon
    <3> QED BY <3>4, <3>5, Zenon DEF SafetyInv
  <2>8. CASE mgr' = NoCall
    <3>1. /\ mgr' \in Calls /\ mgr'.victims = {} /\ mgr'.pkg = NoPackage
          /\ (StageHolds /\ ActivateReads /\ BaseHolds /\ ForwardHolds /\ BackHolds)'
      BY <2>8, CallOver, Zenon
    <3>2. /\ TypeOK' /\ DirectoriesHold' /\ VictimsAreObsolete' /\ PointersLoad'
          /\ SomePointerNames' /\ StagedIsPending' /\ FirstStart'
      BY <1>1, <2>2, <2>4, <2>5, <3>1, FilesChange, Zenon
    <3> QED BY <3>1, <3>2, Zenon DEF SafetyInv
  <2> QED BY <2>4, <2>6, <2>7, <2>8, Zenon
<1> QED BY <1>2, <1>3, Zenon DEF WriteManifest

\* ImportBinary keeps the invariant.
LEMMA ImportBinaryStep == ASSUME SafetyInv, ImportBinary PROVE SafetyInv'
<1>1. /\ mgr.todo = <<"binary", "imported", "decide">> /\ mgr.todo \in BasePlans
      /\ mgr \in Calls
  BY PlansOf, PlanIs, Zenon DEF ImportBinary, BasePlans
<1>2. /\ mgr.victims = {} /\ mgr.pkg \in Packages /\ Readable(mgr.pkg)
      /\ mgr.base.pkg \in Packages /\ files[mgr.base.pkg] \in Directories
      /\ files[mgr.base.pkg] = {} \/ "dir" \in files[mgr.base.pkg]
  BY <1>1, ActivateHas, Zenon
<1>3. files[mgr.base.pkg] \subseteq {"dir"}
  BY <1>1, BaseReads, Zenon
<1>4. /\ UNCHANGED <<current, previous, installed, replaced, worker, parents>>
      /\ aged' \subseteq aged /\ staged' \in {staged, mgr.pkg}
      /\ UNCHANGED <<current, previous, installed, replaced>>
  BY SMT DEF ImportBinary
<1>5. ~Readable(mgr.base.pkg)
  BY <1>3, SMT DEF Readable
<1>6. {"dir"} \in Directories /\ {"dir", "binary"} \in Directories
  BY SMT DEF Directories
<1>7. PICK k : k = mgr.pkg
  OBVIOUS
<1>8. CASE files' = [files EXCEPT ![mgr.base.pkg] = {"dir"}] /\ mgr' = mgr
  <2>1. /\ TypeOK' /\ DirectoriesHold' /\ VictimsAreObsolete' /\ PointersLoad'
        /\ SomePointerNames' /\ StagedIsPending' /\ FirstStart'
        /\ Readable(k) => Readable(k)'
        /\ files'[mgr.base.pkg] = {"dir"}
    BY <1>1, <1>2, <1>4, <1>5, <1>6, <1>7, <1>8, FilesChange, Zenon
  <2>2. Readable(mgr.pkg)'
    BY <1>2, <1>7, <1>8, <2>1, SMT DEF Readable
  <2>3. /\ mgr.todo \in {<<"binary", "imported", "decide">>, <<"imported", "decide">>}
        /\ mgr'.todo = <<"binary", "imported", "decide">>
        /\ mgr'.pkg = mgr.pkg /\ mgr'.base = mgr.base /\ mgr'.victims = {}
    BY <1>1, <1>2, <1>8, Zenon
  <2>4. /\ <<"binary", "imported", "decide">> # <<"imported", "decide">>
        /\ <<"binary", "imported", "decide">> # <<"decide">>
    BY SMT
  <2>5. (StageHolds /\ ActivateReads /\ BaseHolds /\ ForwardHolds /\ BackHolds)'
    BY <1>4, <2>1, <2>2, <2>3, <2>4, ImportGoesOn, Zenon
  <2> QED BY <2>1, <2>5, Zenon DEF SafetyInv
<1>9. CASE files' = [files EXCEPT ![mgr.base.pkg] = {"dir", "binary"}] /\ Advance
  <2>1. Len(mgr.todo) # 1 /\ Tail(mgr.todo) = <<"imported", "decide">>
    BY <1>1, PlanGoesOn, SMT
  <2>2. mgr' = [mgr EXCEPT !.todo = <<"imported", "decide">>]
    BY <1>1, <1>9, <2>1, AdvanceIs, Zenon
  <2>3. /\ mgr' \in Calls /\ mgr'.todo = <<"imported", "decide">> /\ mgr'.base = mgr.base
        /\ mgr'.pkg = mgr.pkg /\ mgr'.victims = {}
    BY <1>1, <1>2, <2>2, PlanChanges, Zenon DEF Plans, BasePlans
  <2>4. /\ TypeOK' /\ DirectoriesHold' /\ VictimsAreObsolete' /\ PointersLoad'
        /\ SomePointerNames' /\ StagedIsPending' /\ FirstStart'
        /\ Readable(k) => Readable(k)'
        /\ files'[mgr.base.pkg] = {"dir", "binary"}
    BY <1>2, <1>4, <1>5, <1>6, <1>7, <1>9, <2>3, FilesChange, Zenon
  <2>5. Readable(mgr.pkg)'
    BY <1>2, <1>7, <2>3, <2>4, SMT DEF Readable
  <2>6. mgr.todo \in {<<"binary", "imported", "decide">>, <<"imported", "decide">>}
    BY <1>1, Zenon
  <2>7. /\ <<"binary", "imported", "decide">> # <<"imported", "decide">>
        /\ <<"imported", "decide">> # <<"decide">>
    BY SMT
  <2>8. (StageHolds /\ ActivateReads /\ BaseHolds /\ ForwardHolds /\ BackHolds)'
    BY <1>4, <2>3, <2>4, <2>5, <2>6, <2>7, ImportGoesOn, Zenon
  <2> QED BY <2>4, <2>8, Zenon DEF SafetyInv
<1>10. CASE mgr' = NoCall /\ files' = files
  <2>1. /\ mgr' \in Calls /\ mgr'.victims = {} /\ mgr'.pkg = NoPackage
        /\ (StageHolds /\ ActivateReads /\ BaseHolds /\ ForwardHolds /\ BackHolds)'
    BY <1>10, CallOver, Zenon
  <2>2. /\ files' = [files EXCEPT ![mgr.base.pkg] = files[mgr.base.pkg]]
        /\ Readable(mgr.base.pkg) => {"binary", "manifest"} \subseteq files[mgr.base.pkg]
    BY <1>5, <1>10, TypeIs, SMT DEF SafetyInv
  <2>3. /\ TypeOK' /\ DirectoriesHold' /\ VictimsAreObsolete' /\ PointersLoad'
        /\ SomePointerNames' /\ StagedIsPending' /\ FirstStart'
    BY <1>2, <1>4, <2>1, <2>2, FilesChange, Zenon
  <2> QED BY <2>1, <2>3, Zenon DEF SafetyInv
<1> QED BY <1>8, <1>9, <1>10, Zenon DEF ImportBinary, Return

----------------------------------------------------------------------------
(* The baseline *)

\* What an import starts from.
ImportedBase == [pkg |-> ImportSource, version |-> Unversioned]

\* The cases of ensureCurrentPackage.
LEMMA BaselineCases ==
  \/ /\ Loads(current) /\ current.pkg = installed
     /\ Baseline.base = current /\ Baseline.todo = <<"decide">>
  \/ /\ Loads(current) /\ current.pkg # installed
     /\ \/ ~Loads(previous)
        \/ previous.pkg # installed /\ ~worker.entry
     /\ Baseline.todo = <<>>
  \/ /\ Loads(previous)
     /\ Loads(current) => previous.pkg = installed
     /\ Baseline.base = previous /\ Baseline.todo = <<"reconcile", "decide">>
  \/ /\ \/ ~Loads(current) /\ ~Loads(previous)
        \/ /\ Loads(current) /\ Loads(previous) /\ worker.entry
           /\ current.pkg # installed /\ previous.pkg # installed
     /\ Baseline.base = ImportedBase /\ Baseline.todo = ImportPlan(ImportSource)
<1>1. Baseline =
        CASE Loads(current) /\ current.pkg = installed ->
               [base |-> current, todo |-> <<"decide">>]
          [] Loads(current) /\ current.pkg # installed ->
               IF ~Loads(previous) THEN [base |-> NoPointer, todo |-> <<>>]
               ELSE IF previous.pkg = installed
                      THEN [base |-> previous, todo |-> <<"reconcile", "decide">>]
               ELSE IF worker.entry
                      THEN [base |-> ImportedBase, todo |-> ImportPlan(ImportSource)]
               ELSE [base |-> NoPointer, todo |-> <<>>]
          [] ~Loads(current) /\ Loads(previous) ->
               [base |-> previous, todo |-> <<"reconcile", "decide">>]
          [] OTHER -> [base |-> ImportedBase, todo |-> ImportPlan(ImportSource)]
  BY Zenon DEF Baseline, ImportedBase, Unversioned
<1>2. CASE Loads(current) /\ current.pkg = installed
  BY <1>1, <1>2, SMT
<1>3. CASE Loads(current) /\ current.pkg # installed
  BY <1>1, <1>3, SMT
<1>4. CASE ~Loads(current)
  BY <1>1, <1>4, SMT
<1> QED BY <1>2, <1>3, <1>4, Zenon

\* The steps of an import.
LEMMA ImportPlanIs ==
  ASSUME NEW p
  PROVE  \/ Readable(p) /\ ImportPlan(p) = <<"decide">>
         \/ files[p] = {"dir", "binary"} /\ ImportPlan(p) = <<"imported", "decide">>
         \/ files[p] \subseteq {"dir"} /\ ImportPlan(p) = <<"binary", "imported", "decide">>
         \/ ~Stageable(p) /\ ImportPlan(p) = <<>>
<1>1. CASE Readable(p)
  BY <1>1, SMT DEF ImportPlan, Readable
<1>2. CASE files[p] = {"dir", "binary"}
  BY <1>2, SMT DEF ImportPlan, Readable
<1>3. CASE files[p] \subseteq {"dir"}
  BY <1>3, SMT DEF ImportPlan, Readable
<1>4. CASE ~Readable(p) /\ files[p] # {"dir", "binary"} /\ ~(files[p] \subseteq {"dir"})
  BY <1>4, SMT DEF ImportPlan, Readable, Stageable
<1> QED BY <1>1, <1>2, <1>3, <1>4, Zenon

\* What Activate starts with.
LEMMA BaselineHolds ==
  ASSUME SafetyInv, Baseline.todo # <<>>
  PROVE  /\ Baseline.todo \in BasePlans /\ Baseline.base \in Pointer
         /\ Baseline.todo = <<"binary", "imported", "decide">>
              => files[Baseline.base.pkg] \subseteq {"dir"}
         /\ Baseline.todo = <<"imported", "decide">>
              => {"dir", "binary"} \subseteq files[Baseline.base.pkg]
         /\ Baseline.todo \notin {<<"binary", "imported", "decide">>,
                                  <<"imported", "decide">>}
              => Readable(Baseline.base.pkg)
         /\ ~replaced => Baseline.base.pkg = installed
         /\ Baseline.todo = <<"reconcile", "decide">> => Baseline.base = previous
         /\ Baseline.todo # <<"reconcile", "decide">>
              => /\ \/ current = Baseline.base
                    \/ Baseline.base.pkg = installed
                    \/ Baseline.base.pkg = worker.image
                 /\ current = NoPointer => previous = NoPointer
<1>1. /\ current \in Pointer \union {NoPointer}
      /\ previous \in Pointer \union {NoPointer}
      /\ installed \in Packages /\ replaced \in BOOLEAN
      /\ worker \in [image : Packages, entry : BOOLEAN]
  BY TypeIs, Zenon DEF SafetyInv
<1>2. \A q \in {current, previous} : Loads(q) <=> q # NoPointer
  BY Zenon DEF SafetyInv, PointersLoad, Loads
<1>3. /\ <<"decide">> # <<"reconcile", "decide">>
      /\ <<"decide">> # <<"binary", "imported", "decide">>
      /\ <<"decide">> # <<"imported", "decide">>
      /\ <<"reconcile", "decide">> # <<"binary", "imported", "decide">>
      /\ <<"reconcile", "decide">> # <<"imported", "decide">>
      /\ <<"imported", "decide">> # <<"binary", "imported", "decide">>
  BY SMT
<1>4. CASE /\ Loads(current) /\ current.pkg = installed
           /\ Baseline.base = current /\ Baseline.todo = <<"decide">>
  BY <1>1, <1>2, <1>3, <1>4, Zenon DEF BasePlans, Loads
<1>5. CASE /\ Loads(previous)
           /\ Loads(current) => previous.pkg = installed
           /\ Baseline.base = previous /\ Baseline.todo = <<"reconcile", "decide">>
  <2>1. ~replaced => previous.pkg = installed
    BY <1>2, <1>5, Zenon DEF SafetyInv, SomePointerNames
  <2> QED BY <1>1, <1>2, <1>3, <1>5, <2>1, Zenon DEF BasePlans, Loads
<1>6. CASE /\ \/ ~Loads(current) /\ ~Loads(previous)
              \/ /\ Loads(current) /\ Loads(previous) /\ worker.entry
                 /\ current.pkg # installed /\ previous.pkg # installed
           /\ Baseline.base = ImportedBase /\ Baseline.todo = ImportPlan(ImportSource)
  <2>1. ImportSource \in Packages /\ ImportSource \in {installed, worker.image}
    BY <1>1, SMT DEF ImportSource
  <2>2. Baseline.base \in Pointer /\ Baseline.base.pkg = ImportSource
    BY <1>6, <2>1, PointerType, SMT DEF ImportedBase
  <2>3. ~replaced => ImportSource = installed
    <3>1. CASE ~Loads(current) /\ ~Loads(previous)
      BY <1>2, <3>1, Zenon DEF SafetyInv, FirstStart, ImportSource
    <3>2. CASE worker.entry
      BY <3>2, Zenon DEF ImportSource
    <3> QED BY <1>6, <3>1, <3>2, Zenon
  <2>4. current = NoPointer => previous = NoPointer
    BY <1>2, <1>6, Zenon
  <2>5. CASE Readable(ImportSource) /\ Baseline.todo = <<"decide">>
    BY <1>3, <2>1, <2>2, <2>3, <2>4, <2>5, Zenon DEF BasePlans
  <2>6. CASE files[ImportSource] = {"dir", "binary"} /\ Baseline.todo = <<"imported", "decide">>
    BY <1>3, <2>1, <2>2, <2>3, <2>4, <2>6, Zenon DEF BasePlans
  <2>7. CASE files[ImportSource] \subseteq {"dir"} /\ Baseline.todo = <<"binary", "imported", "decide">>
    BY <1>3, <2>1, <2>2, <2>3, <2>4, <2>7, Zenon DEF BasePlans
  <2> QED BY <1>6, <2>5, <2>6, <2>7, ImportPlanIs, Zenon
<1> QED BY <1>4, <1>5, <1>6, BaselineCases, Zenon

\* Activate keeps the invariant.
LEMMA ActivateStep ==
  ASSUME SafetyInv, NEW v \in Versions, Activate(v) PROVE SafetyInv'
<1>1. UNCHANGED <<disk, worker, parents, staged>> /\ Readable(staged)
  BY Zenon DEF Activate
<1>2. CASE Baseline.todo = <<>>
  BY <1>1, <1>2, ReturnKeeps, Zenon DEF Activate
<1>3. CASE Baseline.todo # <<>>
  <2>1. staged \in Packages /\ staged # worker.image
    BY TypeIs, Zenon DEF SafetyInv, StagedIsPending, Activate
  <2>2. PICK todo, base : todo = Baseline.todo /\ base = Baseline.base
    OBVIOUS
  <2>3. /\ todo \in BasePlans /\ base \in Pointer
        /\ todo = <<"binary", "imported", "decide">> => files[base.pkg] \subseteq {"dir"}
        /\ todo = <<"imported", "decide">> => {"dir", "binary"} \subseteq files[base.pkg]
        /\ todo \notin {<<"binary", "imported", "decide">>, <<"imported", "decide">>}
             => Readable(base.pkg)
        /\ ~replaced => base.pkg = installed
        /\ todo = <<"reconcile", "decide">> => base = previous
        /\ todo # <<"reconcile", "decide">>
             => /\ current = base \/ base.pkg = installed \/ base.pkg = worker.image
                /\ current = NoPointer => previous = NoPointer
    BY <1>3, <2>2, BaselineHolds, Zenon
  <2>4. mgr' = [NoCall EXCEPT !.todo = todo, !.pkg = staged, !.version = v,
                              !.base = base]
    BY <1>3, <2>2, Zenon DEF Activate
  <2>5. /\ mgr' \in Calls /\ mgr'.todo = todo /\ mgr'.pkg = staged
        /\ mgr'.base = base /\ mgr'.victims = {}
    BY <2>1, <2>3, <2>4, ActivateCall, Zenon DEF Plans
  <2>6. TypeOK'
    BY <1>1, <2>5, TypeIs, TypeIsNext, Zenon DEF SafetyInv, disk
  <2>7. UNCHANGED <<files, current, previous, installed, replaced, worker, staged>>
    BY <1>1, SMT DEF disk
  <2>8. DirectoriesHold' /\ PointersLoad' /\ SomePointerNames' /\ FirstStart'
    BY <2>5, <2>7, SMT DEF SafetyInv, DirectoriesHold, PointersLoad, SomePointerNames,
                           FirstStart, Readable
  <2>9. StagedIsPending'
    BY <2>1, <2>5, <2>7, SMT DEF StagedIsPending
  <2>10. StageHolds' /\ VictimsAreObsolete'
    BY <2>3, <2>5, Activating, Zenon
  <2>11. mgr'.todo \notin ForwardPlans \union BackPlans
    BY <2>3, <2>5, PlansDiffer, Zenon
  <2>12. ForwardHolds' /\ BackHolds'
    BY <2>11, Zenon DEF ForwardHolds, BackHolds, ForwardPlans, BackPlans
  <2>13. ActivateReads'
    BY <1>1, <2>1, <2>3, <2>5, <2>7, SMT DEF ActivateReads, Readable
  <2>14. BaseHolds'
    BY <2>1, <2>3, <2>5, <2>7, SMT DEF BaseHolds, BaseNames, Changed
  <2> QED BY <2>6, <2>8, <2>9, <2>10, <2>12, <2>13, <2>14, Zenon DEF SafetyInv
<1> QED BY <1>2, <1>3, Zenon

----------------------------------------------------------------------------
(* The steps that write pointers and the executable *)

\* The pointers or the executable change, and packages stay readable.
LEMMA PointersChange ==
  ASSUME SafetyInv,
         mgr.todo \in BasePlans \union ForwardPlans \union BackPlans,
         UNCHANGED <<files, aged, worker, parents, staged>>,
         mgr' \in Calls, mgr'.victims = {}, mgr'.pkg \in {mgr.pkg, NoPackage},
         current' \in Pointer \union {NoPointer},
         previous' \in Pointer \union {NoPointer},
         \A q \in {current', previous'} \ {NoPointer} : Readable(q.pkg),
         installed' \in Packages, replaced' \in BOOLEAN
  PROVE  /\ TypeOK' /\ DirectoriesHold' /\ PointersLoad' /\ StagedIsPending'
<1>1. TypeOK'
  BY TypeIs, TypeIsNext, Zenon DEF SafetyInv
<1>2. DirectoriesHold' /\ PointersLoad'
  BY SMT DEF SafetyInv, DirectoriesHold, PointersLoad, Readable
<1>3. NoPackage # worker.image
  BY TypeIs, PointerType, SMT DEF SafetyInv
<1>4. StagedIsPending'
  BY <1>3, SMT DEF SafetyInv, StagedIsPending
<1> QED BY <1>1, <1>2, <1>4, Zenon

\* An activation goes on from its baseline: it can still read what it needs.
LEMMA ActivateGoesOn ==
  ASSUME SafetyInv,
         mgr.todo \in (BasePlans \union ForwardPlans \union BackPlans)
           \ {<<"binary", "imported", "decide">>, <<"imported", "decide">>},
         mgr'.todo \in ForwardPlans \union BackPlans \union {<<"decide">>},
         mgr'.pkg = mgr.pkg, mgr'.base = mgr.base, mgr'.victims = {},
         UNCHANGED files
  PROVE  StageHolds' /\ VictimsAreObsolete' /\ ActivateReads'
<1>1. mgr'.todo \in BasePlans \union ForwardPlans \union BackPlans
  BY Zenon DEF BasePlans
<1>2. StageHolds' /\ VictimsAreObsolete'
  BY <1>1, Activating, Zenon
<1>3. mgr.pkg \in Packages /\ Readable(mgr.pkg) /\ mgr.base \in Pointer
  BY ActivateHas, Zenon
<1>4. Readable(mgr.base.pkg)
  BY BaseReads, Zenon
<1>5. mgr'.todo \notin {<<"binary", "imported", "decide">>, <<"imported", "decide">>}
  <2>1. /\ <<"decide">> # <<"binary", "imported", "decide">>
        /\ <<"decide">> # <<"imported", "decide">>
    BY SMT
  <2>2. {<<"binary", "imported", "decide">>, <<"imported", "decide">>} \subseteq BasePlans
    BY Zenon DEF BasePlans
  <2> QED BY <2>1, <2>2, PlansDiffer, Zenon
<1>6. ActivateReads'
  BY <1>3, <1>4, <1>5, SMT DEF ActivateReads, Readable
<1> QED BY <1>2, <1>6, Zenon

\* What an activation goes back to, and where it goes, can be read.
LEMMA PointersReadable ==
  ASSUME SafetyInv,
         mgr.todo \in (BasePlans \union ForwardPlans \union BackPlans)
           \ {<<"binary", "imported", "decide">>, <<"imported", "decide">>}
  PROVE  /\ mgr.base \in Pointer /\ Readable(mgr.base.pkg) /\ mgr.base # NoPointer
         /\ NextPointer \in Pointer /\ Readable(NextPointer.pkg)
         /\ NextPointer.pkg = mgr.pkg /\ NextPointer # NoPointer
         /\ current \in Pointer \union {NoPointer}
         /\ previous \in Pointer \union {NoPointer}
         /\ \A q \in {current, previous} \ {NoPointer} : Readable(q.pkg)
<1>1. /\ mgr \in Calls /\ mgr.pkg \in Packages /\ Readable(mgr.pkg)
      /\ mgr.base \in Pointer
  BY ActivateHas, Zenon
<1>2. Readable(mgr.base.pkg)
  BY BaseReads, Zenon
<1>3. NextPointer \in Pointer /\ NextPointer.pkg = mgr.pkg
  BY <1>1, PointerType, SMT DEF NextPointer, Calls
<1>4. mgr.base # NoPointer /\ NextPointer # NoPointer
  BY <1>1, <1>3, PointerType, Zenon
<1>5. /\ current \in Pointer \union {NoPointer}
      /\ previous \in Pointer \union {NoPointer}
      /\ \A q \in {current, previous} \ {NoPointer} : Readable(q.pkg)
  BY TypeIs, Zenon DEF SafetyInv, PointersLoad
<1> QED BY <1>1, <1>2, <1>3, <1>4, <1>5, Zenon

\* How the plan of an activation continues, when it changes to todo.
LEMMA PlanGoesTo ==
  ASSUME SafetyInv,
         mgr.todo \in (BasePlans \union ForwardPlans \union BackPlans)
           \ {<<"binary", "imported", "decide">>, <<"imported", "decide">>},
         NEW todo \in ForwardPlans \union BackPlans \union {<<"decide">>},
         mgr' = [mgr EXCEPT !.todo = todo],
         UNCHANGED <<files, imported, aged, worker, parents, staged>>,
         current' \in {current, previous, mgr.base, NextPointer},
         previous' \in {previous, mgr.base, NextPointer},
         installed' \in Packages, replaced' \in BOOLEAN
  PROVE  /\ TypeOK' /\ DirectoriesHold' /\ PointersLoad' /\ StagedIsPending'
         /\ StageHolds' /\ VictimsAreObsolete' /\ ActivateReads'
         /\ mgr'.todo = todo /\ mgr'.pkg = mgr.pkg /\ mgr'.base = mgr.base
         /\ mgr'.version = mgr.version
<1>1. mgr \in Calls /\ mgr.victims = {}
  BY ActivateHas, Zenon
<1>2. todo \in Plans
  BY Zenon DEF Plans, BasePlans
<1>3. /\ mgr' \in Calls /\ mgr'.todo = todo /\ mgr'.pkg = mgr.pkg
      /\ mgr'.version = mgr.version /\ mgr'.base = mgr.base /\ mgr'.victims = {}
  BY <1>1, <1>2, PlanChanges, Zenon
<1>4. StageHolds' /\ VictimsAreObsolete' /\ ActivateReads'
  BY <1>3, ActivateGoesOn, Zenon
<1>5. /\ current' \in Pointer \union {NoPointer}
      /\ previous' \in Pointer \union {NoPointer}
      /\ \A q \in {current', previous'} \ {NoPointer} : Readable(q.pkg)
  BY PointersReadable, Zenon
<1>6. TypeOK' /\ DirectoriesHold' /\ PointersLoad' /\ StagedIsPending'
  BY <1>3, <1>5, PointersChange, Zenon
<1> QED BY <1>3, <1>4, <1>6, Zenon

\* Decide keeps the invariant.
LEMMA DecideStep == ASSUME SafetyInv, Decide PROVE SafetyInv'
<1>1. /\ mgr.todo = <<"decide">> /\ mgr.todo \in BasePlans
      /\ UNCHANGED <<disk, worker, parents, staged>>
  BY PlansOf, PlanIs, Zenon DEF Decide, BasePlans
<1>2. CASE Return
  BY <1>1, <1>2, ReturnKeeps, Zenon DEF Return
<1>3. CASE ~Return
  <2>1. PICK todo :
          /\ mgr' = [mgr EXCEPT !.todo = todo]
          /\ \/ Changed /\ todo = ActivatePlan
             \/ ~Changed /\ todo = <<"current", "promote", "exec">>
             \/ ~Changed /\ todo = <<"promote", "exec">>
    BY <1>3, Zenon DEF Decide
  <2>2. todo \in ForwardPlans
    BY <2>1, Zenon DEF ForwardPlans
  <2>3. mgr.todo \in (BasePlans \union ForwardPlans \union BackPlans)
          \ {<<"binary", "imported", "decide">>, <<"imported", "decide">>}
    BY <1>1, SMT
  <2>4. /\ UNCHANGED <<files, imported, aged, worker, parents, staged>>
        /\ UNCHANGED <<current, previous, installed, replaced>>
        /\ installed \in Packages /\ replaced \in BOOLEAN
    BY <1>1, TypeIs, SMT DEF SafetyInv, disk
  <2>5. /\ TypeOK' /\ DirectoriesHold' /\ PointersLoad' /\ StagedIsPending'
        /\ StageHolds' /\ VictimsAreObsolete' /\ ActivateReads'
        /\ mgr'.todo = todo /\ mgr'.pkg = mgr.pkg /\ mgr'.base = mgr.base
        /\ mgr'.version = mgr.version
    BY <2>1, <2>2, <2>3, <2>4, PlanGoesTo, Zenon
  <2>6. mgr'.todo \notin BasePlans \union BackPlans
    BY <2>2, <2>5, PlansDiffer, Zenon
  <2>7. BaseHolds' /\ BackHolds'
    BY <2>6, Zenon DEF BaseHolds, BackHolds, BackPlans
  <2>8. SomePointerNames' /\ FirstStart'
    BY <2>4, SMT DEF SafetyInv, SomePointerNames, FirstStart
  <2>9. /\ BaseNames
        /\ current = mgr.base \/ mgr.base.pkg = installed \/ Changed
        /\ current = NoPointer => previous = NoPointer
    <3>1. <<"decide">> # <<"reconcile", "decide">>
      BY SMT
    <3> QED BY <1>1, <3>1, BaseKnows, Zenon
  <2>10. mgr.base # NoPointer
    BY <2>3, PointersReadable, Zenon
  <2>11. ~Changed /\ current = NoPointer => replaced
    BY <2>9, SMT DEF SafetyInv, FirstStart, StagedIsPending, BaseNames, Changed
  <2>12. ForwardHolds'
    BY <2>1, <2>4, <2>5, <2>9, <2>10, <2>11, SMT
      DEF ForwardHolds, BaseNames, Changed, BothWritten, ActivatePlan
  <2> QED BY <2>5, <2>7, <2>8, <2>12, Zenon DEF SafetyInv
<1> QED BY <1>2, <1>3, Zenon

\* A plan of one kind holds nothing of the others.
LEMMA OneKind ==
  /\ mgr'.todo \in BasePlans => ForwardHolds' /\ BackHolds'
  /\ mgr'.todo \in ForwardPlans => BaseHolds' /\ BackHolds'
  /\ mgr'.todo \in BackPlans => BaseHolds' /\ ForwardHolds'
<1>1. mgr'.todo \notin BasePlans => BaseHolds'
  BY Zenon DEF BaseHolds
<1>2. mgr'.todo \notin ForwardPlans => ForwardHolds'
  BY Zenon DEF ForwardHolds, ForwardPlans
<1>3. mgr'.todo \notin BackPlans => BackHolds'
  BY Zenon DEF BackHolds, BackPlans
<1> QED BY <1>1, <1>2, <1>3, PlansDiffer, Zenon

\* What the executable is, at each write of an activation.
LEMMA ForwardKnows ==
  ASSUME SafetyInv
  PROVE  ForwardHolds /\ BackHolds /\ SomePointerNames /\ FirstStart
BY Zenon DEF SafetyInv

\* The write of current.json that reconciles it keeps the invariant.
LEMMA ReconcileStep ==
  ASSUME SafetyInv, WritePointer, At("reconcile") PROVE SafetyInv'
<1>1. mgr.todo = <<"reconcile", "decide">> /\ mgr.todo \in BasePlans
  BY PlansOf, PlanIs, Zenon DEF BasePlans
<1>2. /\ current' = mgr.base /\ previous' = previous
      /\ UNCHANGED <<files, imported, aged, worker, parents, staged>>
      /\ UNCHANGED <<installed, replaced>> /\ Advance
  BY <1>1, SMT DEF WritePointer, At
<1>3. mgr' = [mgr EXCEPT !.todo = <<"decide">>]
  <2>1. Len(mgr.todo) # 1 /\ Tail(mgr.todo) = <<"decide">>
    BY <1>1, PlanGoesOn, SMT
  <2> QED BY <1>2, <2>1, PlanIs, AdvanceIs, Zenon
<1>4. mgr.todo \in (BasePlans \union ForwardPlans \union BackPlans)
        \ {<<"binary", "imported", "decide">>, <<"imported", "decide">>}
  BY <1>1, SMT
<1>5. installed' \in Packages /\ replaced' \in BOOLEAN
  BY <1>2, TypeIs, SMT DEF SafetyInv
<1>6. /\ TypeOK' /\ DirectoriesHold' /\ PointersLoad' /\ StagedIsPending'
      /\ StageHolds' /\ VictimsAreObsolete' /\ ActivateReads'
      /\ mgr'.todo = <<"decide">> /\ mgr'.pkg = mgr.pkg /\ mgr'.base = mgr.base
  BY <1>2, <1>3, <1>4, <1>5, PlanGoesTo, Zenon
<1>7. mgr'.todo \in BasePlans
  BY <1>6, Zenon DEF BasePlans
<1>8. BaseNames /\ mgr.base = previous
  BY <1>1, BaseKnows, Zenon
<1>9. mgr.base # NoPointer
  BY <1>4, PointersReadable, Zenon
<1>10. BaseHolds'
  <2>1. <<"decide">> # <<"reconcile", "decide">>
    BY SMT
  <2> QED BY <1>2, <1>6, <1>8, <1>9, <2>1, Zenon DEF BaseHolds, BaseNames
<1>11. SomePointerNames' /\ FirstStart'
  BY <1>2, <1>8, <1>9, SMT DEF SomePointerNames, FirstStart, BaseNames
<1> QED BY <1>6, <1>7, <1>10, <1>11, OneKind, Zenon DEF SafetyInv

\* The write of previous.json keeps the invariant.
LEMMA WritePreviousStep ==
  ASSUME SafetyInv, WritePointer, At("previous") PROVE SafetyInv'
<1>1. mgr.todo = ActivatePlan /\ mgr.todo \in ForwardPlans
  BY PlansOf, PlanIs, Zenon DEF ForwardPlans
<1>2. /\ previous' = mgr.base /\ current' = current
      /\ UNCHANGED <<files, imported, aged, worker, parents, staged>>
      /\ UNCHANGED <<installed, replaced>> /\ Advance
  BY <1>1, SMT DEF WritePointer, At, ActivatePlan
<1>3. mgr' = [mgr EXCEPT !.todo = <<"current", "promote", "exec">>]
  <2>1. Len(mgr.todo) # 1 /\ Tail(mgr.todo) = <<"current", "promote", "exec">>
    BY <1>1, PlanGoesOn, SMT
  <2> QED BY <1>2, <2>1, PlanIs, AdvanceIs, Zenon
<1>4. mgr.todo \in (BasePlans \union ForwardPlans \union BackPlans)
        \ {<<"binary", "imported", "decide">>, <<"imported", "decide">>}
  BY <1>1, SMT DEF ActivatePlan
<1>5. installed' \in Packages /\ replaced' \in BOOLEAN
  BY <1>2, TypeIs, SMT DEF SafetyInv
<1>6. <<"current", "promote", "exec">> \in ForwardPlans
  BY Zenon DEF ForwardPlans
<1>7. /\ TypeOK' /\ DirectoriesHold' /\ PointersLoad' /\ StagedIsPending'
      /\ StageHolds' /\ VictimsAreObsolete' /\ ActivateReads'
      /\ mgr'.todo = <<"current", "promote", "exec">> /\ mgr'.pkg = mgr.pkg
      /\ mgr'.base = mgr.base
  BY <1>2, <1>3, <1>4, <1>5, <1>6, PlanGoesTo, Zenon
<1>8. BaseNames /\ mgr.base # NoPointer
  BY <1>1, <1>4, PointersReadable, ForwardKnows, Zenon DEF ForwardHolds
<1>9. ForwardHolds'
  BY <1>2, <1>7, <1>8, SMT DEF ForwardHolds, BaseNames, ActivatePlan
<1>10. SomePointerNames' /\ FirstStart'
  BY <1>2, <1>8, ForwardKnows, SMT DEF SomePointerNames, FirstStart, BaseNames
<1> QED BY <1>6, <1>7, <1>9, <1>10, OneKind, Zenon DEF SafetyInv

\* The write of current.json keeps the invariant.
LEMMA WriteCurrentStep ==
  ASSUME SafetyInv, WritePointer, At("current") PROVE SafetyInv'
<1>1. mgr.todo = <<"current", "promote", "exec">> /\ mgr.todo \in ForwardPlans
  BY PlansOf, PlanIs, Zenon DEF ForwardPlans
<1>2. /\ current' = NextPointer /\ previous' = previous
      /\ UNCHANGED <<files, imported, aged, worker, parents, staged>>
      /\ UNCHANGED <<installed, replaced>> /\ Advance
  BY <1>1, SMT DEF WritePointer, At
<1>3. mgr' = [mgr EXCEPT !.todo = <<"promote", "exec">>]
  <2>1. Len(mgr.todo) # 1 /\ Tail(mgr.todo) = <<"promote", "exec">>
    BY <1>1, PlanGoesOn, SMT
  <2> QED BY <1>2, <2>1, PlanIs, AdvanceIs, Zenon
<1>4. mgr.todo \in (BasePlans \union ForwardPlans \union BackPlans)
        \ {<<"binary", "imported", "decide">>, <<"imported", "decide">>}
  BY <1>1, SMT
<1>5. installed' \in Packages /\ replaced' \in BOOLEAN
  BY <1>2, TypeIs, SMT DEF SafetyInv
<1>6. <<"promote", "exec">> \in ForwardPlans
  BY Zenon DEF ForwardPlans
<1>7. /\ TypeOK' /\ DirectoriesHold' /\ PointersLoad' /\ StagedIsPending'
      /\ StageHolds' /\ VictimsAreObsolete' /\ ActivateReads'
      /\ mgr'.todo = <<"promote", "exec">> /\ mgr'.pkg = mgr.pkg
      /\ mgr'.base = mgr.base /\ mgr'.version = mgr.version
  BY <1>2, <1>3, <1>4, <1>5, <1>6, PlanGoesTo, Zenon
<1>8. /\ BaseNames /\ (Changed => previous = mgr.base)
      /\ mgr.base # NoPointer /\ NextPointer # NoPointer /\ NextPointer.pkg = mgr.pkg
  BY <1>1, <1>4, PointersReadable, ForwardKnows, Zenon DEF ForwardHolds
<1>9. NextPointer' = NextPointer
  BY <1>7, Zenon DEF NextPointer
<1>10. ForwardHolds'
  BY <1>2, <1>7, <1>8, <1>9, SMT
    DEF ForwardHolds, BaseNames, ActivatePlan, Changed, BothWritten
<1>11. SomePointerNames' /\ FirstStart'
  BY <1>2, <1>8, SMT DEF SomePointerNames, FirstStart, BaseNames, Changed
<1> QED BY <1>6, <1>7, <1>10, <1>11, OneKind, Zenon DEF SafetyInv

\* A call ends after it wrote a pointer or the executable.
LEMMA PlanEnds ==
  ASSUME SafetyInv,
         mgr.todo \in (BasePlans \union ForwardPlans \union BackPlans)
           \ {<<"binary", "imported", "decide">>, <<"imported", "decide">>},
         mgr' = NoCall,
         UNCHANGED <<files, imported, aged, worker, parents, staged>>,
         current' \in {current, previous, mgr.base, NextPointer},
         previous' \in {previous, mgr.base, NextPointer},
         installed' \in Packages, replaced' \in BOOLEAN
  PROVE  /\ TypeOK' /\ DirectoriesHold' /\ PointersLoad' /\ StagedIsPending'
         /\ StageHolds' /\ VictimsAreObsolete' /\ ActivateReads'
         /\ BaseHolds' /\ ForwardHolds' /\ BackHolds'
<1>1. /\ mgr' \in Calls /\ mgr'.victims = {} /\ mgr'.pkg = NoPackage
      /\ (StageHolds /\ ActivateReads /\ BaseHolds /\ ForwardHolds /\ BackHolds)'
      /\ VictimsAreObsolete'
  BY CallOver, Zenon
<1>2. /\ current' \in Pointer \union {NoPointer}
      /\ previous' \in Pointer \union {NoPointer}
      /\ \A q \in {current', previous'} \ {NoPointer} : Readable(q.pkg)
  BY PointersReadable, Zenon
<1>3. TypeOK' /\ DirectoriesHold' /\ PointersLoad' /\ StagedIsPending'
  BY <1>1, <1>2, PointersChange, Zenon
<1> QED BY <1>1, <1>3, Zenon

\* The write that restores current.json keeps the invariant.
LEMMA UndoCurrentStep ==
  ASSUME SafetyInv, WritePointer, At("undo_current") PROVE SafetyInv'
<1>1. /\ mgr.todo \in {<<"undo_current", "undo_previous">>, <<"undo_current">>}
      /\ mgr.todo \in BackPlans
  BY PlansOf, PlanIs, Zenon DEF BackPlans
<1>2. /\ current' = UndoPointer /\ previous' = previous
      /\ UNCHANGED <<files, imported, aged, worker, parents, staged>>
      /\ UNCHANGED <<installed, replaced>> /\ Advance
  BY <1>1, SMT DEF WritePointer, At
<1>3. mgr.todo \in (BasePlans \union ForwardPlans \union BackPlans)
        \ {<<"binary", "imported", "decide">>, <<"imported", "decide">>}
  BY <1>1, SMT
<1>4. installed' \in Packages /\ replaced' \in BOOLEAN
  BY <1>2, TypeIs, SMT DEF SafetyInv
<1>5. mgr.base # NoPointer
  BY <1>3, PointersReadable, Zenon
<1>6. current' = mgr.base /\ BaseNames
  BY <1>1, <1>2, ForwardKnows, SMT DEF BackHolds, UndoPointer, BaseNames
<1>7. SomePointerNames' /\ FirstStart'
  BY <1>2, <1>5, <1>6, SMT DEF SomePointerNames, FirstStart, BaseNames
<1>8. CASE mgr.todo = <<"undo_current">>
  <2>1. mgr' = NoCall
    BY <1>2, <1>8, PlanGoesOn, AdvanceEnds, Zenon
  <2>2. /\ TypeOK' /\ DirectoriesHold' /\ PointersLoad' /\ StagedIsPending'
        /\ StageHolds' /\ VictimsAreObsolete' /\ ActivateReads'
        /\ BaseHolds' /\ ForwardHolds' /\ BackHolds'
    BY <1>2, <1>3, <1>4, <1>6, <2>1, PlanEnds, Zenon
  <2> QED BY <1>7, <2>2, Zenon DEF SafetyInv
<1>9. CASE mgr.todo = <<"undo_current", "undo_previous">>
  <2>1. mgr' = [mgr EXCEPT !.todo = <<"undo_previous">>]
    <3>1. Len(mgr.todo) # 1 /\ Tail(mgr.todo) = <<"undo_previous">>
      BY <1>9, PlanGoesOn, SMT
    <3> QED BY <1>2, <3>1, PlanIs, AdvanceIs, Zenon
  <2>2. <<"undo_previous">> \in BackPlans
    BY Zenon DEF BackPlans
  <2>3. /\ TypeOK' /\ DirectoriesHold' /\ PointersLoad' /\ StagedIsPending'
        /\ StageHolds' /\ VictimsAreObsolete' /\ ActivateReads'
        /\ mgr'.todo = <<"undo_previous">> /\ mgr'.pkg = mgr.pkg
        /\ mgr'.base = mgr.base
    BY <1>2, <1>3, <1>4, <1>6, <2>1, <2>2, PlanGoesTo, Zenon
  <2>4. Changed /\ installed = mgr.base.pkg
    BY <1>9, ForwardKnows, Zenon DEF BackHolds
  <2>5. BackHolds'
    BY <1>2, <1>6, <2>3, <2>4, SMT DEF BackHolds, UndoPlan, Changed
  <2> QED BY <1>7, <2>2, <2>3, <2>5, OneKind, Zenon DEF SafetyInv
<1> QED BY <1>1, <1>8, <1>9, Zenon

\* The write that restores previous.json keeps the invariant.
LEMMA UndoPreviousStep ==
  ASSUME SafetyInv, WritePointer, At("undo_previous") PROVE SafetyInv'
<1>1. mgr.todo = <<"undo_previous">> /\ mgr.todo \in BackPlans
  BY PlansOf, PlanIs, Zenon DEF BackPlans
<1>2. /\ previous' = NextPointer /\ current' = current
      /\ UNCHANGED <<files, imported, aged, worker, parents, staged>>
      /\ UNCHANGED <<installed, replaced>> /\ Advance
  BY <1>1, SMT DEF WritePointer, At
<1>3. mgr.todo \in (BasePlans \union ForwardPlans \union BackPlans)
        \ {<<"binary", "imported", "decide">>, <<"imported", "decide">>}
  BY <1>1, SMT
<1>4. installed' \in Packages /\ replaced' \in BOOLEAN
  BY <1>2, TypeIs, SMT DEF SafetyInv
<1>5. mgr' = NoCall
  BY <1>1, <1>2, PlanGoesOn, AdvanceEnds, Zenon
<1>6. /\ TypeOK' /\ DirectoriesHold' /\ PointersLoad' /\ StagedIsPending'
      /\ StageHolds' /\ VictimsAreObsolete' /\ ActivateReads'
      /\ BaseHolds' /\ ForwardHolds' /\ BackHolds'
  BY <1>2, <1>3, <1>4, <1>5, PlanEnds, Zenon
<1>7. current = mgr.base /\ installed = mgr.base.pkg /\ mgr.base # NoPointer
  BY <1>1, <1>3, PointersReadable, ForwardKnows, Zenon DEF BackHolds
<1>8. SomePointerNames' /\ FirstStart'
  BY <1>2, <1>7, SMT DEF SomePointerNames, FirstStart
<1> QED BY <1>6, <1>8, Zenon DEF SafetyInv

\* WritePointer keeps the invariant.
LEMMA WritePointerStep == ASSUME SafetyInv, WritePointer PROVE SafetyInv'
<1>1. \/ At("reconcile") \/ At("previous") \/ At("current")
      \/ At("undo_current") \/ At("undo_previous")
  BY Zenon DEF WritePointer
<1> QED BY <1>1, ReconcileStep, WritePreviousStep, WriteCurrentStep,
           UndoCurrentStep, UndoPreviousStep, Zenon

\* A promotion of pkg: a pointer names it, or the executable was there.
LEMMA PromoteNames ==
  ASSUME NEW pkg, installed' = pkg, UNCHANGED <<current, previous>>,
         replaced' = (replaced /\ installed' = installed
                       /\ \A q \in {current, previous} \ {NoPointer} :
                            q.pkg # installed),
         SomePointerNames,
         \/ \E q \in {current, previous} \ {NoPointer} : q.pkg = pkg
         \/ pkg = installed
  PROVE  SomePointerNames'
<1>1. CASE \E q \in {current, previous} \ {NoPointer} : q.pkg = pkg
  BY <1>1, SMT DEF SomePointerNames
<1>2. CASE /\ pkg = installed
           /\ \A q \in {current, previous} \ {NoPointer} : q.pkg # pkg
  <2>1. CASE replaced
    BY <1>2, <2>1, Zenon DEF SomePointerNames
  <2>2. CASE ~replaced
    <3>1. {current, previous} = {NoPointer}
      BY <1>2, <2>2, Zenon DEF SomePointerNames
    <3> QED BY <3>1, SMT DEF SomePointerNames
  <2> QED BY <2>1, <2>2
<1> QED BY <1>1, <1>2, Zenon

\* The promotion of an activation keeps the invariant.
LEMMA PromoteForwardStep ==
  ASSUME SafetyInv, Promote, At("promote") PROVE SafetyInv'
<1>1. mgr.todo = <<"promote", "exec">> /\ mgr.todo \in ForwardPlans
  BY PlansOf, PlanIs, Zenon DEF ForwardPlans
<1>2. /\ installed' = mgr.pkg /\ current' = current /\ previous' = previous
      /\ UNCHANGED <<files, imported, aged, worker, parents, staged>> /\ Advance
      /\ replaced' = (replaced /\ installed' = installed
                       /\ \A q \in {current, previous} \ {NoPointer} :
                            q.pkg # installed)
  BY <1>1, SMT DEF Promote, At
<1>3. mgr' = [mgr EXCEPT !.todo = <<"exec">>]
  <2>1. Len(mgr.todo) # 1 /\ Tail(mgr.todo) = <<"exec">>
    BY <1>1, PlanGoesOn, SMT
  <2> QED BY <1>2, <2>1, PlanIs, AdvanceIs, Zenon
<1>4. mgr.todo \in (BasePlans \union ForwardPlans \union BackPlans)
        \ {<<"binary", "imported", "decide">>, <<"imported", "decide">>}
  BY <1>1, SMT
<1>5. mgr.pkg \in Packages /\ replaced \in BOOLEAN
  BY <1>1, ActivateHas, TypeIs, Zenon DEF SafetyInv
<1>6. installed' \in Packages /\ replaced' \in BOOLEAN
  BY <1>2, <1>5, SMT
<1>7. <<"exec">> \in ForwardPlans
  BY Zenon DEF ForwardPlans
<1>8. /\ TypeOK' /\ DirectoriesHold' /\ PointersLoad' /\ StagedIsPending'
      /\ StageHolds' /\ VictimsAreObsolete' /\ ActivateReads'
      /\ mgr'.todo = <<"exec">> /\ mgr'.pkg = mgr.pkg
      /\ mgr'.base = mgr.base /\ mgr'.version = mgr.version
  BY <1>2, <1>3, <1>4, <1>6, <1>7, PlanGoesTo, Zenon
<1>9. /\ BaseNames /\ (Changed => BothWritten)
      /\ \/ current # NoPointer /\ current.pkg = mgr.pkg
         \/ ~Changed /\ mgr.base.pkg = installed
      /\ current = NoPointer => previous = NoPointer /\ replaced
      /\ SomePointerNames
  BY <1>1, ForwardKnows, Zenon DEF ForwardHolds
<1>10. SomePointerNames'
  BY <1>2, <1>9, PromoteNames, SMT DEF Changed
<1>11. current = NoPointer => replaced'
  <2> SUFFICES ASSUME current = NoPointer PROVE replaced'
    OBVIOUS
  <2>1. previous = NoPointer /\ replaced /\ mgr.base.pkg = mgr.pkg /\ mgr.base.pkg = installed
    BY <1>9, Zenon DEF Changed
  <2>2. installed' = installed
    BY <1>2, <2>1, Zenon
  <2>3. \A q \in {current, previous} \ {NoPointer} : q.pkg # installed
    BY <2>1, Zenon
  <2> QED BY <1>2, <2>1, <2>2, <2>3, Zenon
<1>12. FirstStart'
  BY <1>2, <1>11, SMT DEF FirstStart
<1>13. ForwardHolds'
  <2>1. NextPointer' = NextPointer
    BY <1>8, Zenon DEF NextPointer
  <2>2. installed' = mgr.pkg /\ current' = current /\ previous' = previous
    BY <1>2, Zenon
  <2>3. Changed' <=> Changed
    BY <1>8, Zenon DEF Changed
  <2>4. (Changed => BothWritten)'
    BY <1>8, <1>9, <2>1, <2>2, <2>3, Zenon DEF BothWritten
  <2>5. (current = NoPointer => replaced)'
    BY <1>11, <2>2, Zenon
  <2>6. /\ <<"exec">> # ActivatePlan /\ <<"exec">> # <<"current", "promote", "exec">>
        /\ <<"exec">> # <<"promote", "exec">>
    BY SMT DEF ActivatePlan
  <2> QED BY <1>8, <2>2, <2>4, <2>5, <2>6, Zenon DEF ForwardHolds
<1> QED BY <1>7, <1>8, <1>10, <1>12, <1>13, OneKind, Zenon DEF SafetyInv

\* The promotion that undoes one keeps the invariant.
LEMMA PromoteBackStep ==
  ASSUME SafetyInv, Promote, At("undo_promote") PROVE SafetyInv'
<1>1. mgr.todo = UndoPlan /\ mgr.todo \in BackPlans
  BY PlansOf, PlanIs, Zenon DEF BackPlans
<1>2. /\ installed' = previous.pkg /\ current' = current /\ previous' = previous
      /\ UNCHANGED <<files, imported, aged, worker, parents, staged>> /\ Advance
      /\ replaced' = (replaced /\ installed' = installed
                       /\ \A q \in {current, previous} \ {NoPointer} :
                            q.pkg # installed)
  BY <1>1, SMT DEF Promote, At, UndoPlan
<1>3. mgr' = [mgr EXCEPT !.todo = <<"undo_current", "undo_previous">>]
  <2>1. Len(mgr.todo) # 1 /\ Tail(mgr.todo) = <<"undo_current", "undo_previous">>
    BY <1>1, PlanGoesOn, SMT
  <2> QED BY <1>2, <2>1, PlanIs, AdvanceIs, Zenon
<1>4. mgr.todo \in (BasePlans \union ForwardPlans \union BackPlans)
        \ {<<"binary", "imported", "decide">>, <<"imported", "decide">>}
  BY <1>1, SMT DEF UndoPlan
<1>5. Changed /\ previous = mgr.base /\ current = NextPointer /\ SomePointerNames
  BY <1>1, ForwardKnows, Zenon DEF BackHolds, BothWritten
<1>6. mgr.base # NoPointer /\ NextPointer # NoPointer
  BY <1>4, PointersReadable, Zenon
<1>7. mgr.base.pkg \in Packages /\ replaced \in BOOLEAN
  BY <1>1, ActivateHas, TypeIs, Zenon DEF SafetyInv
<1>8. installed' \in Packages /\ replaced' \in BOOLEAN
  BY <1>2, <1>5, <1>7, SMT
<1>9. <<"undo_current", "undo_previous">> \in BackPlans
  BY Zenon DEF BackPlans
<1>10. /\ TypeOK' /\ DirectoriesHold' /\ PointersLoad' /\ StagedIsPending'
       /\ StageHolds' /\ VictimsAreObsolete' /\ ActivateReads'
       /\ mgr'.todo = <<"undo_current", "undo_previous">> /\ mgr'.pkg = mgr.pkg
       /\ mgr'.base = mgr.base
  BY <1>2, <1>3, <1>4, <1>8, <1>9, PlanGoesTo, Zenon
<1>11. SomePointerNames' /\ FirstStart'
  BY <1>2, <1>5, <1>6, SMT DEF SomePointerNames, FirstStart
<1>12. BackHolds'
  BY <1>2, <1>5, <1>10, SMT DEF BackHolds, Changed, UndoPlan
<1> QED BY <1>9, <1>10, <1>11, <1>12, OneKind, Zenon DEF SafetyInv

\* An activation that is undone keeps the invariant.
LEMMA UndoStep ==
  ASSUME SafetyInv, Undo, UNCHANGED <<disk, worker, parents, staged>>,
         mgr.todo \in {<<"promote", "exec">>, <<"exec">>}
  PROVE  SafetyInv'
<1>1. mgr.todo \in ForwardPlans
  BY Zenon DEF ForwardPlans
<1>2. mgr.todo \in (BasePlans \union ForwardPlans \union BackPlans)
        \ {<<"binary", "imported", "decide">>, <<"imported", "decide">>}
  BY <1>1, SMT
<1>3. /\ UNCHANGED <<files, imported, aged, worker, parents, staged>>
      /\ UNCHANGED <<current, previous, installed, replaced>>
      /\ installed' \in Packages /\ replaced' \in BOOLEAN
  BY TypeIs, SMT DEF SafetyInv, disk
<1>4. PICK todo : /\ mgr' = [mgr EXCEPT !.todo = todo]
                  /\ \/ Changed /\ todo = UndoPlan
                     \/ ~Changed /\ todo = <<"undo_current">>
  BY Zenon DEF Undo
<1>5. todo \in BackPlans
  BY <1>4, Zenon DEF BackPlans
<1>6. /\ TypeOK' /\ DirectoriesHold' /\ PointersLoad' /\ StagedIsPending'
      /\ StageHolds' /\ VictimsAreObsolete' /\ ActivateReads'
      /\ mgr'.todo = todo /\ mgr'.pkg = mgr.pkg
      /\ mgr'.base = mgr.base /\ mgr'.version = mgr.version
  BY <1>2, <1>3, <1>4, <1>5, PlanGoesTo, Zenon
<1>7. /\ Changed => BothWritten
      /\ ~Changed => BaseNames
  BY ForwardKnows, SMT DEF ForwardHolds, Changed, BaseNames
<1>8. NextPointer' = NextPointer
  BY <1>6, Zenon DEF NextPointer
<1>9. BackHolds'
  BY <1>3, <1>4, <1>6, <1>7, <1>8, SMT
    DEF BackHolds, Changed, BothWritten, BaseNames, UndoPlan
<1>10. SomePointerNames' /\ FirstStart'
  BY <1>3, ForwardKnows, SMT DEF SomePointerNames, FirstStart
<1> QED BY <1>5, <1>6, <1>9, <1>10, OneKind, Zenon DEF SafetyInv

\* Promote keeps the invariant.
LEMMA PromoteStep == ASSUME SafetyInv, Promote PROVE SafetyInv'
<1>1. At("promote") \/ At("undo_promote")
  BY Zenon DEF Promote
<1> QED BY <1>1, PromoteForwardStep, PromoteBackStep, Zenon

\* PromoteFails keeps the invariant.
LEMMA PromoteFailsStep == ASSUME SafetyInv, PromoteFails PROVE SafetyInv'
<1>1. UNCHANGED <<disk, worker, parents, staged>>
  BY Zenon DEF PromoteFails
<1>2. CASE At("promote") /\ Undo
  <2>1. mgr.todo \in {<<"promote", "exec">>, <<"exec">>}
    BY <1>2, PlansOf, PlanIs, Zenon
  <2> QED BY <1>1, <1>2, <2>1, UndoStep, Zenon
<1>3. CASE Return
  BY <1>1, <1>3, ReturnKeeps, Zenon DEF Return
<1> QED BY <1>2, <1>3, Zenon DEF PromoteFails

\* ExecFails keeps the invariant.
LEMMA ExecFailsStep == ASSUME SafetyInv, ExecFails PROVE SafetyInv'
<1>1. mgr.todo \in {<<"promote", "exec">>, <<"exec">>}
  BY PlansOf, PlanIs, Zenon DEF ExecFails
<1> QED BY <1>1, UndoStep, Zenon DEF ExecFails

\* WritePointerFails keeps the invariant.
LEMMA WritePointerFailsStep ==
  ASSUME SafetyInv, WritePointerFails PROVE SafetyInv'
BY ReturnKeeps, Zenon DEF WritePointerFails, Return

----------------------------------------------------------------------------
(* Processes, time and the package manager *)

\* A process takes over with no call under way, or one exits: the disk is as it
\* was.
LEMMA ProcessChange ==
  ASSUME SafetyInv, UNCHANGED disk, mgr' = NoCall, staged' = NoPackage,
         worker' \in [image : Packages, entry : BOOLEAN],
         parents' \subseteq Packages,
         current = NoPointer /\ ~replaced
           => worker'.entry /\ (previous = NoPointer => worker'.image = installed)
  PROVE  SafetyInv'
<1>1. /\ mgr' \in Calls /\ mgr'.victims = {} /\ mgr'.pkg = NoPackage
      /\ (StageHolds /\ ActivateReads /\ BaseHolds /\ ForwardHolds /\ BackHolds)'
      /\ VictimsAreObsolete'
  BY CallOver, Zenon
<1>2. UNCHANGED <<files, current, previous, installed, replaced, aged>>
  BY SMT DEF disk
<1>3. TypeOK'
  BY <1>1, <1>2, TypeIs, TypeIsNext, Zenon DEF SafetyInv
<1>4. DirectoriesHold' /\ PointersLoad' /\ SomePointerNames' /\ FirstStart'
  BY <1>1, <1>2, SMT DEF SafetyInv, DirectoriesHold, PointersLoad, SomePointerNames,
                         FirstStart, Readable
<1>5. StagedIsPending'
  BY <1>1, PointerType, SMT DEF StagedIsPending
<1> QED BY <1>1, <1>3, <1>4, <1>5, Zenon DEF SafetyInv

\* Exec keeps the invariant.
LEMMA ExecStep == ASSUME SafetyInv, Exec PROVE SafetyInv'
<1>1. mgr.todo = <<"exec">> /\ mgr.todo \in ForwardPlans
  BY PlansOf, PlanIs, Zenon DEF Exec, ForwardPlans
<1>2. /\ worker' = [image |-> mgr.pkg, entry |-> FALSE]
      /\ parents' \in {parents, parents \union {worker.image}}
      /\ staged' = NoPackage /\ mgr' = NoCall /\ UNCHANGED disk
  BY Zenon DEF Exec
<1>3. mgr.pkg \in Packages
  BY <1>1, ActivateHas, Zenon
<1>4. worker \in [image : Packages, entry : BOOLEAN] /\ parents \subseteq Packages
  BY TypeIs, Zenon DEF SafetyInv
<1>5. worker' \in [image : Packages, entry : BOOLEAN] /\ parents' \subseteq Packages
  BY <1>2, <1>3, <1>4, SMT
<1>6. current = NoPointer => replaced
  BY <1>1, ForwardKnows, Zenon DEF ForwardHolds
<1> QED BY <1>2, <1>5, <1>6, ProcessChange, Zenon

\* Crash keeps the invariant.
LEMMA CrashStep == ASSUME SafetyInv, Crash PROVE SafetyInv'
<1>1. installed \in Packages
  BY TypeIs, Zenon DEF SafetyInv
<1>2. /\ worker' = [image |-> installed, entry |-> TRUE] /\ parents' = {}
      /\ staged' = NoPackage /\ mgr' = NoCall /\ UNCHANGED disk
  BY Zenon DEF Crash
<1>3. /\ worker' \in [image : Packages, entry : BOOLEAN] /\ parents' \subseteq Packages
      /\ worker'.entry /\ worker'.image = installed
  BY <1>1, <1>2, SMT
<1> QED BY <1>2, <1>3, ProcessChange, Zenon

\* What a plan holds does not depend on processes, on age, or on the executable
\* when no call is under way.
LEMMA CallKept ==
  ASSUME SafetyInv, UNCHANGED <<files, current, previous, mgr>>,
         Idle \/ UNCHANGED <<installed, replaced>>
  PROVE  (StageHolds /\ ActivateReads /\ BaseHolds /\ ForwardHolds /\ BackHolds)'
<1>1. CASE Idle
  <2>1. mgr'.todo \in {<<>>, <<"cleanup">>} \union StagePlans
    BY <1>1, Zenon DEF Idle
  <2>2. StageHolds'
    BY SMT DEF SafetyInv, StageHolds
  <2> QED BY <2>1, <2>2, NotActivating, Zenon
<1>2. CASE UNCHANGED <<installed, replaced>>
  <2>1. UNCHANGED <<files, current, previous, mgr, installed, replaced>>
    BY <1>2, SMT
  <2>2. StageHolds' /\ ActivateReads'
    BY <2>1, SMT DEF SafetyInv, StageHolds, ActivateReads, Readable
  <2>3. BaseHolds'
    BY <2>1, SMT DEF SafetyInv, BaseHolds, BaseNames, Changed
  <2>4. ForwardHolds'
    BY <2>1, SMT DEF SafetyInv, ForwardHolds, BaseNames, Changed, BothWritten, NextPointer
  <2>5. BackHolds'
    BY <2>1, SMT DEF SafetyInv, BackHolds, BaseNames, Changed, BothWritten, NextPointer
  <2> QED BY <2>2, <2>3, <2>4, <2>5, Zenon
<1> QED BY <1>1, <1>2, Zenon

\* ParentExits keeps the invariant.
LEMMA ParentExitsStep ==
  ASSUME SafetyInv, NEW p \in Packages, ParentExits(p) PROVE SafetyInv'
<1>1. /\ UNCHANGED <<files, current, previous, mgr>>
      /\ UNCHANGED <<installed, replaced>>
      /\ UNCHANGED <<aged, worker, staged>> /\ parents' = parents \ {p}
  BY SMT DEF ParentExits, disk
<1>2. (StageHolds /\ ActivateReads /\ BaseHolds /\ ForwardHolds /\ BackHolds)'
  BY <1>1, CallKept, Zenon
<1>3. parents' \subseteq Packages
  BY <1>1, TypeIs, Zenon DEF SafetyInv
<1>4. TypeOK'
  BY <1>1, <1>3, TypeIs, TypeIsNext, Zenon DEF SafetyInv
<1>5. VictimsAreObsolete'
  BY <1>1, SMT DEF SafetyInv, VictimsAreObsolete, Needed, Running
<1>6. DirectoriesHold' /\ PointersLoad' /\ SomePointerNames' /\ FirstStart' /\ StagedIsPending'
  BY <1>1, SMT DEF SafetyInv, DirectoriesHold, PointersLoad, SomePointerNames,
                   FirstStart, StagedIsPending, Readable
<1> QED BY <1>2, <1>4, <1>5, <1>6, Zenon DEF SafetyInv

\* Age keeps the invariant.
LEMMA AgeStep == ASSUME SafetyInv, NEW p \in Packages, Age(p) PROVE SafetyInv'
<1>1. /\ UNCHANGED <<files, current, previous, mgr>>
      /\ UNCHANGED <<installed, replaced>>
      /\ UNCHANGED <<worker, parents, staged>> /\ aged' = aged \union {p}
  BY SMT DEF Age
<1>2. (StageHolds /\ ActivateReads /\ BaseHolds /\ ForwardHolds /\ BackHolds)'
  BY <1>1, CallKept, Zenon
<1>3. aged' \subseteq Packages
  BY <1>1, TypeIs, Zenon DEF SafetyInv
<1>4. TypeOK'
  BY <1>1, <1>3, TypeIs, TypeIsNext, Zenon DEF SafetyInv
<1>5. VictimsAreObsolete'
  BY <1>1, SMT DEF SafetyInv, VictimsAreObsolete, Needed, Running
<1>6. DirectoriesHold' /\ PointersLoad' /\ SomePointerNames' /\ FirstStart' /\ StagedIsPending'
  BY <1>1, SMT DEF SafetyInv, DirectoriesHold, PointersLoad, SomePointerNames,
                   FirstStart, StagedIsPending, Readable
<1> QED BY <1>2, <1>4, <1>5, <1>6, Zenon DEF SafetyInv

\* Reinstall keeps the invariant.
LEMMA ReinstallStep ==
  ASSUME SafetyInv, NEW p \in Packages, Reinstall(p) PROVE SafetyInv'
<1>1. /\ UNCHANGED <<files, current, previous, mgr>>
      /\ UNCHANGED <<aged, worker, parents, staged>>
      /\ installed' = p /\ replaced' = TRUE /\ Idle
  BY SMT DEF Reinstall
<1>2. (StageHolds /\ ActivateReads /\ BaseHolds /\ ForwardHolds /\ BackHolds)'
  BY <1>1, CallKept, Zenon
<1>3. installed' \in Packages /\ replaced' \in BOOLEAN
  BY <1>1, Zenon
<1>4. TypeOK'
  BY <1>1, <1>3, TypeIs, TypeIsNext, Zenon DEF SafetyInv
<1>5. VictimsAreObsolete'
  BY <1>1, SMT DEF SafetyInv, VictimsAreObsolete, Needed, Running
<1>6. DirectoriesHold' /\ PointersLoad' /\ StagedIsPending'
  BY <1>1, SMT DEF SafetyInv, DirectoriesHold, PointersLoad, StagedIsPending, Readable
<1>7. SomePointerNames' /\ FirstStart'
  BY <1>1, Zenon DEF SomePointerNames, FirstStart
<1> QED BY <1>2, <1>4, <1>5, <1>6, <1>7, Zenon DEF SafetyInv

\* RemoveFile keeps the invariant.
LEMMA RemoveFileStep ==
  ASSUME SafetyInv, NEW p \in Packages, RemoveFile(p) PROVE SafetyInv'
<1>1. /\ At("cleanup") /\ p \in mgr.victims
      /\ files' = [files EXCEPT ![p] = @ \ {NextFile(p)}]
      /\ mgr' = [mgr EXCEPT !.victims = IF files'[p] = {} THEN @ \ {p} ELSE @]
      /\ aged' \subseteq aged
      /\ UNCHANGED <<current, previous, installed, replaced, worker, parents, staged>>
  BY SMT DEF RemoveFile
<1>2. files \in [Packages -> Directories] /\ mgr \in Calls /\ aged \subseteq Packages
  BY TypeIs, Zenon DEF SafetyInv
<1>3. /\ mgr' \in Calls /\ mgr'.todo = mgr.todo /\ mgr'.pkg = mgr.pkg
      /\ mgr'.victims \subseteq mgr.victims
  <2>1. PICK victims : victims = IF files'[p] = {} THEN mgr.victims \ {p} ELSE mgr.victims
    OBVIOUS
  <2>2. mgr.victims \in Removals
    BY <1>2, SMT DEF Calls
  <2>3. victims \in Removals /\ victims \subseteq mgr.victims
    BY <2>1, <2>2, SMT DEF Removals
  <2>4. mgr' = [mgr EXCEPT !.victims = victims]
    BY <1>1, <2>1, Zenon
  <2> QED BY <1>2, <2>3, <2>4, SMT DEF Calls
<1>4. files[p] \subseteq Full /\ (files[p] = {} \/ "dir" \in files[p])
  BY <1>1, Zenon DEF SafetyInv, DirectoriesHold
<1>5. /\ files' \in [Packages -> Directories]
      /\ files'[p] \subseteq files[p] /\ (files'[p] = {} \/ "dir" \in files'[p])
      /\ \A q \in Packages \ {p} : files'[q] = files[q]
  <2>1. files'[p] = files[p] \ {NextFile(p)}
    BY <1>1, <1>2, SMT
  <2>2. files'[p] \in Directories
    BY <1>2, <2>1, SMT DEF Directories
  <2>3. files'[p] = {} \/ "dir" \in files'[p]
    BY <1>4, <2>1, SMT DEF NextFile, Full
  <2> QED BY <1>1, <1>2, <2>1, <2>2, <2>3, SMT
<1>6. TypeOK'
  BY <1>1, <1>2, <1>3, <1>5, TypeIs, TypeIsNext, Zenon DEF SafetyInv
<1>7. DirectoriesHold'
  <2>1. /\ \A q \in Packages : files[q] = {} \/ "dir" \in files[q]
        /\ \A q \in mgr.victims : files[q] \subseteq Full
    BY Zenon DEF SafetyInv, DirectoriesHold
  <2>2. \A q \in Packages : files'[q] = {} \/ "dir" \in files'[q]
    BY <1>5, <2>1, Zenon
  <2>3. mgr'.victims \subseteq Packages
    BY <1>2, <1>3, SMT DEF Calls, Removals
  <2>4. ASSUME NEW q \in mgr'.victims PROVE files'[q] \subseteq Full
    <3>1. CASE q = p
      BY <1>4, <1>5, <3>1, SMT
    <3>2. CASE q # p
      BY <1>3, <1>5, <2>1, <2>3, <3>2, Zenon
    <3> QED BY <3>1, <3>2, Zenon
  <2> QED BY <2>2, <2>4, Zenon DEF DirectoriesHold
<1>8. VictimsAreObsolete'
  BY <1>1, <1>3, SMT DEF SafetyInv, VictimsAreObsolete, Needed, Running
<1>9. PointersLoad'
  <2>1. \A q \in {current, previous} \ {NoPointer} : q.pkg # p /\ q.pkg \in Packages
    BY <1>1, TypeIs, PointerType, SMT DEF SafetyInv, VictimsAreObsolete, Needed
  <2> QED BY <1>1, <1>5, <2>1, SMT DEF SafetyInv, PointersLoad, Readable
<1>10. SomePointerNames' /\ FirstStart' /\ StagedIsPending'
  BY <1>1, <1>3, SMT DEF SafetyInv, SomePointerNames, FirstStart, StagedIsPending
<1>11. mgr.todo \in {<<"cleanup">>, <<"cleanup", "lookup">>}
  BY <1>1, PlansOf, PlanIs, Zenon
<1>12. mgr'.todo \in {<<>>, <<"cleanup">>} \union StagePlans
  BY <1>3, <1>11, Zenon DEF StagePlans
<1>13. (ActivateReads /\ BaseHolds /\ ForwardHolds /\ BackHolds)'
  BY <1>12, NotActivating, Zenon
<1>14. StageHolds'
  BY <1>3, <1>11, SMT DEF SafetyInv, StageHolds, StagePlans
<1> QED BY <1>6, <1>7, <1>8, <1>9, <1>10, <1>13, <1>14, Zenon DEF SafetyInv

----------------------------------------------------------------------------
(* The invariant *)

\* A first start satisfies the invariant.
LEMMA InitHolds == ASSUME Init PROVE SafetyInv
<1>1. /\ mgr \in Calls /\ mgr.todo = <<>> /\ mgr.pkg = NoPackage /\ mgr.victims = {}
  BY NoCallParts, Zenon DEF Init
<1>2. /\ files \in [Packages -> Directories] /\ \A p \in Packages : files[p] = {}
  BY SMT DEF Init, Directories
<1>3. /\ worker \in [image : Packages, entry : BOOLEAN]
      /\ worker.image \in Packages /\ worker.image = installed /\ worker.entry
  BY SMT DEF Init
<1>4. /\ current = NoPointer /\ previous = NoPointer /\ installed \in Packages
      /\ replaced = FALSE /\ parents = {} /\ aged = {} /\ staged = NoPackage
  BY Zenon DEF Init
<1>5. TypeOK
  <2>1. /\ current \in Pointer \union {NoPointer} /\ previous \in Pointer \union {NoPointer}
        /\ replaced \in BOOLEAN /\ parents \subseteq Packages /\ aged \subseteq Packages
        /\ staged \in Packages \union {NoPackage}
    BY <1>4, Zenon
  <2> QED BY <1>1, <1>2, <1>3, <1>4, <2>1, TypeIs, Zenon
<1>6. DirectoriesHold /\ VictimsAreObsolete /\ PointersLoad /\ SomePointerNames
  BY <1>1, <1>2, <1>4, SMT DEF DirectoriesHold, VictimsAreObsolete, PointersLoad, SomePointerNames
<1>7. StagedIsPending /\ FirstStart
  BY <1>1, <1>3, <1>4, PointerType, SMT DEF StagedIsPending, FirstStart
<1>8. mgr.todo \in {<<>>, <<"cleanup">>} \union StagePlans
  BY <1>1, Zenon
<1>9. mgr.todo \notin BasePlans \union ForwardPlans \union BackPlans
  BY <1>8, PlansDiffer, Zenon
<1>10. ActivateReads /\ BaseHolds
  BY <1>9, Zenon DEF ActivateReads, BaseHolds
<1>11. ForwardHolds /\ BackHolds
  BY <1>9, Zenon DEF ForwardHolds, ForwardPlans, BackHolds, BackPlans
<1>12. StageHolds
  BY <1>1, SMT DEF StageHolds, StagePlans
<1> QED BY <1>5, <1>6, <1>7, <1>10, <1>11, <1>12, Zenon DEF SafetyInv

\* A step that changes nothing keeps the invariant.
LEMMA StutterStep == ASSUME SafetyInv, UNCHANGED vars PROVE SafetyInv'
<1>1. /\ UNCHANGED <<files, imported, current, previous, installed, replaced, aged>>
      /\ UNCHANGED <<worker, parents, staged, mgr>>
  BY Zenon DEF vars, disk
<1>2. TypeOK' /\ DirectoriesHold' /\ VictimsAreObsolete'
  BY <1>1, TypeIs, TypeIsNext, Zenon DEF SafetyInv, DirectoriesHold, VictimsAreObsolete, Needed, Running
<1>3. PointersLoad' /\ SomePointerNames' /\ StagedIsPending' /\ FirstStart'
  BY <1>1, SMT DEF SafetyInv, PointersLoad, SomePointerNames, StagedIsPending, FirstStart, Readable
<1>4. (StageHolds /\ ActivateReads /\ BaseHolds /\ ForwardHolds /\ BackHolds)'
  BY <1>1, CallKept, Zenon
<1> QED BY <1>2, <1>3, <1>4, Zenon DEF SafetyInv

\* Every step of the manager, a process, the time or the package manager keeps
\* the invariant.
LEMMA NextHolds == ASSUME SafetyInv, [Next]_vars PROVE SafetyInv'
<1>1. CASE CleanupPackages \/ CleanupEnds \/ StageLookup \/ Download
  BY <1>1, CleanupPackagesStep, CleanupEndsStep, StageLookupStep, DownloadStep, Zenon
<1>2. CASE WriteManifest \/ ImportBinary \/ Decide \/ WritePointer
  BY <1>2, WriteManifestStep, ImportBinaryStep, DecideStep, WritePointerStep, Zenon
<1>3. CASE WritePointerFails \/ Promote \/ PromoteFails
  BY <1>3, WritePointerFailsStep, PromoteStep, PromoteFailsStep, Zenon
<1>4. CASE ExecFails \/ Exec \/ Crash
  BY <1>4, ExecFailsStep, ExecStep, CrashStep, Zenon
<1>5. CASE \E v \in Versions : Activate(v)
  BY <1>5, ActivateStep, Zenon
<1>6. ASSUME NEW p \in Packages, Stage(p) \/ RemoveFile(p) \/ RemoveFails(p)
      PROVE  SafetyInv'
  BY <1>6, StageStep, RemoveFileStep, RemoveFailsStep, Zenon
<1>7. ASSUME NEW p \in Packages, ParentExits(p) \/ Reinstall(p) \/ Age(p)
      PROVE  SafetyInv'
  BY <1>7, ParentExitsStep, ReinstallStep, AgeStep, Zenon
<1>8. CASE UNCHANGED vars
  BY <1>8, StutterStep, Zenon
<1> QED BY <1>1, <1>2, <1>3, <1>4, <1>5, <1>6, <1>7, <1>8, Zenon DEF Next

\* SafetyInv holds in every reachable state of the store and its manager.
THEOREM Safety == Spec => []SafetyInv
<1>1. Init => SafetyInv
  BY InitHolds
<1>2. SafetyInv /\ [Next]_vars => SafetyInv'
  BY NextHolds
<1> QED BY <1>1, <1>2, PTL DEF Spec

\* The store, the processes and the call are of their types.
THEOREM TypeCorrect == Spec => []TypeOK
<1>1. SafetyInv => TypeOK
  BY Zenon DEF SafetyInv
<1> QED BY <1>1, Safety, PTL

----------------------------------------------------------------------------
(* What is installed is known *)

\* What the invariant says of the pointers, the executable and the worker.
LEMMA PointersKnow ==
  ASSUME SafetyInv
  PROVE  /\ \A q \in {current, previous} \ {NoPointer} : Loads(q)
         /\ ~replaced /\ {current, previous} # {NoPointer}
              => \E q \in {current, previous} \ {NoPointer} : q.pkg = installed
         /\ ~Loads(NoPointer)
BY Zenon DEF SafetyInv, PointersLoad, SomePointerNames, Loads

\* The plan that ensureCurrentPackage leaves is never empty when the directory
\* it would import into can be used.
LEMMA ImportIsPlanned ==
  ASSUME NEW p, Stageable(p) PROVE ImportPlan(p) # <<>>
<1>1. /\ <<"decide">> # <<>> /\ <<"imported", "decide">> # <<>>
      /\ <<"binary", "imported", "decide">> # <<>>
  BY SMT
<1>2. ImportPlan(p) = <<>> => ~Stageable(p)
  BY <1>1, ImportPlanIs, Zenon
<1> QED BY <1>2, Zenon

\* A worker finds its baseline, unless a foreign entrypoint is not the one it
\* was started from, or there is only one pointer.
LEMMA BaselineFound ==
  ASSUME SafetyInv,
         replaced => worker.entry /\ (current # NoPointer => previous # NoPointer)
  PROVE  FindsBaseline
<1> SUFFICES ASSUME Baseline.todo = <<>>, Stageable(ImportSource) PROVE FALSE
  BY Zenon DEF FindsBaseline
<1>1. /\ <<"decide">> # <<>> /\ <<"reconcile", "decide">> # <<>>
      /\ ImportPlan(ImportSource) # <<>>
  BY ImportIsPlanned, SMT
<1>2. /\ Loads(current) /\ current.pkg # installed
      /\ ~Loads(previous) \/ (previous.pkg # installed /\ ~worker.entry)
  BY <1>1, BaselineCases, Zenon
<1>3. current # NoPointer
  BY <1>2, PointersKnow, Zenon
<1>4. CASE replaced
  <2>1. worker.entry /\ previous # NoPointer
    BY <1>3, <1>4, Zenon
  <2>2. Loads(previous)
    BY <2>1, PointersKnow, Zenon
  <2> QED BY <1>2, <2>1, <2>2, Zenon
<1>5. CASE ~replaced
  <2>1. PICK q \in {current, previous} \ {NoPointer} : q.pkg = installed
    BY <1>3, <1>5, PointersKnow, Zenon
  <2>2. q = previous /\ Loads(previous) /\ previous.pkg = installed
    BY <1>2, <2>1, PointersKnow, Zenon
  <2>3. ~worker.entry
    BY <1>2, <2>2, Zenon
  <2> QED BY <1>2, <2>2, <2>3, Zenon
<1> QED BY <1>4, <1>5, Zenon

\* Wherever a crash or a failed write hits, the executable is that of a pointer
\* and the next activation finds its baseline (ensureCurrentPackage).
THEOREM InstalledSafety == Spec => []InstalledIsKnown
<1>1. ASSUME SafetyInv PROVE InstalledIsKnown
  <2>1. ~replaced /\ current # NoPointer
          => \E q \in {current, previous} \ {NoPointer} : q.pkg = installed
    BY <1>1, PointersKnow, Zenon
  <2>2. (replaced => worker.entry /\ (current # NoPointer => previous # NoPointer))
          => FindsBaseline
    BY <1>1, BaselineFound, Zenon
  <2> QED BY <2>1, <2>2, Zenon DEF InstalledIsKnown
<1> QED BY <1>1, Safety, PTL

----------------------------------------------------------------------------
(* What is needed is kept *)

\* No step but RemoveFile and those of Stage and of an import touches a file.
LEMMA FilesStay ==
  ASSUME [Next]_vars
  PROVE  \/ UNCHANGED files
         \/ StageLookup \/ Download \/ WriteManifest \/ ImportBinary
         \/ \E p \in Packages : RemoveFile(p)
<1>1. CASE CleanupPackages \/ CleanupEnds \/ Decide \/ WritePointerFails \/ PromoteFails
             \/ ExecFails \/ Exec \/ Crash \/ UNCHANGED vars
  BY <1>1, Zenon DEF CleanupPackages, CleanupEnds, Decide, WritePointerFails,
     PromoteFails, ExecFails, Exec, Crash, vars, disk
<1>2. CASE WritePointer \/ Promote
  BY <1>2, Zenon DEF WritePointer, Promote
<1>3. CASE \E v \in Versions : Activate(v)
  BY <1>3, Zenon DEF Activate, disk
<1>4. CASE \E p \in Packages : Stage(p) \/ RemoveFails(p) \/ ParentExits(p)
                                 \/ Reinstall(p) \/ Age(p)
  BY <1>4, Zenon DEF Stage, RemoveFails, ParentExits, Reinstall, Age, disk
<1> QED BY <1>1, <1>2, <1>3, <1>4, Zenon DEF Next

\* A file that goes with a victim is not one that is needed.
LEMMA RemovedIsNotNeeded ==
  ASSUME SafetyInv, NEW p \in Packages, RemoveFile(p),
         NEW q \in Packages, q \in Needed, Readable(q)
  PROVE  Readable(q)'
<1>1. p \in mgr.victims /\ files' = [files EXCEPT ![p] = @ \ {NextFile(p)}]
  BY SMT DEF RemoveFile
<1>2. p # q
  BY <1>1, Zenon DEF SafetyInv, VictimsAreObsolete
<1>3. files \in [Packages -> Directories]
  BY TypeIs, Zenon DEF SafetyInv
<1> QED BY <1>1, <1>2, <1>3, SMT DEF Readable

\* A write of Stage or of an import leaves every package readable that was.
LEMMA WritesKeep ==
  ASSUME SafetyInv, StageLookup \/ Download \/ WriteManifest \/ ImportBinary,
         NEW q \in Packages, Readable(q)
  PROVE  Readable(q)'
<1>1. files \in [Packages -> Directories]
  BY TypeIs, Zenon DEF SafetyInv
<1>2. CASE StageLookup
  <2>1. \/ UNCHANGED files
        \/ files[mgr.pkg] \subseteq {"dir"} /\ files' = [files EXCEPT ![mgr.pkg] = {}]
    BY <1>2, Zenon DEF StageLookup
  <2> QED BY <1>1, <2>1, SMT DEF Readable
<1>3. CASE Download
  <2>1. mgr.todo = <<"download", "manifest">>
    BY <1>3, PlansOf, PlanIs, Zenon DEF Download
  <2>2. files[mgr.pkg] \subseteq {"dir"}
    BY <2>1, StageFills, Zenon DEF StagePlans
  <2>3. \/ UNCHANGED files
        \/ files' = [files EXCEPT ![mgr.pkg] = {"dir"}]
        \/ files' = [files EXCEPT ![mgr.pkg] = {"dir", "binary"}]
    BY <1>3, Zenon DEF Download
  <2> QED BY <1>1, <2>2, <2>3, SMT DEF Readable
<1>4. CASE WriteManifest
  <2>1. PICK p : p = IF At("manifest") THEN mgr.pkg ELSE mgr.base.pkg
    OBVIOUS
  <2>2. PICK content \in Written(p) : files' = [files EXCEPT ![p] = content]
    BY <1>4, <2>1, WriteManifestCases, Zenon
  <2>3. files[p] \union {"temp"} \subseteq content \/ content = Full
          \/ content = files[p] \ {"temp"}
    BY <2>2, SMT DEF Written
  <2> QED BY <1>1, <2>2, <2>3, SMT DEF Readable, Full
<1>5. CASE ImportBinary
  <2>1. mgr.todo = <<"binary", "imported", "decide">>
    BY <1>5, PlansOf, PlanIs, Zenon DEF ImportBinary
  <2>2. files[mgr.base.pkg] \subseteq {"dir"}
    BY <2>1, BaseReads, Zenon DEF BasePlans
  <2>3. \/ UNCHANGED files
        \/ files' = [files EXCEPT ![mgr.base.pkg] = {"dir"}]
        \/ files' = [files EXCEPT ![mgr.base.pkg] = {"dir", "binary"}]
    BY <1>5, Zenon DEF ImportBinary
  <2> QED BY <1>1, <2>2, <2>3, SMT DEF Readable
<1> QED BY <1>2, <1>3, <1>4, <1>5, Zenon

\* No step reclaims a package of a pointer, the staged one, or the image of a
\* process of the lineage (cleanupPackagesLocked).
THEOREM RetentionSafety == Spec => NeededIsRetained
<1>1. ASSUME SafetyInv, [Next]_vars
      PROVE  [\A p \in Packages : p \in Needed /\ Readable(p) => Readable(p)']_vars
  <2> SUFFICES ASSUME NEW q \in Packages, q \in Needed, Readable(q)
               PROVE  Readable(q)'
    BY Zenon
  <2>1. CASE UNCHANGED files
    BY <2>1, SMT DEF Readable
  <2>2. CASE \E p \in Packages : RemoveFile(p)
    BY <1>1, <2>2, RemovedIsNotNeeded, Zenon
  <2>3. CASE StageLookup \/ Download \/ WriteManifest \/ ImportBinary
    BY <1>1, <2>3, WritesKeep, Zenon
  <2> QED BY <1>1, <2>1, <2>2, <2>3, FilesStay, Zenon
<1> QED BY <1>1, Safety, PTL DEF Spec, NeededIsRetained
============================================================================
