----------------------- MODULE GenerationManagerProofs -----------------------
(***************************************************************************)
(* Proofs about the generation manager, for every set of generations and   *)
(* sessions, any number of modules, any failures and any callers.          *)
(*                                                                         *)
(* ManagerInv is the inductive invariant.  Its parts say who holds which   *)
(* lock and which publication is under way (LockInv); what the drain owner *)
(* knows of the candidate at every place of apply, which is what makes the *)
(* handover after the swap succeed unless the controller is closed         *)
(* (HandoverInv); that every generation a session can have come from is    *)
(* known to the owner or being published (KnownInv); how far the           *)
(* transactions of the candidate and of every view are prepared and        *)
(* destroyed, always as an initial segment of the modules (CandidateInv,   *)
(* ViewsInv).                                                              *)
(***************************************************************************)
EXTENDS GenerationManager, TLAPS

Before == {"prepare", "ready", "validate", "publication", "publish", "finalize",
           "abort"}

Publishing == {"publish", "finalize", "activate", "limit"}

LockInv ==
  /\ mu = "apply" <=> ~At("idle")
  /\ generationMu = "apply" <=> applier.pc \in Before
  /\ mu = "use" <=> user.pc = "use"
  /\ mu = "use" <=> generationMu = "use"
  /\ mu = "close" => closed
  /\ generationMu # "close"
  /\ ~At("idle") <=> applier.gen # None
  /\ publication = IF applier.pc \in Publishing THEN applier.gen ELSE None
  /\ user.pc = "use" => view = user.expected

\* The owner's active generation serves, and a closed owner has none.
ActiveInv == active # None => phase[active] = "serving" /\ ~closed

\* The view is the owner's active generation, or the owner gave it up.
OwnedView ==
  \/ view = None
  \/ active = view
  \/ active = None /\ (closed \/ phase[view] \notin {"absent", "serving"})

HandoverInv ==
  /\ applier.pc \notin {"finalize", "activate", "limit"} => OwnedView
  /\ applier.pc \in {"publication", "publish"} =>
       active = view /\ phase[applier.gen] = "absent" /\ Increases(applier.gen)
  /\ applier.pc \in {"finalize", "activate"} =>
       /\ view = applier.gen /\ active = applier.previous
       /\ phase[applier.gen] = "absent" /\ Increases(applier.gen)
  /\ At("limit") => view = applier.gen /\ (closed \/ active = view)

\* A session that came from g is not refused for want of a drain owner.
Known(g) == phase[g] # "absent" \/ closed \/ (publication = g /\ active # g)

KnownInv ==
  /\ view # None => Known(view)
  /\ \A s \in Sessions :
       /\ request[s].pc \in {"new", "waiting"} =>
            request[s].gen \in Generations /\ Known(request[s].gen)
       /\ ~request[s].unknown

\* The prepared transactions are those of the first k modules.
PreparedUpTo(t, k) == \A m \in Modules : t[m] = "prepared" <=> m <= k
Descending(t) == \E k \in 0..ModuleCount : PreparedUpTo(t, k)

CandidateInv ==
  /\ At("prepare") => PreparedUpTo(candidate, applier.step)
  /\ applier.pc \in {"ready", "validate", "publication", "publish"} =>
       PreparedUpTo(candidate, ModuleCount)
  /\ applier.pc \in {"idle", "finalize", "activate", "limit"} => PreparedUpTo(candidate, 0)
  /\ Descending(candidate)

\* g has not been taken over by the owner yet, if it ever will be.
Fresh(g) == \/ applier.gen = g /\ applier.pc \in {"finalize", "activate", "limit"}
            \/ closed /\ view = g

\* The transactions of g's view, by where the owner has g.
ViewOf(g) ==
  /\ Descending(tx[g])
  /\ Fresh(g) /\ phase[g] = "absent" => PreparedUpTo(tx[g], ModuleCount)
  /\ phase[g] \in {"serving", "retiring"} => PreparedUpTo(tx[g], ModuleCount)
  /\ phase[g] = "absent" /\ ~Fresh(g) => PreparedUpTo(tx[g], 0)
  /\ phase[g] \in {"absent", "serving", "retiring"} => destroyed[g].once = "never"
  /\ phase[g] = "gone" => destroyed[g].once = "done"
  /\ destroyed[g].once = "running" => phase[g] = "destroying"
  /\ destroyed[g].once = "done" => PreparedUpTo(tx[g], 0)

ViewsInv == \A g \in Generations : ViewOf(g)

ManagerInv ==
  /\ GMTypeOK
  /\ LockInv
  /\ ActiveInv
  /\ HandoverInv
  /\ KnownInv
  /\ CandidateInv
  /\ ViewsInv
----------------------------------------------------------------------------
(* Transactions *)

\* Of the first k transactions the last is destroyed (destroyCandidateTransactions,
\* destroyPublishedTransactions).
LEMMA DestroyLast ==
  ASSUME NEW t \in Transactions, NEW k \in 0..ModuleCount, PreparedUpTo(t, k),
         HasPrepared(t), NEW success \in BOOLEAN
  PROVE  /\ k - 1 \in 0..ModuleCount
         /\ AfterDestroy(t, success) \in Transactions
         /\ PreparedUpTo(AfterDestroy(t, success), k - 1)
<1> USE ModulesAssumption
<1>1. k \in Modules /\ t[k] = "prepared" /\ k - 1 \in 0..ModuleCount
  BY DEF HasPrepared, PreparedUpTo, Modules
<1>2. NextToDestroy(t) = k
  <2>1. k \in Modules /\ t[k] = "prepared" /\ \A n \in Modules : t[n] = "prepared" => k >= n
    BY <1>1 DEF PreparedUpTo, Modules
  <2>2. \A m \in Modules :
          t[m] = "prepared" /\ (\A n \in Modules : t[n] = "prepared" => m >= n) => m = k
    BY <2>1 DEF Modules
  <2> QED
    BY <2>1, <2>2 DEF NextToDestroy
<1>3. \E d \in {"destroyed", "failed"} : AfterDestroy(t, success) = [t EXCEPT ![k] = d]
  BY <1>2 DEF AfterDestroy
<1>4. AfterDestroy(t, success) \in Transactions
  BY <1>1, <1>3 DEF Transactions
<1>5. ASSUME NEW m \in Modules
      PROVE  AfterDestroy(t, success)[m] = "prepared" <=> m <= k - 1
  <2>1. CASE m = k
    BY <1>1, <1>3, <2>1 DEF Transactions, Modules
  <2>2. CASE m # k
    BY <1>3, <2>2 DEF Transactions, Modules, PreparedUpTo
  <2> QED
    BY <2>1, <2>2
<1> QED
  BY <1>1, <1>4, <1>5 DEF PreparedUpTo

\* Whatever is prepared up to some module was destroyed in reverse order.
LEMMA Segments ==
  /\ \A t : Descending(t) => InReverseOrder(t)
  /\ \A t : PreparedUpTo(t, 0) <=> ~HasPrepared(t)
  /\ \A t : PreparedUpTo(t, ModuleCount) <=> \A m \in Modules : t[m] = "prepared"
  /\ \A t, k : k \in 0..ModuleCount /\ PreparedUpTo(t, k) => Descending(t)
  /\ \A t : PreparedUpTo(t, 0) \/ PreparedUpTo(t, ModuleCount) => Descending(t)
  /\ 0 \in 0..ModuleCount /\ ModuleCount \in 0..ModuleCount
<1> USE ModulesAssumption
<1>1. ASSUME NEW t, Descending(t) PROVE InReverseOrder(t)
  <2>1. PICK k \in 0..ModuleCount : PreparedUpTo(t, k)
    BY <1>1 DEF Descending
  <2>2. SUFFICES ASSUME NEW m \in Modules, NEW n \in Modules, m < n,
                        t[m] \in {"destroyed", "failed"}, t[n] = "prepared"
                 PROVE  FALSE
    BY DEF InReverseOrder
  <2>3. n <= k /\ ~(m <= k)
    BY <2>1, <2>2 DEF PreparedUpTo
  <2> QED
    BY <2>2, <2>3 DEF Modules
<1>2. \A t : PreparedUpTo(t, 0) <=> ~HasPrepared(t)
  BY DEF PreparedUpTo, HasPrepared, Modules
<1>3. \A t : PreparedUpTo(t, ModuleCount) <=> \A m \in Modules : t[m] = "prepared"
  BY DEF PreparedUpTo, Modules
<1>4. \A t, k : k \in 0..ModuleCount /\ PreparedUpTo(t, k) => Descending(t)
  BY DEF Descending
<1>5. 0 \in 0..ModuleCount /\ ModuleCount \in 0..ModuleCount
  OBVIOUS
<1> QED
  BY <1>1, <1>2, <1>3, <1>4, <1>5

----------------------------------------------------------------------------
(* Types *)

\* The places of apply.
LEMMA ApplierType ==
  ASSUME NEW a \in Applier
  PROVE  /\ IdleApplier \in Applier
         /\ \A g \in Generations : [IdleApplier EXCEPT !.pc = "prepare", !.gen = g] \in Applier
         /\ [a EXCEPT !.cancelled = TRUE] \in Applier
         /\ a.step < ModuleCount => [a EXCEPT !.step = @ + 1] \in Applier
         /\ \A p \in {"ready", "validate", "publication", "publish", "activate", "limit",
                      "abort"} : [a EXCEPT !.pc = p] \in Applier
         /\ \A v \in Generations \union {None} :
              [a EXCEPT !.pc = "finalize", !.previous = v] \in Applier
<1>1. IdleApplier \in Applier
  BY ModulesAssumption DEF Applier, IdleApplier
<1>2. \A g \in Generations : [IdleApplier EXCEPT !.pc = "prepare", !.gen = g] \in Applier
  BY <1>1 DEF Applier
<1>3. [a EXCEPT !.cancelled = TRUE] \in Applier
  BY DEF Applier
<1>4. a.step < ModuleCount => [a EXCEPT !.step = @ + 1] \in Applier
  <2>1. a.step \in 0..ModuleCount
    BY DEF Applier
  <2>2. a.step < ModuleCount => a.step + 1 \in 0..ModuleCount
    BY <2>1, ModulesAssumption
  <2> QED
    BY <2>2 DEF Applier
<1>5. \A p \in {"ready", "validate", "publication", "publish", "activate", "limit", "abort"} :
        [a EXCEPT !.pc = p] \in Applier
  BY DEF Applier
<1>6. \A v \in Generations \union {None} :
        [a EXCEPT !.pc = "finalize", !.previous = v] \in Applier
  BY DEF Applier
<1> QED
  BY <1>1, <1>2, <1>3, <1>4, <1>5, <1>6

\* What a session's request becomes.
LEMMA RequestType ==
  ASSUME NEW r \in Request
  PROVE  /\ \A p \in {"new", "waiting", "registered"} : [r EXCEPT !.pc = p] \in Request
         /\ \A b \in BOOLEAN : [r EXCEPT !.pc = "refused", !.unknown = b] \in Request
         /\ \A g \in Generations : [pc |-> "new", gen |-> g, unknown |-> FALSE] \in Request
BY DEF Request

\* The steps of the abstract drain owner keep its types.
LEMMA OwnerTypeNext == ASSUME OwnerTypeOK, [OwnerNext]_ownerVars PROVE OwnerTypeOK'
<1> USE DEF Phases
<1>1. ASSUME NEW g \in Generations,
             \/ OwnerActivate(g)
             \/ StopServing(g)
             \/ BeginDestroy(g)
             \/ \E success \in BOOLEAN : EndDestroy(g, success)
      PROVE  OwnerTypeOK'
  BY <1>1 DEF OwnerActivate, StopServing, BeginDestroy, EndDestroy, OwnerTypeOK
<1>2. ASSUME NEW s \in Sessions, OwnerFinish(s) PROVE OwnerTypeOK'
  <2>1. Over(session[s].gen) \in [life : {"unused", "on", "over"}, gen : Generations \union {None}]
    BY DEF Over, OwnerTypeOK
  <2> QED
    BY <1>2, <2>1 DEF OwnerFinish, OwnerTypeOK
<1>3. ASSUME NEW s \in Sessions, NEW g \in Generations, OwnerRegister(s, g)
      PROVE  OwnerTypeOK'
  BY <1>3 DEF OwnerRegister, OwnerTypeOK, On
<1>4. CASE OwnerRetire \/ OwnerClose
  BY <1>4 DEF OwnerRetire, OwnerClose, OwnerTypeOK
<1>5. CASE UNCHANGED ownerVars
  BY <1>5 DEF ownerVars, OwnerTypeOK
<1> QED
  BY <1>1, <1>2, <1>3, <1>4, <1>5 DEF OwnerNext

\* The manager uses the drain owner in no way the owner does not offer.
LEMMA OwnerSteps ==
  ASSUME GMTypeOK, LockInv, KnownInv, [Next]_vars PROVE [OwnerNext]_ownerVars
<1>1. CASE ApplyStep
  <2>1. CASE DrainActivate
    <3>1. applier.gen \in Generations
      BY <2>1 DEF DrainActivate, LockInv, At, GMTypeOK, Applier
    <3> QED
      BY <2>1, <3>1 DEF DrainActivate, OwnerNext
  <2>2. CASE ~DrainActivate
    BY <1>1, <2>2
    DEF ApplyStep, PrepareModule, Ready, BeginPublication, AbortDestroy,
        RegisterProvidersFails, Prepared, Validate, AbortDone, SwapView,
        FinalizePublication, EndPublication
  <2> QED
    BY <2>1, <2>2
<1>2. ASSUME NEW s \in Sessions, Dispatch(s) \/ SessionStep(s) \/ SessionEnds(s)
      PROVE  [OwnerNext]_ownerVars
  <2>1. CASE RegisterSession(s)
    <3>1. request[s].gen \in Generations
      BY <2>1 DEF RegisterSession, KnownInv
    <3> QED
      BY <2>1, <3>1 DEF RegisterSession, OwnerNext
  <2> QED
    BY <1>2, <2>1 DEF SessionStep, Dispatch, PublicationDone, SessionEnds, OwnerNext
<1>3. ASSUME NEW g \in Generations, DrainStep(g) PROVE [OwnerNext]_ownerVars
  <2>1. (~destroyed[g].err) \in BOOLEAN
    OBVIOUS
  <2> QED
    BY <1>3, <2>1
    DEF DrainStep, Stop, DestroyView, DestroyViewModule, DestroyViewReturns, OwnerNext
<1>4. CASE Retire \/ Close
  BY <1>4 DEF Retire, Close, OwnerNext
<1>5. CASE \/ \E g \in Generations : BeginApply(g)
           \/ CancelApply \/ ReadActive \/ UserStep \/ CloseDone
  BY <1>5 DEF BeginApply, CancelApply, ReadActive, UserStep, BeginUse, EndUse, CloseDone
<1>6. CASE UNCHANGED vars
  BY <1>6 DEF vars
<1> QED
  BY <1>1, <1>2, <1>3, <1>4, <1>5, <1>6 DEF Next

\* Every step keeps the types.
LEMMA TypeNext ==
  ASSUME GMTypeOK, LockInv, KnownInv, CandidateInv, ViewsInv, [Next]_vars PROVE GMTypeOK'
<1> USE DEF managerVars, locks, resources
<1>0. /\ OwnerTypeOK'
      /\ applier \in Applier /\ candidate \in Transactions
      /\ view \in Generations \union {None} /\ mu \in Holders /\ generationMu \in Holders
      /\ publication \in Generations \union {None}
      /\ tx \in [Generations -> Transactions]
      /\ destroyed \in [Generations -> Destruction]
      /\ user \in User
      /\ request \in [Sessions -> Request]
      /\ failures \in 0..MaxFailures
      /\ applier.pc # "idle" => applier.gen \in Generations
      /\ {"free", "apply", "use", "close"} \subseteq Holders
  BY OwnerSteps, OwnerTypeNext DEF GMTypeOK, LockInv, At, Applier, Holders
<1>1. NoTransactions \in Transactions
  BY DEF NoTransactions, Transactions
<1>2. ASSUME NEW success, MayFail(success) PROVE failures' \in 0..MaxFailures
  BY <1>0, <1>2, DestroyFailuresAssumption DEF MayFail
<1>3. ASSUME NEW g \in Generations, BeginApply(g) PROVE GMTypeOK'
  BY <1>0, <1>1, <1>3, ApplierType DEF BeginApply, GMTypeOK
<1>4. CASE CancelApply
  BY <1>0, <1>4, ApplierType DEF CancelApply, GMTypeOK
<1>5. ASSUME NEW success \in BOOLEAN, PrepareModule(success) PROVE GMTypeOK'
  <2>1. candidate' \in Transactions
    BY <1>0, <1>5 DEF PrepareModule, Transactions
  <2>2. applier' \in Applier
    BY <1>0, <1>5, ApplierType DEF PrepareModule, ModulesLeft, Goto
  <2> QED
    BY <1>0, <1>5, <2>1, <2>2 DEF PrepareModule, GMTypeOK
<1>6. ASSUME NEW success \in BOOLEAN, Ready(success) \/ BeginPublication(success)
      PROVE  GMTypeOK'
  <2>1. applier' \in Applier
    BY <1>0, <1>6, ApplierType DEF Ready, BeginPublication, Goto
  <2>2. publication' \in Generations \union {None}
    BY <1>0, <1>6 DEF Ready, BeginPublication, At
  <2> QED
    BY <1>0, <1>6, <2>1, <2>2 DEF Ready, BeginPublication, GMTypeOK
<1>7. CASE RegisterProvidersFails \/ Prepared \/ Validate
  <2>1. applier' \in Applier
    BY <1>0, <1>7, ApplierType DEF RegisterProvidersFails, Prepared, Validate, Goto
  <2> QED
    BY <1>0, <1>7, <2>1 DEF RegisterProvidersFails, Prepared, Validate, GMTypeOK
<1>8. ASSUME NEW success \in BOOLEAN, AbortDestroy(success) PROVE GMTypeOK'
  <2>1. candidate' \in Transactions
    BY <1>0, <1>8, DestroyLast DEF AbortDestroy, CandidateInv, Descending
  <2> QED
    BY <1>0, <1>2, <1>8, <2>1 DEF AbortDestroy, GMTypeOK
<1>9. CASE AbortDone \/ EndPublication
  BY <1>0, <1>9, ApplierType DEF AbortDone, AfterAbort, EndPublication, GMTypeOK
<1>10. CASE SwapView
  <2>1. applier' \in Applier /\ view' \in Generations /\ tx' \in [Generations -> Transactions]
    BY <1>0, <1>10, ApplierType DEF SwapView, At
  <2> QED
    BY <1>0, <1>1, <1>10, <2>1 DEF SwapView, GMTypeOK
<1>11. CASE FinalizePublication \/ DrainActivate
  <2>1. applier' \in Applier
    BY <1>0, <1>11, ApplierType DEF FinalizePublication, DrainActivate, Goto
  <2> QED
    BY <1>0, <1>11, <2>1 DEF FinalizePublication, DrainActivate, GMTypeOK
<1>12. ASSUME NEW s \in Sessions, Dispatch(s) \/ SessionStep(s) \/ SessionEnds(s)
       PROVE  GMTypeOK'
  <2>1. request[s] \in Request
    BY <1>0
  <2>2. request' \in [Sessions -> Request]
    BY <1>0, <1>12, <2>1, RequestType
    DEF Dispatch, SessionStep, RegisterSession, PublicationDone, SessionEnds
  <2> QED
    BY <1>0, <1>12, <2>2
    DEF Dispatch, SessionStep, RegisterSession, PublicationDone, SessionEnds, GMTypeOK
<1>13. CASE ReadActive \/ UserStep
  <2>1. user' \in User
    BY <1>0, <1>13 DEF ReadActive, UserStep, BeginUse, EndUse, User
  <2> QED
    BY <1>0, <1>13, <2>1
    DEF ReadActive, UserStep, BeginUse, UserLocks, EndUse, GMTypeOK
<1>14. CASE Retire \/ Close \/ CloseDone
  BY <1>0, <1>14 DEF Retire, Close, CloseDone, GMTypeOK
<1>15. ASSUME NEW g \in Generations, Stop(g) \/ DestroyView(g) \/ DestroyViewReturns(g)
       PROVE  GMTypeOK'
  <2>1. \A d \in Destruction : \A o \in {"running", "done"} : [d EXCEPT !.once = o] \in Destruction
    BY DEF Destruction
  <2>2. destroyed' \in [Generations -> Destruction]
    <3>1. CASE destroyed' = destroyed
      BY <1>0, <3>1
    <3>2. ASSUME NEW o \in {"running", "done"},
                 destroyed' = [destroyed EXCEPT ![g] = [destroyed[g] EXCEPT !.once = o]]
          PROVE  destroyed' \in [Generations -> Destruction]
      <4>1. [destroyed[g] EXCEPT !.once = o] \in Destruction
        BY <1>0, <2>1
      <4> QED
        BY <1>0, <3>2, <4>1
    <3>3. \/ destroyed' = destroyed
          \/ \E o \in {"running", "done"} :
               destroyed' = [destroyed EXCEPT ![g] = [destroyed[g] EXCEPT !.once = o]]
      BY <1>0, <1>15 DEF Stop, DestroyView, DestroyViewReturns
    <3> QED
      BY <3>1, <3>2, <3>3
  <2> QED
    BY <1>0, <1>15, <2>2 DEF Stop, DestroyView, DestroyViewReturns, GMTypeOK
<1>16. ASSUME NEW g \in Generations, NEW success \in BOOLEAN, DestroyViewModule(g, success)
       PROVE  GMTypeOK'
  <2>1. destroyed' \in [Generations -> Destruction]
    <3>1. \A d \in Destruction : [d EXCEPT !.err = @ \/ ~success] \in Destruction
      BY DEF Destruction
    <3> QED
      BY <1>0, <1>16, <3>1 DEF DestroyViewModule
  <2>2. AfterDestroy(tx[g], success) \in Transactions
    <3>1. Descending(tx[g])
      BY DEF ViewsInv, ViewOf
    <3> QED
      BY <1>0, <1>16, <3>1, DestroyLast DEF DestroyViewModule, Descending
  <2>3. tx' \in [Generations -> Transactions]
    BY <1>0, <1>16, <2>2 DEF DestroyViewModule
  <2> QED
    BY <1>0, <1>2, <1>16, <2>1, <2>3 DEF DestroyViewModule, GMTypeOK
<1>17. CASE UNCHANGED vars
  BY <1>0, <1>17 DEF vars, GMTypeOK
<1> QED
  BY <1>3, <1>4, <1>5, <1>6, <1>7, <1>8, <1>9, <1>10, <1>11, <1>12, <1>13, <1>14, <1>15,
     <1>16, <1>17
  DEF Next, ApplyStep, DrainStep

----------------------------------------------------------------------------
(* What steps leave alone *)

\* The applier after each of its moves.
LEMMA ApplierFields ==
  ASSUME applier \in Applier
  PROVE  /\ \A p : applier' = [applier EXCEPT !.pc = p] =>
              /\ applier'.pc = p /\ applier'.gen = applier.gen
              /\ applier'.previous = applier.previous /\ applier'.step = applier.step
         /\ applier' = [applier EXCEPT !.cancelled = TRUE] =>
              /\ applier'.pc = applier.pc /\ applier'.gen = applier.gen
              /\ applier'.previous = applier.previous /\ applier'.step = applier.step
         /\ applier' = [applier EXCEPT !.step = @ + 1] =>
              /\ applier'.pc = applier.pc /\ applier'.gen = applier.gen
              /\ applier'.previous = applier.previous /\ applier'.step = applier.step + 1
         /\ \A v : applier' = [applier EXCEPT !.pc = "finalize", !.previous = v] =>
              applier'.pc = "finalize" /\ applier'.gen = applier.gen /\ applier'.previous = v
         /\ \A g : applier' = [IdleApplier EXCEPT !.pc = "prepare", !.gen = g] =>
              applier'.pc = "prepare" /\ applier'.gen = g /\ applier'.step = 0
         /\ applier' = IdleApplier => applier'.pc = "idle" /\ applier'.gen = None
<1> DEFINE Same == applier'.gen = applier.gen /\ applier'.previous = applier.previous
<1>1. ASSUME NEW p, applier' = [applier EXCEPT !.pc = p]
      PROVE  applier'.pc = p /\ Same /\ applier'.step = applier.step
  BY <1>1 DEF Applier
<1>2. ASSUME applier' = [applier EXCEPT !.cancelled = TRUE]
      PROVE  applier'.pc = applier.pc /\ Same /\ applier'.step = applier.step
  BY <1>2 DEF Applier
<1>3. ASSUME applier' = [applier EXCEPT !.step = @ + 1]
      PROVE  applier'.pc = applier.pc /\ Same /\ applier'.step = applier.step + 1
  BY <1>3 DEF Applier
<1>4. ASSUME NEW v, applier' = [applier EXCEPT !.pc = "finalize", !.previous = v]
      PROVE  applier'.pc = "finalize" /\ applier'.gen = applier.gen /\ applier'.previous = v
  BY <1>4 DEF Applier
<1>5. ASSUME NEW g, applier' = [IdleApplier EXCEPT !.pc = "prepare", !.gen = g]
      PROVE  applier'.pc = "prepare" /\ applier'.gen = g /\ applier'.step = 0
  BY <1>5 DEF IdleApplier
<1>6. applier' = IdleApplier => applier'.pc = "idle" /\ applier'.gen = None
  BY DEF IdleApplier
<1> QED
  BY <1>1, <1>2, <1>3, <1>4, <1>5, <1>6

\* The drain owner's own steps take a generation from retired to destroyed.
LEMMA DrainFrame ==
  ASSUME GMTypeOK, NEW g \in Generations, DrainStep(g)
  PROVE  /\ UNCHANGED <<active, session, closed, view, locks, publication, applier,
                        candidate, user, request>>
         /\ \A h \in Generations :
              /\ phase'[h] = "absent" <=> phase[h] = "absent"
              /\ phase'[h] \in {"serving", "retiring"} => phase'[h] = phase[h]
              /\ phase[h] = "serving" /\ ~closed => phase'[h] = "serving"
<1> USE DEF managerVars, locks, resources, ownerVars
<1>1. /\ UNCHANGED <<active, session, closed, view, locks, publication, applier,
                     candidate, user, request>>
      /\ \/ phase' = phase
         \/ /\ phase[g] # "absent" /\ (phase[g] = "serving" => closed)
            /\ \E p \in {"ending", "destroying", "gone"} : phase' = [phase EXCEPT ![g] = p]
  BY DEF DrainStep, Stop, StopServing, DestroyView, BeginDestroy, DestroyViewModule,
         DestroyViewReturns, EndDestroy
<1> QED
  BY <1>1 DEF GMTypeOK, OwnerTypeOK

\* Sessions touch the requests, and the owner's sessions, alone.
LEMMA SessionFrame ==
  ASSUME NEW s \in Sessions, Dispatch(s) \/ SessionStep(s) \/ SessionEnds(s)
  PROVE  UNCHANGED <<active, phase, closed, view, locks, publication, applier,
                     resources, user, failures>>
BY DEF Dispatch, SessionStep, RegisterSession, PublicationDone, SessionEnds, OwnerRegister,
       OwnerFinish, managerVars, ownerVars, locks, resources

\* So does the user with its own state and the locks.
LEMMA UserFrame ==
  ASSUME ReadActive \/ UserStep
  PROVE  UNCHANGED <<ownerVars, view, publication, applier, resources, request, failures>>
BY DEF ReadActive, UserStep, BeginUse, EndUse, locks, resources

----------------------------------------------------------------------------
(* Locks, the publication and the drain owner's active generation *)

\* apply holds both locks to the end of the swap and the manager's until it
\* returns, the user of the view both, Close the manager's
\* (GenerationManager.apply, WithActiveGeneration, Registry.PrepareGeneration).
LEMMA LockNext == ASSUME GMTypeOK, LockInv, [Next]_vars PROVE LockInv'
<1> USE DEF At, Goto, Before, Publishing, LockInv
<1>0. applier \in Applier /\ (applier.pc # "idle" => applier.gen \in Generations)
  BY DEF GMTypeOK, Applier
<1>1. ASSUME NEW g \in Generations, BeginApply(g) PROVE LockInv'
  <2>1. applier'.pc = "prepare" /\ applier'.gen = g /\ g # None
    BY <1>0, <1>1, ApplierFields, OwnerNoneAssumption DEF BeginApply
  <2> QED
    BY <1>1, <2>1 DEF BeginApply
<1>2. CASE CancelApply
  BY <1>0, <1>2, ApplierFields DEF CancelApply, locks
<1>3. ASSUME NEW success \in BOOLEAN, PrepareModule(success) \/ Ready(success)
      PROVE  LockInv'
  <2>1. /\ applier.pc \in {"prepare", "ready"} /\ applier'.gen = applier.gen
        /\ applier'.pc \in {"prepare", "validate", "abort"}
    BY <1>0, <1>3, ApplierFields DEF PrepareModule, Ready
  <2> QED
    BY <1>3, <2>1 DEF PrepareModule, Ready, locks, ownerVars
<1>4. CASE RegisterProvidersFails \/ Prepared \/ Validate
  <2>1. /\ applier.pc \in {"prepare", "validate"}
        /\ applier'.pc \in {"ready", "publication", "abort"} /\ applier'.gen = applier.gen
    BY <1>0, <1>4, ApplierFields DEF RegisterProvidersFails, Prepared, Validate
  <2> QED
    BY <1>4, <2>1 DEF RegisterProvidersFails, Prepared, Validate, locks, ownerVars
<1>5. ASSUME NEW success \in BOOLEAN, BeginPublication(success) PROVE LockInv'
  <2>1. /\ applier'.pc = IF success THEN "publish" ELSE "abort"
        /\ applier'.gen = applier.gen
    BY <1>0, <1>5, ApplierFields DEF BeginPublication
  <2> QED
    BY <1>5, <2>1 DEF BeginPublication, locks, ownerVars
<1>6. ASSUME NEW success \in BOOLEAN, AbortDestroy(success) PROVE LockInv'
  BY <1>6 DEF AbortDestroy, locks, ownerVars
<1>7. CASE AbortDone
  BY <1>0, <1>7, ApplierFields DEF AbortDone, AfterAbort, ownerVars
<1>8. CASE SwapView
  <2>1. applier'.pc = "finalize" /\ applier'.gen = applier.gen
    BY <1>0, <1>8, ApplierFields DEF SwapView
  <2> QED
    BY <1>8, <2>1 DEF SwapView, locks, ownerVars
<1>9. CASE FinalizePublication
  <2>1. applier'.pc = "activate" /\ applier'.gen = applier.gen
    BY <1>0, <1>9, ApplierFields DEF FinalizePublication
  <2> QED
    BY <1>9, <2>1 DEF FinalizePublication, ownerVars
<1>10. CASE DrainActivate
  <2>1. applier'.pc = "limit" /\ applier'.gen = applier.gen
    BY <1>0, <1>10, ApplierFields DEF DrainActivate
  <2>2. closed' = closed
    BY <1>10 DEF DrainActivate, OwnerActivate, ownerVars
  <2> QED
    BY <1>10, <2>1, <2>2 DEF DrainActivate, locks
<1>11. CASE EndPublication
  BY <1>0, <1>11, ApplierFields DEF EndPublication, ownerVars
<1>12. ASSUME NEW s \in Sessions, Dispatch(s) \/ SessionStep(s) \/ SessionEnds(s)
       PROVE  LockInv'
  BY <1>12, SessionFrame DEF locks
<1>13. CASE ReadActive \/ UserStep
  BY <1>13 DEF ReadActive, UserStep, BeginUse, UserLocks, EndUse, ownerVars, locks, GMTypeOK, User
<1>14. CASE Retire \/ Close \/ CloseDone
  BY <1>14 DEF Retire, OwnerRetire, Close, OwnerClose, CloseDone, managerVars, locks, ownerVars
<1>15. ASSUME NEW g \in Generations, DrainStep(g) PROVE LockInv'
  BY <1>15, DrainFrame DEF locks
<1>16. CASE UNCHANGED vars
  BY <1>16 DEF vars, ownerVars, managerVars, locks
<1> QED
  BY <1>1, <1>2, <1>3, <1>4, <1>5, <1>6, <1>7, <1>8, <1>9, <1>10, <1>11, <1>12, <1>13,
     <1>14, <1>15, <1>16
  DEF Next, ApplyStep

\* The active generation serves until it is retired, and Close leaves none.
LEMMA ActiveNext == ASSUME GMTypeOK, LockInv, KnownInv, ActiveInv, [Next]_vars PROVE ActiveInv'
<1>1. active \in Generations \union {None} /\ phase \in [Generations -> Phases]
  BY DEF GMTypeOK, OwnerTypeOK
<1>2. [OwnerNext]_ownerVars
  BY OwnerSteps
<1>3. ASSUME NEW g \in Generations, OwnerActivate(g) PROVE ActiveInv'
  BY <1>1, <1>3 DEF OwnerActivate, ActiveInv
<1>4. ASSUME NEW g \in Generations,
             StopServing(g) \/ BeginDestroy(g) \/ \E success \in BOOLEAN : EndDestroy(g, success)
      PROVE  ActiveInv'
  <2>1. /\ UNCHANGED <<active, closed>>
        /\ phase[g] # "serving" \/ closed
        /\ \E p : phase' = [phase EXCEPT ![g] = p]
    BY <1>4 DEF StopServing, BeginDestroy, EndDestroy
  <2> QED
    BY <1>1, <2>1 DEF ActiveInv
<1>5. CASE OwnerRetire \/ OwnerClose
  BY <1>1, <1>5 DEF OwnerRetire, OwnerClose, ActiveInv
<1>6. ASSUME NEW s \in Sessions, OwnerFinish(s) \/ \E g \in Generations : OwnerRegister(s, g)
      PROVE  ActiveInv'
  BY <1>6 DEF OwnerFinish, OwnerRegister, ActiveInv
<1>7. CASE UNCHANGED ownerVars
  BY <1>7 DEF ownerVars, ActiveInv
<1> QED
  BY <1>2, <1>3, <1>4, <1>5, <1>6, <1>7 DEF OwnerNext

----------------------------------------------------------------------------
(* The handover to the drain owner, and the transactions *)

\* While apply is under way, nobody but apply changes what the owner has active
\* (RetireActive and Close need the manager's lock).
LEMMA HandoverNext ==
  ASSUME GMTypeOK, LockInv, ActiveInv, HandoverInv, [Next]_vars PROVE HandoverInv'
<1> USE DEF At, Goto, HandoverInv
<1>0. /\ applier \in Applier /\ (applier.pc # "idle" => applier.gen \in Generations)
      /\ active \in Generations \union {None} /\ view \in Generations \union {None}
      /\ phase \in [Generations -> Phases]
  BY DEF GMTypeOK, OwnerTypeOK, Applier, LockInv, At
<1>1. ASSUME NEW g \in Generations, BeginApply(g) PROVE HandoverInv'
  <2>1. applier.pc = "idle" /\ applier'.pc = "prepare"
    BY <1>0, <1>1, ApplierFields DEF BeginApply
  <2>2. UNCHANGED <<active, phase, closed, view>>
    BY <1>1 DEF BeginApply, ownerVars
  <2> QED
    BY <2>1, <2>2 DEF OwnedView
<1>2. CASE CancelApply
  <2>1. applier'.pc = applier.pc /\ applier'.gen = applier.gen
        /\ applier'.previous = applier.previous
    BY <1>0, <1>2, ApplierFields DEF CancelApply
  <2>2. UNCHANGED <<active, phase, closed, view>>
    BY <1>2 DEF CancelApply, ownerVars
  <2> QED
    BY <2>1, <2>2 DEF OwnedView, Increases
<1>3. ASSUME NEW success \in BOOLEAN,
             \/ PrepareModule(success) \/ Ready(success) \/ RegisterProvidersFails
             \/ Prepared \/ AbortDestroy(success) \/ AbortDone
      PROVE  HandoverInv'
  <2>1. /\ applier.pc \notin {"finalize", "activate", "limit"}
        /\ applier'.pc \notin {"publication", "publish", "finalize", "activate", "limit"}
    BY <1>0, <1>3, ApplierFields, ZenonT(30)
    DEF PrepareModule, Ready, RegisterProvidersFails, Prepared, AbortDestroy, AbortDone
  <2>2. UNCHANGED <<active, phase, closed, view>>
    BY <1>3 DEF PrepareModule, Ready, RegisterProvidersFails, Prepared, AbortDestroy,
                AbortDone, ownerVars
  <2> QED
    BY <2>1, <2>2 DEF OwnedView
<1>4. CASE Validate
  <2>1. /\ applier.pc = "validate" /\ applier'.pc \in {"publication", "abort"}
        /\ applier'.pc = "publication" => ValidateDrain(applier.gen)
        /\ applier'.gen = applier.gen
    BY <1>0, <1>4, ApplierFields DEF Validate
  <2>2. UNCHANGED <<active, phase, closed, view>>
    BY <1>4 DEF Validate, ownerVars
  <2> QED
    BY <2>1, <2>2 DEF OwnedView, ValidateDrain, PreviousMatches, Increases
<1>5. ASSUME NEW success \in BOOLEAN, BeginPublication(success) PROVE HandoverInv'
  <2>1. /\ applier.pc = "publication" /\ applier'.pc \in {"publish", "abort"}
        /\ applier'.gen = applier.gen
    BY <1>0, <1>5, ApplierFields DEF BeginPublication
  <2>2. UNCHANGED <<active, phase, closed, view>>
    BY <1>5 DEF BeginPublication, ownerVars
  <2> QED
    BY <2>1, <2>2 DEF OwnedView, Increases
<1>6. CASE SwapView
  <2>1. /\ applier.pc = "publish" /\ applier'.pc = "finalize"
        /\ applier'.gen = applier.gen /\ applier'.previous = view
        /\ view' = applier.gen
    BY <1>0, <1>6, ApplierFields DEF SwapView
  <2>2. UNCHANGED <<active, phase, closed>>
    BY <1>6 DEF SwapView, ownerVars
  <2> QED
    BY <2>1, <2>2 DEF Increases
<1>7. CASE FinalizePublication
  <2>1. /\ applier.pc = "finalize" /\ applier'.pc = "activate"
        /\ applier'.gen = applier.gen /\ applier'.previous = applier.previous
    BY <1>0, <1>7, ApplierFields DEF FinalizePublication
  <2>2. UNCHANGED <<active, phase, closed, view>>
    BY <1>7 DEF FinalizePublication, ownerVars
  <2> QED
    BY <2>1, <2>2 DEF Increases
<1>8. CASE DrainActivate
  <2>1. /\ applier.pc = "activate" /\ applier'.pc = "limit" /\ applier'.gen = applier.gen
        /\ UNCHANGED view
    BY <1>0, <1>8, ApplierFields DEF DrainActivate
  <2>2. closed' = closed /\ (closed \/ active' = applier.gen)
    BY <1>8, <2>1 DEF DrainActivate, OwnerActivate, PreviousMatches, ownerVars
  <2> QED
    BY <2>1, <2>2
<1>9. CASE EndPublication
  <2>1. applier.pc = "limit" /\ applier'.pc = "idle"
    BY <1>0, <1>9, ApplierFields DEF EndPublication
  <2>2. UNCHANGED <<active, phase, closed, view>>
    BY <1>9 DEF EndPublication, ownerVars
  <2> QED
    BY <2>1, <2>2 DEF OwnedView, ActiveInv
<1>10. CASE Retire
  <2>1. /\ applier.pc = "idle" /\ UNCHANGED <<applier, view, closed>>
        /\ active' = None /\ active # None /\ ~closed
        /\ phase' = [phase EXCEPT ![active] = "retiring"]
    BY <1>10 DEF Retire, OwnerRetire, managerVars
  <2>2. active \in Generations /\ phase'[active] = "retiring"
    BY <1>0, <2>1
  <2> QED
    BY <2>1, <2>2 DEF OwnedView
<1>11. CASE Close
  <2>1. /\ applier.pc = "idle" /\ UNCHANGED <<applier, view>> /\ closed' /\ active' = None
    BY <1>11 DEF Close, OwnerClose, LockInv
  <2> QED
    BY <2>1 DEF OwnedView
<1>12. ASSUME NEW g \in Generations, DrainStep(g) PROVE HandoverInv'
  <2>1. UNCHANGED <<active, closed, view, applier>>
    BY <1>12, DrainFrame
  <2>2. \A h \in Generations : /\ phase'[h] = "absent" <=> phase[h] = "absent"
                               /\ phase'[h] = "serving" => phase[h] = "serving"
    BY <1>12, DrainFrame
  <2> QED
    BY <1>0, <2>1, <2>2 DEF OwnedView, Increases
<1>13. CASE UNCHANGED <<active, phase, closed, view, applier>>
  BY <1>13 DEF OwnedView, Increases
<1>14. ASSUME NEW s \in Sessions, Dispatch(s) \/ SessionStep(s) \/ SessionEnds(s)
       PROVE  HandoverInv'
  BY <1>13, <1>14, SessionFrame
<1>15. CASE ReadActive \/ UserStep \/ CloseDone \/ UNCHANGED vars
  BY <1>13, <1>15, UserFrame DEF CloseDone, vars, ownerVars, managerVars
<1> QED
  BY <1>1, <1>2, <1>3, <1>4, <1>5, <1>6, <1>7, <1>8, <1>9, <1>10, <1>11, <1>12, <1>14, <1>15
  DEF Next, ApplyStep

\* No step of the owner makes a generation unknown, or opens it again.
LEMMA OwnerForward ==
  ASSUME GMTypeOK, LockInv, KnownInv, [Next]_vars
  PROVE  /\ closed => closed'
         /\ \A g \in Generations : phase[g] # "absent" => phase'[g] # "absent"
         /\ \A g \in Generations : active' = g /\ active # g => phase'[g] # "absent"
<1>1. phase \in [Generations -> Phases]
  BY DEF GMTypeOK, OwnerTypeOK
<1>2. [OwnerNext]_ownerVars
  BY OwnerSteps
<1>3. ASSUME NEW g \in Generations,
             \/ OwnerActivate(g) \/ StopServing(g) \/ BeginDestroy(g)
             \/ \E success \in BOOLEAN : EndDestroy(g, success)
      PROVE  /\ closed' = closed
             /\ \A h \in Generations : phase[h] # "absent" => phase'[h] # "absent"
             /\ \A h \in Generations : active' = h /\ active # h => phase'[h] # "absent"
  BY <1>1, <1>3 DEF OwnerActivate, StopServing, BeginDestroy, EndDestroy
<1>4. CASE \/ OwnerRetire \/ OwnerClose
           \/ \E s \in Sessions : OwnerFinish(s) \/ \E g \in Generations : OwnerRegister(s, g)
  BY <1>1, <1>4, OwnerNoneAssumption DEF OwnerRetire, OwnerClose, OwnerFinish, OwnerRegister
<1>5. CASE UNCHANGED ownerVars
  BY <1>5 DEF ownerVars
<1> QED
  BY <1>2, <1>3, <1>4, <1>5 DEF OwnerNext

\* A publication lasts from beginPublication to endPublication.
LEMMA PublicationLasts ==
  ASSUME LockInv, [Next]_vars, publication # None, publication' # publication
  PROVE  At("limit")
<1> USE DEF At, locks, managerVars
<1>1. CASE ApplyStep
  BY <1>1
  DEF ApplyStep, PrepareModule, Ready, BeginPublication, AbortDestroy, RegisterProvidersFails,
      Prepared, Validate, AbortDone, SwapView, FinalizePublication, DrainActivate,
      EndPublication, LockInv, Publishing
<1>2. CASE ~ApplyStep
  BY <1>2
  DEF Next, vars, BeginApply, CancelApply, Dispatch, SessionStep, RegisterSession,
      PublicationDone, SessionEnds, ReadActive, UserStep, BeginUse, EndUse, Retire,
      DrainStep, Stop, DestroyView, DestroyViewModule, DestroyViewReturns, Close, CloseDone
<1> QED
  BY <1>1, <1>2

\* The view changes in the swap alone.
LEMMA ViewLasts ==
  ASSUME [Next]_vars, view' # view
  PROVE  SwapView
<1> USE DEF managerVars
<1>1. CASE ApplyStep
  BY <1>1
  DEF ApplyStep, PrepareModule, Ready, BeginPublication, AbortDestroy, RegisterProvidersFails,
      Prepared, Validate, AbortDone, FinalizePublication, DrainActivate, EndPublication
<1>2. CASE ~ApplyStep
  BY <1>2
  DEF Next, vars, BeginApply, CancelApply, Dispatch, SessionStep, RegisterSession,
      PublicationDone, SessionEnds, ReadActive, UserStep, BeginUse, EndUse, Retire,
      DrainStep, Stop, DestroyView, DestroyViewModule, DestroyViewReturns, Close, CloseDone
<1> QED
  BY <1>1, <1>2

\* A generation that a session can have come from stays known to the owner
\* (beginPublication, endPublication).
LEMMA KnownNext ==
  ASSUME GMTypeOK, LockInv, ActiveInv, HandoverInv, KnownInv, [Next]_vars PROVE KnownInv'
<1>0. /\ active \in Generations \union {None} /\ view \in Generations \union {None}
      /\ request \in [Sessions -> Request]
  BY DEF GMTypeOK, OwnerTypeOK
<1>1. ASSUME NEW g \in Generations, Known(g) PROVE Known(g)'
  <2>1. CASE phase[g] # "absent" \/ closed
    BY <2>1, OwnerForward DEF Known
  <2>2. CASE phase[g] = "absent" /\ ~closed /\ publication = g /\ active # g
    <3>1. publication' = g
      <4>1. SUFFICES ASSUME At("limit") PROVE FALSE
        BY <2>2, PublicationLasts, OwnerNoneAssumption
      <4>2. applier.gen = g /\ active = g
        BY <2>2, <4>1 DEF HandoverInv, LockInv, Publishing, At
      <4> QED
        BY <2>2, <4>2
    <3>2. active' # g \/ phase'[g] # "absent"
      BY <2>2, OwnerForward
    <3> QED
      BY <3>1, <3>2 DEF Known
  <2> QED
    BY <1>1, <2>1, <2>2 DEF Known
<1>2. view' # None => Known(view)'
  <2>1. CASE view' = view
    <3>1. ASSUME view # None PROVE Known(view)'
      <4>1. PICK g \in Generations : view = g
        BY <1>0, <3>1
      <4>2. Known(g)'
        BY <1>1, <3>1, <4>1 DEF KnownInv
      <4> QED
        BY <2>1, <4>1, <4>2 DEF Known
    <3> QED
      BY <2>1, <3>1
  <2>2. CASE SwapView
    <3>1. /\ applier.pc = "publish" /\ view' = applier.gen
          /\ UNCHANGED <<active, phase, closed, publication>>
      BY <2>2 DEF SwapView, At, ownerVars
    <3>2. publication = applier.gen /\ phase[applier.gen] = "absent"
      BY <3>1 DEF LockInv, HandoverInv, Publishing
    <3>3. active # applier.gen
      <4>1. applier.gen # None
        BY <3>1 DEF LockInv, At
      <4> QED
        BY <3>2, <4>1 DEF ActiveInv
    <3> QED
      BY <3>1, <3>2, <3>3 DEF Known
  <2> QED
    BY <2>1, <2>2, ViewLasts
<1>3. ASSUME NEW s \in Sessions
      PROVE  /\ request'[s].pc \in {"new", "waiting"} =>
                  \E g \in Generations : request'[s].gen = g /\ Known(g)'
             /\ ~request'[s].unknown
  <2>0. /\ request[s].pc \in {"new", "waiting"} =>
             request[s].gen \in Generations /\ Known(request[s].gen)
        /\ ~request[s].unknown
        /\ request[s] \in Request
    BY <1>0 DEF KnownInv
  <2>1. CASE request'[s] = request[s]
    BY <1>1, <2>0, <2>1
  <2>2. CASE Dispatch(s)
    <3>1. /\ request'[s] = [pc |-> "new", gen |-> view, unknown |-> FALSE]
          /\ view \in Generations
      BY <1>0, <2>2 DEF Dispatch
    <3>2. \E g \in Generations : view = g /\ Known(g)'
      BY <1>1, <3>1, OwnerNoneAssumption DEF KnownInv
    <3> QED
      BY <3>1, <3>2
  <2>3. CASE RegisterSession(s)
    <3> DEFINE r == request[s]
    <3>1. r.pc = "new" /\ Known(r.gen)
      BY <2>0, <2>3 DEF RegisterSession
    <3>2. \/ request'[s] = [r EXCEPT !.pc = "waiting"]
          \/ request'[s] = [r EXCEPT !.pc = "registered"]
          \/ /\ ~Waits(r.gen)
             /\ request'[s] = [r EXCEPT !.pc = "refused",
                                        !.unknown = ~closed /\ phase[r.gen] = "absent"]
      BY <1>0, <2>3 DEF RegisterSession
    <3>3. ~Waits(r.gen) => closed \/ phase[r.gen] # "absent"
      BY <3>1 DEF Known, Waits
    <3> QED
      BY <1>1, <2>0, <3>1, <3>2, <3>3 DEF Request
  <2>4. CASE PublicationDone(s)
    <3>1. request[s].pc = "waiting" /\ request'[s] = [request[s] EXCEPT !.pc = "new"]
      BY <1>0, <2>4 DEF PublicationDone
    <3> QED
      BY <1>1, <2>0, <3>1 DEF Request
  <2>5. ASSUME NEW r \in Sessions, Dispatch(r) \/ SessionStep(r) \/ SessionEnds(r)
        PROVE  request'[s] = request[s] \/ Dispatch(s) \/ SessionStep(s)
    BY <1>0, <2>5
    DEF Dispatch, SessionStep, RegisterSession, PublicationDone, SessionEnds, managerVars
  <2>6. CASE \A r \in Sessions : ~(Dispatch(r) \/ SessionStep(r) \/ SessionEnds(r))
    <3>1. UNCHANGED request
      <4>1. CASE ApplyStep
        BY <4>1
        DEF ApplyStep, PrepareModule, Ready, BeginPublication, AbortDestroy,
            RegisterProvidersFails, Prepared, Validate, AbortDone, SwapView,
            FinalizePublication, DrainActivate, EndPublication
      <4>2. CASE ~ApplyStep
        BY <2>6, <4>2
        DEF Next, vars, managerVars, BeginApply, CancelApply, ReadActive, UserStep, BeginUse,
            EndUse, Retire, DrainStep, Stop, DestroyView, DestroyViewModule,
            DestroyViewReturns, Close, CloseDone
      <4> QED
        BY <4>1, <4>2
    <3> QED
      BY <2>1, <3>1
  <2> QED
    BY <2>1, <2>2, <2>3, <2>4, <2>5, <2>6 DEF SessionStep
<1>4. ASSUME NEW s \in Sessions
      PROVE  (/\ request[s].pc \in {"new", "waiting"} =>
                   request[s].gen \in Generations /\ Known(request[s].gen)
              /\ ~request[s].unknown)'
  BY <1>3 DEF Known
<1> QED
  BY <1>2, <1>4 DEF KnownInv
\* The candidate is prepared module by module, and given up in reverse order
\* (PrepareGeneration, destroyCandidateTransactions).
LEMMA CandidateNext ==
  ASSUME GMTypeOK, LockInv, CandidateInv, [Next]_vars PROVE CandidateInv'
<1> USE DEF At, Goto
<1>0. /\ applier \in Applier /\ applier.step \in 0..ModuleCount
      /\ candidate \in Transactions
  BY DEF GMTypeOK, Applier
<1>1. CASE UNCHANGED <<candidate, applier>>
  BY <1>1 DEF CandidateInv
<1>2. ASSUME NEW g \in Generations, BeginApply(g) PROVE CandidateInv'
  <2>1. applier'.pc = "prepare" /\ applier'.step = 0 /\ candidate' = NoTransactions
    BY <1>0, <1>2, ApplierFields DEF BeginApply
  <2>2. PreparedUpTo(NoTransactions, 0)
    BY DEF PreparedUpTo, NoTransactions, Modules
  <2> QED
    BY <2>1, <2>2, Segments DEF CandidateInv
<1>3. CASE CancelApply
  <2>1. UNCHANGED candidate /\ applier'.pc = applier.pc /\ applier'.step = applier.step
    BY <1>0, <1>3, ApplierFields DEF CancelApply, resources
  <2> QED
    BY <2>1 DEF CandidateInv
<1>4. CASE PrepareModule(TRUE)
  <2> DEFINE k == applier.step
  <2>1. /\ applier.pc = "prepare" /\ k < ModuleCount
        /\ candidate' = [candidate EXCEPT ![k + 1] = "prepared"]
        /\ applier'.pc = "prepare" /\ applier'.step = k + 1
    BY <1>0, <1>4, ApplierFields DEF PrepareModule, ModulesLeft
  <2>2. PreparedUpTo(candidate, k) /\ k \in 0..ModuleCount
    BY <1>0, <2>1 DEF CandidateInv
  <2> HIDE DEF k
  <2>3. k + 1 \in 0..ModuleCount /\ k + 1 \in Modules
    BY <2>1, <2>2, ModulesAssumption DEF Modules
  <2>4. ASSUME NEW m \in Modules PROVE candidate'[m] = "prepared" <=> m <= k + 1
    <3>1. CASE m = k + 1
      BY <1>0, <2>1, <3>1 DEF Transactions, Modules
    <3>2. CASE m # k + 1
      <4>1. candidate'[m] = candidate[m] /\ (candidate[m] = "prepared" <=> m <= k)
        BY <1>0, <2>1, <2>2, <3>2 DEF Transactions, PreparedUpTo
      <4> QED
        BY <2>2, <3>2, <4>1, ModulesAssumption DEF Modules
    <3> QED
      BY <3>1, <3>2
  <2>5. PreparedUpTo(candidate', k + 1)
    BY <2>4 DEF PreparedUpTo
  <2> QED
    BY <2>1, <2>3, <2>5, Segments DEF CandidateInv
<1>5. ASSUME NEW success \in BOOLEAN, PrepareModule(FALSE) \/ Ready(success)
      PROVE  CandidateInv'
  <2>1. /\ applier.pc \in {"prepare", "ready"} /\ UNCHANGED candidate
        /\ \/ applier'.pc = "abort"
           \/ applier.pc = "ready" /\ applier'.pc = "validate"
    BY <1>0, <1>5, ApplierFields DEF PrepareModule, Ready, resources
  <2> QED
    BY <2>1 DEF CandidateInv
<1>6. CASE Prepared
  <2>1. /\ applier.pc = "prepare" /\ applier.step = ModuleCount /\ UNCHANGED candidate
        /\ applier'.pc = "ready"
    BY <1>0, <1>6, ApplierFields DEF Prepared, resources
  <2> QED
    BY <2>1 DEF CandidateInv
<1>7. ASSUME NEW success \in BOOLEAN,
             RegisterProvidersFails \/ Validate \/ BeginPublication(success)
      PROVE  CandidateInv'
  <2>1. /\ UNCHANGED candidate
        /\ \/ applier'.pc = "abort"
           \/ /\ applier.pc \in {"validate", "publication"}
              /\ applier'.pc \in {"publication", "publish"}
    BY <1>0, <1>7, ApplierFields
    DEF RegisterProvidersFails, Validate, BeginPublication, resources
  <2> QED
    BY <2>1 DEF CandidateInv
<1>8. ASSUME NEW success \in BOOLEAN, AbortDestroy(success) PROVE CandidateInv'
  <2>1. /\ applier.pc = "abort" /\ UNCHANGED applier /\ HasPrepared(candidate)
        /\ candidate' = AfterDestroy(candidate, success)
    BY <1>8 DEF AbortDestroy
  <2>2. PICK k \in 0..ModuleCount : PreparedUpTo(candidate, k)
    BY DEF CandidateInv, Descending
  <2>3. Descending(AfterDestroy(candidate, success))
    BY <1>0, <2>1, <2>2, DestroyLast DEF Descending
  <2> QED
    BY <2>1, <2>3 DEF CandidateInv
<1>9. CASE AbortDone
  <2>1. /\ applier'.pc = "idle" /\ UNCHANGED candidate /\ ~HasPrepared(candidate)
    BY <1>0, <1>9, ApplierFields DEF AbortDone, CandidateGone, resources
  <2> QED
    BY <2>1, Segments DEF CandidateInv
<1>10. CASE SwapView
  <2>1. applier'.pc = "finalize" /\ candidate' = NoTransactions
    BY <1>0, <1>10, ApplierFields DEF SwapView
  <2>2. PreparedUpTo(NoTransactions, 0)
    BY DEF PreparedUpTo, NoTransactions, Modules
  <2> QED
    BY <2>1, <2>2, Segments DEF CandidateInv
<1>11. CASE FinalizePublication \/ DrainActivate \/ EndPublication
  <2>1. /\ applier.pc \in {"finalize", "activate", "limit"} /\ UNCHANGED candidate
        /\ applier'.pc \in {"activate", "limit", "idle"}
    BY <1>0, <1>11, ApplierFields
    DEF FinalizePublication, DrainActivate, EndPublication, resources
  <2> QED
    BY <2>1 DEF CandidateInv
<1>12. ASSUME NEW s \in Sessions, Dispatch(s) \/ SessionStep(s) \/ SessionEnds(s)
       PROVE  CandidateInv'
  BY <1>1, <1>12, SessionFrame DEF resources
<1>13. ASSUME NEW g \in Generations, DrainStep(g) PROVE CandidateInv'
  BY <1>1, <1>13, DrainFrame
<1>14. CASE ReadActive \/ UserStep \/ Retire \/ Close \/ CloseDone \/ UNCHANGED vars
  BY <1>1, <1>14, UserFrame DEF Retire, Close, CloseDone, vars, managerVars, resources
<1> QED
  BY <1>2, <1>3, <1>4, <1>5, <1>6, <1>7, <1>8, <1>9, <1>10, <1>11, <1>12, <1>13, <1>14
  DEF Next, ApplyStep

\* A view whose state does not change.
LEMMA ViewKept ==
  ASSUME NEW g, ViewOf(g), tx'[g] = tx[g], destroyed'[g] = destroyed[g],
         phase'[g] = phase[g], Fresh(g)' <=> Fresh(g)
  PROVE  ViewOf(g)'
BY DEF ViewOf, Descending, PreparedUpTo

\* Every view keeps its transactions while it serves or drains, and loses them
\* in reverse order afterwards (SwapView, GenerationView.Destroy).
LEMMA ViewsNext ==
  ASSUME GMTypeOK, LockInv, ActiveInv, HandoverInv, KnownInv, CandidateInv, ViewsInv,
         [Next]_vars
  PROVE  ViewsInv'
<1> USE DEF At, Goto
<1> SUFFICES ASSUME NEW h \in Generations PROVE ViewOf(h)'
  BY DEF ViewsInv
<1>0. /\ applier \in Applier /\ (applier.pc # "idle" => applier.gen \in Generations)
      /\ active \in Generations \union {None} /\ view \in Generations \union {None}
      /\ phase \in [Generations -> Phases] /\ tx \in [Generations -> Transactions]
      /\ destroyed \in [Generations -> Destruction] /\ h # None
      /\ ViewOf(h)
  BY OwnerNoneAssumption DEF GMTypeOK, OwnerTypeOK, Applier, LockInv, At, ViewsInv
<1>1. ASSUME UNCHANGED <<tx, destroyed, phase, closed, view>>, Fresh(h)' <=> Fresh(h)
      PROVE  ViewOf(h)'
  BY <1>0, <1>1, ViewKept
<1>2. ASSUME UNCHANGED <<tx, destroyed, phase, closed, view>>,
             applier' = applier \/ /\ applier.pc \notin {"finalize", "activate", "limit"}
                                   /\ applier'.pc \notin {"finalize", "activate", "limit"}
      PROVE  ViewOf(h)'
  BY <1>1, <1>2 DEF Fresh
<1>3. ASSUME NEW g \in Generations, BeginApply(g) PROVE ViewOf(h)'
  <2>1. applier.pc = "idle" /\ applier'.pc = "prepare"
    BY <1>0, <1>3, ApplierFields DEF BeginApply
  <2> QED
    BY <1>2, <1>3, <2>1 DEF BeginApply, ownerVars
<1>4. CASE CancelApply
  <2>1. applier'.pc = applier.pc /\ applier'.gen = applier.gen
    BY <1>0, <1>4, ApplierFields DEF CancelApply
  <2> QED
    BY <1>1, <1>4, <2>1 DEF CancelApply, ownerVars, resources, Fresh
<1>5. ASSUME NEW success \in BOOLEAN,
             \/ PrepareModule(success) \/ Ready(success) \/ RegisterProvidersFails
             \/ Prepared \/ Validate \/ BeginPublication(success)
             \/ AbortDestroy(success) \/ AbortDone
      PROVE  ViewOf(h)'
  <2>1. \/ applier' = applier
        \/ /\ applier.pc \notin {"finalize", "activate", "limit"}
           /\ applier'.pc \notin {"finalize", "activate", "limit"}
    BY <1>0, <1>5, ApplierFields
    DEF PrepareModule, Ready, RegisterProvidersFails, Prepared, Validate, BeginPublication,
        AbortDestroy, AbortDone
  <2>2. UNCHANGED <<tx, destroyed, phase, closed, view>>
    BY <1>5 DEF PrepareModule, Ready, RegisterProvidersFails, Prepared, Validate,
                BeginPublication, AbortDestroy, AbortDone, ownerVars, resources
  <2> QED
    BY <1>2, <2>1, <2>2
<1>6. CASE SwapView
  <2>1. /\ applier.pc = "publish" /\ applier'.pc = "finalize" /\ applier'.gen = applier.gen
        /\ view' = applier.gen /\ UNCHANGED <<phase, closed, active, destroyed>>
        /\ tx' = [tx EXCEPT ![applier.gen] = candidate]
    BY <1>0, <1>6, ApplierFields DEF SwapView, ownerVars
  <2>2. CASE h = applier.gen
    <3>1. tx'[h] = candidate
      BY <1>0, <2>1, <2>2
    <3>2. PreparedUpTo(candidate, ModuleCount) /\ phase[h] = "absent"
      BY <2>1, <2>2 DEF CandidateInv, HandoverInv
    <3>3. Fresh(h)'
      BY <2>1, <2>2 DEF Fresh
    <3>4. destroyed[h].once = "never"
      BY <1>0, <3>2 DEF ViewOf
    <3>5. Descending(candidate)
      BY DEF CandidateInv
    <3> QED
      BY <2>1, <3>1, <3>2, <3>3, <3>4, <3>5 DEF ViewOf, PreparedUpTo, Descending
  <2>3. CASE h # applier.gen
    <3>1. ~Fresh(h) /\ ~Fresh(h)'
      BY <1>0, <2>1, <2>3 DEF Fresh, HandoverInv, ActiveInv
    <3>2. tx'[h] = tx[h]
      BY <1>0, <2>1, <2>3
    <3> QED
      BY <1>0, <2>1, <3>1, <3>2, ViewKept
  <2> QED
    BY <2>2, <2>3
<1>7. CASE FinalizePublication
  <2>1. /\ applier.pc = "finalize" /\ applier'.pc = "activate" /\ applier'.gen = applier.gen
    BY <1>0, <1>7, ApplierFields DEF FinalizePublication
  <2> QED
    BY <1>1, <1>7, <2>1 DEF FinalizePublication, ownerVars, resources, Fresh
<1>8. CASE DrainActivate
  <2>1. /\ applier.pc = "activate" /\ applier'.pc = "limit" /\ applier'.gen = applier.gen
        /\ UNCHANGED <<tx, destroyed, view, closed>>
    BY <1>0, <1>8, ApplierFields DEF DrainActivate, OwnerActivate, ownerVars, resources
  <2>2. Fresh(h)' <=> Fresh(h)
    BY <2>1 DEF Fresh
  <2>3. CASE phase'[h] = phase[h]
    BY <1>0, <2>1, <2>2, <2>3, ViewKept
  <2>4. CASE phase'[h] # phase[h]
    <3>1. /\ OwnerActivate(applier.gen)
      BY <1>8, <2>4 DEF DrainActivate, ownerVars
    <3>2. \/ h = applier.gen /\ phase[h] = "absent" /\ phase'[h] = "serving"
          \/ h = active /\ phase[h] = "serving" /\ phase'[h] = "retiring"
      BY <1>0, <2>4, <3>1 DEF OwnerActivate, ActiveInv
    <3>3. PreparedUpTo(tx[h], ModuleCount) /\ destroyed[h].once = "never"
      BY <1>0, <2>1, <3>2 DEF ViewOf, Fresh
    <3> QED
      BY <1>0, <2>1, <3>2, <3>3 DEF ViewOf, PreparedUpTo, Descending
  <2> QED
    BY <2>3, <2>4
<1>9. CASE EndPublication
  <2>1. /\ applier.pc = "limit" /\ applier'.pc = "idle"
        /\ UNCHANGED <<tx, destroyed, phase, view, closed>>
    BY <1>0, <1>9, ApplierFields DEF EndPublication, ownerVars, resources
  <2>2. CASE Fresh(h)' <=> Fresh(h)
    BY <1>1, <2>1, <2>2
  <2>3. CASE ~(Fresh(h)' <=> Fresh(h))
    <3>1. h = applier.gen /\ ~closed
      BY <2>1, <2>3 DEF Fresh, HandoverInv
    <3>2. phase[h] = "serving"
      BY <1>0, <2>1, <3>1 DEF HandoverInv, ActiveInv
    <3> QED
      BY <1>0, <2>1, <3>2 DEF ViewOf, PreparedUpTo, Descending
  <2> QED
    BY <2>2, <2>3
<1>10. CASE Retire
  <2>1. /\ UNCHANGED <<tx, destroyed, view, closed, applier>>
        /\ phase' = [phase EXCEPT ![active] = "retiring"]
        /\ active # None
    BY <1>10 DEF Retire, OwnerRetire, managerVars, resources
  <2>2. CASE h = active
    <3>1. phase[h] = "serving" /\ phase'[h] = "retiring"
      BY <1>0, <2>1, <2>2 DEF ActiveInv
    <3> QED
      BY <1>0, <2>1, <3>1 DEF ViewOf, PreparedUpTo, Descending
  <2>3. CASE h # active
    <3>1. phase'[h] = phase[h] /\ (Fresh(h)' <=> Fresh(h))
      BY <1>0, <2>1, <2>3 DEF Fresh
    <3> QED
      BY <1>0, <2>1, <3>1, ViewKept
  <2> QED
    BY <2>2, <2>3
<1>11. CASE Close
  <2>1. /\ ~closed /\ applier.pc = "idle"
        /\ UNCHANGED <<tx, destroyed, phase, view, applier>>
    BY <1>11 DEF Close, OwnerClose, LockInv, resources
  <2>2. CASE view = h
    <3>1. phase[h] # "absent"
      BY <1>0, <2>1, <2>2 DEF HandoverInv, OwnedView, ActiveInv
    <3> QED
      BY <1>0, <2>1, <3>1 DEF ViewOf, PreparedUpTo, Descending
  <2>3. CASE view # h
    <3>1. Fresh(h)' <=> Fresh(h)
      BY <2>1, <2>3 DEF Fresh
    <3> QED
      BY <1>0, <2>1, <3>1, ViewKept
  <2> QED
    BY <2>2, <2>3
<1>12. ASSUME NEW g \in Generations, Stop(g) \/ DestroyView(g) \/ DestroyViewReturns(g)
       PROVE  ViewOf(h)'
  <2>0. UNCHANGED <<tx, view, closed, applier>>
    BY <1>12 DEF Stop, StopServing, DestroyView, BeginDestroy, DestroyViewReturns, EndDestroy,
                 managerVars, resources
  <2>1. CASE h # g
    <3>1. phase'[h] = phase[h] /\ destroyed'[h] = destroyed[h]
      BY <1>0, <1>12, <2>1
      DEF Stop, StopServing, DestroyView, BeginDestroy, DestroyViewReturns, EndDestroy,
          managerVars, resources
    <3>2. Fresh(h)' <=> Fresh(h)
      BY <2>0 DEF Fresh
    <3> QED
      BY <1>0, <2>0, <3>1, <3>2, ViewKept
  <2>2. CASE h = g /\ Stop(g)
    <3>1. /\ phase[h] \in {"serving", "retiring"} /\ phase'[h] = "ending"
          /\ UNCHANGED destroyed
      BY <1>0, <2>2 DEF Stop, StopServing, managerVars, resources
    <3> QED
      BY <1>0, <2>0, <3>1 DEF ViewOf, PreparedUpTo, Descending
  <2>3. CASE h = g /\ DestroyView(g)
    <3>1. /\ phase[h] = "ending" /\ phase'[h] = "destroying"
          /\ destroyed'[h] = IF destroyed[h].once = "never"
                               THEN [destroyed[h] EXCEPT !.once = "running"] ELSE destroyed[h]
      BY <1>0, <2>3 DEF DestroyView, BeginDestroy
    <3>2. destroyed'[h].once = "running" \/ destroyed'[h] = destroyed[h]
      BY <1>0, <3>1 DEF Destruction
    <3> QED
      BY <1>0, <2>0, <3>1, <3>2 DEF ViewOf, PreparedUpTo, Descending
  <2>4. CASE h = g /\ DestroyViewReturns(g)
    <3>1. /\ phase[h] = "destroying" /\ phase'[h] \in {"gone", "ending"}
          /\ ~HasPrepared(tx[h]) \/ destroyed[h].once = "done"
          /\ destroyed'[h] = [destroyed[h] EXCEPT !.once = "done"]
      BY <1>0, <2>4 DEF DestroyViewReturns, EndDestroy
    <3>2. destroyed'[h].once = "done" /\ PreparedUpTo(tx[h], 0)
      BY <1>0, <3>1, Segments DEF Destruction, ViewOf
    <3> QED
      BY <1>0, <2>0, <3>1, <3>2 DEF ViewOf, PreparedUpTo, Descending
  <2> QED
    BY <1>12, <2>1, <2>2, <2>3, <2>4
<1>13. ASSUME NEW g \in Generations, NEW success \in BOOLEAN, DestroyViewModule(g, success)
       PROVE  ViewOf(h)'
  <2>0. UNCHANGED <<phase, view, closed, applier>>
    BY <1>13 DEF DestroyViewModule, ownerVars
  <2>1. CASE h # g
    <3>1. tx'[h] = tx[h] /\ destroyed'[h] = destroyed[h]
      BY <1>0, <1>13, <2>1 DEF DestroyViewModule
    <3>2. Fresh(h)' <=> Fresh(h)
      BY <2>0 DEF Fresh
    <3> QED
      BY <1>0, <2>0, <3>1, <3>2, ViewKept
  <2>2. CASE h = g
    <3>1. /\ destroyed[h].once = "running" /\ HasPrepared(tx[h])
          /\ tx'[h] = AfterDestroy(tx[h], success)
          /\ destroyed'[h] = [destroyed[h] EXCEPT !.err = @ \/ ~success]
      BY <1>0, <1>13, <2>2 DEF DestroyViewModule
    <3>2. phase[h] = "destroying" /\ destroyed'[h].once = "running"
      BY <1>0, <3>1 DEF ViewOf, Destruction
    <3>3. PICK k \in 0..ModuleCount : PreparedUpTo(tx[h], k)
      BY <1>0 DEF ViewOf, Descending
    <3>4. Descending(AfterDestroy(tx[h], success))
      BY <1>0, <3>1, <3>3, DestroyLast DEF Descending
    <3> QED
      BY <2>0, <3>1, <3>2, <3>4 DEF ViewOf, Descending
  <2> QED
    BY <2>1, <2>2
<1>14. ASSUME NEW s \in Sessions, Dispatch(s) \/ SessionStep(s) \/ SessionEnds(s)
       PROVE  ViewOf(h)'
  BY <1>2, <1>14, SessionFrame DEF resources
<1>15. CASE ReadActive \/ UserStep \/ CloseDone \/ UNCHANGED vars
  BY <1>2, <1>15, UserFrame DEF CloseDone, vars, ownerVars, managerVars, resources
<1> QED
  BY <1>3, <1>4, <1>5, <1>6, <1>7, <1>8, <1>9, <1>10, <1>11, <1>12, <1>13, <1>14, <1>15
  DEF Next, ApplyStep, DrainStep
----------------------------------------------------------------------------
(* The inductive invariant and the theorems *)

\* Nothing is published yet.
LEMMA ManagerInit == Init => ManagerInv
<1> SUFFICES ASSUME Init PROVE ManagerInv
  OBVIOUS
<1> USE DEF Init, OwnerInit
<1>1. OwnerTypeOK
  BY DEF OwnerTypeOK, Phases, Unused
<1>2. IdleApplier \in Applier /\ IdleApplier.pc = "idle" /\ IdleApplier.gen = None
  BY ModulesAssumption DEF Applier, IdleApplier
<1>3. NoTransactions \in Transactions /\ PreparedUpTo(NoTransactions, 0)
  BY DEF NoTransactions, Transactions, PreparedUpTo, Modules
<1>4. GMTypeOK
  BY <1>1, <1>2, <1>3, DestroyFailuresAssumption
  DEF GMTypeOK, Holders, NeverDestroyed, Destruction, User, Request
<1>5. LockInv /\ ActiveInv /\ HandoverInv /\ KnownInv
  BY <1>2 DEF LockInv, At, Before, Publishing, ActiveInv, HandoverInv, OwnedView, KnownInv
<1>6. CandidateInv
  BY <1>2, <1>3, Segments DEF CandidateInv, At
<1>7. ASSUME NEW g \in Generations PROVE ViewOf(g)
  <2>1. ~Fresh(g)
    BY <1>2 DEF Fresh
  <2> QED
    BY <1>3, <2>1, Segments DEF ViewOf, NeverDestroyed
<1> QED
  BY <1>4, <1>5, <1>6, <1>7 DEF ManagerInv, ViewsInv

\* The invariant of the manager holds whatever sessions, errors, closes and ends
\* of drains come between the steps of an apply (apply, beginPublication, Close).
THEOREM ManagerInvariance == Spec => []ManagerInv
<1>1. ManagerInv /\ [Next]_vars => ManagerInv'
  BY TypeNext, LockNext, ActiveNext, HandoverNext, KnownNext, CandidateNext, ViewsNext
  DEF ManagerInv
<1> QED
  BY <1>1, ManagerInit, PTL DEF Spec

\* No session of a generation whose view is already selected is refused because
\* the drain owner has not heard of it: it waits for the publication
\* (beginPublication, RegisterSession).
THEOREM HandoverSafety == Spec => []NoRefusalBeforeHandover
<1>1. ManagerInv => NoRefusalBeforeHandover
  BY DEF ManagerInv, KnownInv, NoRefusalBeforeHandover
<1> QED
  BY <1>1, ManagerInvariance, PTL

\* Between two applies the published view and the owner's active generation
\* agree, unless the owner gave it up, and WithActiveGeneration's use runs under
\* the view it was meant for (apply, WithActiveGeneration).
THEOREM ViewSafety == Spec => []ViewIsOwned
<1>1. ManagerInv => ViewIsOwned
  BY DEF ManagerInv, HandoverInv, LockInv, OwnedView, ViewIsOwned, At
<1> QED
  BY <1>1, ManagerInvariance, PTL

\* A prepared transaction always has somebody who will destroy it, is prepared as
\* long as its generation takes traffic, and is destroyed in reverse order
\* (destroyCandidateTransactions, destroyPublishedTransactions).
THEOREM TransactionSafety == Spec => []PreparedIsOwned
<1>1. ASSUME ManagerInv PROVE PreparedIsOwned
  <2>0. CandidateInv /\ ViewsInv /\ phase \in [Generations -> Phases]
    BY <1>1 DEF ManagerInv, GMTypeOK, OwnerTypeOK
  <2>1. HasPrepared(candidate) => ~At("idle")
    BY <2>0, Segments DEF CandidateInv, At
  <2>2. ASSUME NEW g \in Generations, HasPrepared(tx[g])
        PROVE  \/ applier.gen = g
               \/ phase[g] \in {"serving", "retiring", "ending", "destroying"}
               \/ closed /\ view = g
    <3>1. ~PreparedUpTo(tx[g], 0) /\ ViewOf(g)
      BY <2>0, <2>2, Segments DEF ViewsInv
    <3> QED
      BY <2>0, <3>1 DEF ViewOf, Fresh, Phases
  <2>3. ASSUME NEW g \in Generations, NEW m \in Modules, phase[g] \in {"serving", "retiring"}
        PROVE  tx[g][m] = "prepared"
    BY <2>0, <2>3, Segments DEF ViewsInv, ViewOf
  <2>4. InReverseOrder(candidate) /\ \A g \in Generations : InReverseOrder(tx[g])
    BY <2>0, Segments DEF CandidateInv, ViewsInv, ViewOf
  <2> QED
    BY <2>1, <2>2, <2>3, <2>4 DEF PreparedIsOwned
<1> QED
  BY <1>1, ManagerInvariance, PTL

\* The manager drives the drain controller only as DrainOwner, which the
\* controller implements, lets it.
THEOREM OwnerUsed == Spec => OwnerSpec
<1>1. ManagerInv /\ [Next]_vars => [OwnerNext]_ownerVars
  BY OwnerSteps DEF ManagerInv
<1>2. Init => OwnerInit
  BY DEF Init
<1> QED
  BY <1>1, <1>2, ManagerInvariance, PTL DEF Spec, OwnerSpec
=============================================================================
