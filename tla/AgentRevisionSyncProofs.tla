---------------------- MODULE AgentRevisionSyncProofs ----------------------
(***************************************************************************)
(* Proofs about the ledger of one agent, and about the agent's syncs       *)
(* composed with it, for every number of revisions, retries, attempts and  *)
(* leases.                                                                 *)
(*                                                                         *)
(* The ledger comes first, under Spec.  Its properties need one another:   *)
(* that an applied revision is served rests on a late report never finding *)
(* its lease again, and that on the lease an attempt row carries being the *)
(* one it was issued for.  LedgerInv collects what they rest on and is     *)
(* inductive.                                                              *)
(*                                                                         *)
(* The agent follows, under SyncSpec: whatever crashes, timeouts and late  *)
(* calls happen on the way, what the ledger calls applied is on the        *)
(* agent's disk, and what it says of the agent's generations is true.  The *)
(* agent's calls are operations of the ledger, so that LedgerInv holds     *)
(* throughout.  What the agent holds is a few leases, each of them past    *)
(* its prime but the newest: that a lease which cannot be applied any more *)
(* stays so is what late calls cannot break.                               *)
(***************************************************************************)
EXTENDS AgentRevisionSync, FiniteSetTheorems, TLAPS

\* The pointer: a deleted agent's is gone, no revision is both open and above
\* the desired one.
PointerInv ==
  /\ ~pointer.found => pointer = NoPointer
  /\ pointer.lkg = applied
  /\ applied <= desired
  /\ \A r \in Open : r <= desired

\* An attempt carries a lease that was issued for it and for no other attempt.
LeaseInv ==
  \A k \in Rows : attempt[k].state # "none" =>
    attempt[k].lease \in LeaseIds /\ row[attempt[k].lease] = k

\* There is at most one active attempt.  It is the next one of a pending revision
\* or the current one of an applying revision, which has no other.
BusyInv ==
  /\ \A j, k \in Active : j = k
  /\ \A k \in Active :
       /\ k[2] = revision[k[1]].cycle
       /\ attempt[k].state = "started" =>
            /\ revision[k[1]].state = "applying"
            /\ revision[k[1]].count = k[3]
            /\ revision[k[1]].generation = attempt[k].lease
       /\ attempt[k].state = "leased" =>
            /\ revision[k[1]].state = "pending"
            /\ revision[k[1]].count + 1 = k[3]
  /\ \A r \in Revisions : revision[r].state = "applying" =>
       \E k \in Active : k[1] = r /\ attempt[k].state = "started"

\* The attempts counted in the current cycle of an open or failed revision have
\* failed, but for the one that is under way.
TriedInv ==
  \A r \in Revisions :
    /\ revision[r].state = "pending" => revision[r].count < MaxAttempts
    /\ revision[r].state = "failed" => revision[r].count = MaxAttempts
    /\ \A n \in Ordinals :
         \/ revision[r].state \in {"pending", "failed"} /\ n <= revision[r].count
         \/ revision[r].state = "applying" /\ n < revision[r].count
         => attempt[<<r, revision[r].cycle, n>>].state = "failed"

\* A generation belongs to the lease of an applied attempt; one is active as soon
\* as there is any; and the applied revision's is the active one.
GenerationInv ==
  /\ \A l \in LeaseIds : generation[l].state # "none" =>
       /\ row[l] \in Rows
       /\ attempt[row[l]].state = "applied"
       /\ attempt[row[l]].lease = l
       /\ \E g \in LeaseIds : generation[g].state = "active"
  /\ applied > 0 =>
       /\ revision[applied].state = "applied"
       /\ revision[applied].generation \in LeaseIds
       /\ row[revision[applied].generation][1] = applied
       /\ \A g \in LeaseIds :
            generation[g].state = "active" <=> g = revision[applied].generation

\* What drains or has drained is below the revision it made way for.
DrainInv ==
  /\ registered /\ applied = 0 => \A l \in LeaseIds : generation[l].state = "none"
  /\ registered => \A l \in Draining : row[l][1] < applied
  /\ \A l \in LeaseIds :
       generation[l].state \in {"drained", "forced"} => row[l][1] < generation[l].era
  /\ DrainStateAgrees

LedgerInv == /\ TypeOK
             /\ PointerInv
             /\ LeaseInv
             /\ BusyInv
             /\ TriedInv
             /\ GenerationInv
             /\ DrainInv

----------------------------------------------------------------------------
(* Rows and the operators that rewrite them *)

USE DEF desired, applied

\* The coordinates of an attempt.
LEMMA Coordinates ==
  /\ \A k \in Rows : /\ k[1] \in Revisions /\ k[2] \in Cycles /\ k[3] \in Ordinals
                     /\ k = <<k[1], k[2], k[3]>>
  /\ \A r \in Revisions, c \in Cycles, n \in Ordinals :
       /\ <<r, c, n>> \in Rows
       /\ <<r, c, n>>[1] = r /\ <<r, c, n>>[2] = c /\ <<r, c, n>>[3] = n
BY DEF Rows

\* The numbers are natural numbers.
LEMMA Numbers ==
  /\ Revisions \subseteq Nat \ {0} /\ Cycles \subseteq Nat /\ Ordinals \subseteq Nat \ {0}
  /\ MaxAttempts \in Nat \ {0} /\ MaxRevision \in Nat /\ MaxCycle \in Nat
  /\ Ordinals = 1 .. MaxAttempts + 1 /\ Revisions = 1 .. MaxRevision
BY BoundAssumption, AttemptsAssumption DEF Revisions, Cycles, Ordinals

\* The fields of the rows.
LEMMA Fields ==
  ASSUME TypeOK
  PROVE  /\ \A r \in Revisions :
              /\ revision[r].state \in {"none", "pending", "applying", "applied",
                                        "failed", "superseded"}
              /\ revision[r].cycle \in Cycles /\ revision[r].count \in Nat
              /\ revision[r].count <= MaxAttempts
              /\ revision[r].generation \in LeaseIds \union {None}
         /\ \A k \in Rows :
              /\ attempt[k].state \in {"none", "leased", "started", "applied", "failed",
                                       "superseded", "expired_unstarted"}
              /\ attempt[k].lease \in LeaseIds \union {None}
              /\ attempt[k].expired \in BOOLEAN
         /\ \A l \in LeaseIds :
              /\ generation[l].state \in {"none", "active", "draining", "drained", "forced"}
              /\ generation[l].era \in 0 .. MaxRevision
         /\ pointer.found \in BOOLEAN /\ desired \in 0 .. MaxRevision
         /\ applied \in 0 .. MaxRevision /\ pointer.lkg \in 0 .. MaxRevision
<1>1. \A r \in Revisions :
        /\ revision[r].state \in {"none", "pending", "applying", "applied",
                                  "failed", "superseded"}
        /\ revision[r].cycle \in Cycles /\ revision[r].count \in Nat
        /\ revision[r].count <= MaxAttempts
        /\ revision[r].generation \in LeaseIds \union {None}
  <2>1. ASSUME NEW r \in Revisions PROVE revision[r] \in RevisionRow
    BY DEF TypeOK
  <2>2. 0 .. MaxAttempts + 1 \subseteq Nat
    BY Numbers
  <2> QED
    BY <2>1, <2>2 DEF TypeOK, RevisionRow
<1>2. \A k \in Rows :
        /\ attempt[k].state \in {"none", "leased", "started", "applied", "failed",
                                 "superseded", "expired_unstarted"}
        /\ attempt[k].lease \in LeaseIds \union {None}
        /\ attempt[k].expired \in BOOLEAN
  BY DEF TypeOK, AttemptRow
<1>3. \A l \in LeaseIds :
        /\ generation[l].state \in {"none", "active", "draining", "drained", "forced"}
        /\ generation[l].era \in 0 .. MaxRevision
  BY DEF TypeOK, GenerationRow
<1>4. /\ pointer.found \in BOOLEAN /\ desired \in 0 .. MaxRevision
      /\ applied \in 0 .. MaxRevision /\ pointer.lkg \in 0 .. MaxRevision
  BY DEF TypeOK, Pointer
<1> QED
  BY <1>1, <1>2, <1>3, <1>4

\* A row of a revision, and what the transactions make of it.
LEMMA RevisionRows ==
  /\ [NoRevision EXCEPT !.state = "pending"] \in RevisionRow
  /\ NoRevision \in RevisionRow
  /\ \A v \in RevisionRow :
       /\ \A s \in {"pending", "applied", "failed", "superseded"} :
            [v EXCEPT !.state = s, !.waiting = FALSE] \in RevisionRow
       /\ \A d \in {"draining", "drained", "forced"} : [v EXCEPT !.drain = d] \in RevisionRow
<1>1. 0 \in Cycles /\ 0 \in 0 .. MaxAttempts + 1
  BY Numbers DEF Cycles
<1>2. NoRevision \in RevisionRow
  BY <1>1 DEF RevisionRow, NoRevision
<1>3. [NoRevision EXCEPT !.state = "pending"] \in RevisionRow
  BY <1>1 DEF RevisionRow, NoRevision
<1>4. ASSUME NEW v \in RevisionRow
      PROVE  /\ \A s \in {"pending", "applied", "failed", "superseded"} :
                  [v EXCEPT !.state = s, !.waiting = FALSE] \in RevisionRow
             /\ \A d \in {"draining", "drained", "forced"} :
                  [v EXCEPT !.drain = d] \in RevisionRow
  BY DEF RevisionRow
<1> QED
  BY <1>2, <1>3, <1>4

\* supersedeOlderCoordinatorRevisionsTx.
LEMMA Fenced ==
  ASSUME TypeOK, NEW r \in Revisions
  PROVE  /\ RevisionsFenced[r] \in RevisionRow
         /\ RevisionsFenced[r].cycle = revision[r].cycle
         /\ RevisionsFenced[r].count = revision[r].count
         /\ RevisionsFenced[r].generation = revision[r].generation
         /\ RevisionsFenced[r].drain = revision[r].drain
         /\ r \in Open /\ r < desired => RevisionsFenced[r].state = "superseded"
         /\ ~(r \in Open /\ r < desired) => RevisionsFenced[r] = revision[r]
<1>1. revision[r] \in RevisionRow
  BY DEF TypeOK
<1>2. /\ Superseded(r) \in RevisionRow /\ Superseded(r).state = "superseded"
      /\ Superseded(r).cycle = revision[r].cycle /\ Superseded(r).count = revision[r].count
      /\ Superseded(r).generation = revision[r].generation
      /\ Superseded(r).drain = revision[r].drain
  BY <1>1 DEF Superseded, RevisionRow
<1> QED
  BY <1>1, <1>2 DEF RevisionsFenced, Overtaken

\* expireUnstartedAttemptTx and the end of the attempts of older revisions: a
\* sweep only ends active attempts, and never one of a later revision.
LEMMA Swept ==
  ASSUME TypeOK, NEW k \in Rows
  PROVE  /\ AttemptsExpired[k] \in AttemptRow
         /\ AttemptsExpired[k].lease = attempt[k].lease
         /\ AttemptsExpired[k].state \in {attempt[k].state, "superseded", "expired_unstarted"}
         /\ k \notin Active => AttemptsExpired[k] = attempt[k]
         /\ AttemptsExpired[k].state \in {"leased", "started"} =>
              AttemptsExpired[k] = attempt[k] /\ k[1] >= desired
         /\ k \in Active /\ k[1] = desired =>
              \/ AttemptsExpired[k] = attempt[k]
                 /\ ~(attempt[k].expired /\ attempt[k].state = "leased")
              \/ attempt[k].state = "leased"
                 /\ AttemptsExpired[k].state = "expired_unstarted"
<1>1. attempt[k] \in AttemptRow /\ k[1] \in Nat /\ desired \in Nat
  BY Coordinates, Numbers, Fields DEF TypeOK
<1>2. \A s \in {"superseded", "expired_unstarted"} :
        /\ [attempt[k] EXCEPT !.state = s] \in AttemptRow
        /\ [attempt[k] EXCEPT !.state = s].state = s
        /\ [attempt[k] EXCEPT !.state = s].lease = attempt[k].lease
  BY <1>1 DEF AttemptRow
<1>3. AttemptsFenced[k] = IF k \in Active /\ k[1] < desired
                            THEN [attempt[k] EXCEPT !.state = "superseded"] ELSE attempt[k]
  BY DEF AttemptsFenced
<1>4. AttemptsExpired[k] = IF k \in Active /\ k[1] = desired /\ attempt[k].expired
                              /\ attempt[k].state = "leased"
                             THEN [attempt[k] EXCEPT !.state = "expired_unstarted"]
                             ELSE AttemptsFenced[k]
  BY DEF AttemptsExpired
<1> QED
  BY <1>1, <1>2, <1>3, <1>4 DEF Active

\* failStartedCoordinatorAttemptTx.
LEMMA Failed ==
  ASSUME TypeOK, NEW r \in Revisions
  PROVE  /\ AfterFailure(r) \in RevisionRow
         /\ AfterFailure(r).cycle = revision[r].cycle
         /\ AfterFailure(r).count = revision[r].count
         /\ AfterFailure(r).drain = revision[r].drain
         /\ revision[r].state # "applying" => AfterFailure(r) = revision[r]
         /\ revision[r].state = "applying" =>
              IF revision[r].count >= MaxAttempts THEN AfterFailure(r).state = "failed"
                                                  ELSE AfterFailure(r).state = "pending"
<1>1. revision[r] \in RevisionRow /\ MaxAttempts \in Nat /\ revision[r].count \in Nat
  BY Numbers, Fields DEF TypeOK
<1> QED
  BY <1>1 DEF AfterFailure, Exhausted, RevisionRow

----------------------------------------------------------------------------
(* New desired revisions *)

\* A fresh revision becomes the desired one (Executor.Execute,
\* EnsureAgentHeartbeatRevision, CopyLastKnownGoodCoordinatorRevision).
LEMMA IssueNext ==
  ASSUME LedgerInv, NEW r \in Revisions, Fresh(r), Issue(r),
         UNCHANGED <<registered, attempt, row, generation>>
  PROVE  LedgerInv'
<1>0. /\ TypeOK /\ PointerInv /\ LeaseInv /\ BusyInv /\ TriedInv /\ GenerationInv
      /\ DrainInv
  BY DEF LedgerInv
<1>1. /\ revision' = [revision EXCEPT ![r] = [NoRevision EXCEPT !.state = "pending"]]
      /\ revision \in [Revisions -> RevisionRow] /\ revision[r].state = "none"
  <2>1. r \notin Known
    BY Numbers DEF Fresh
  <2> QED
    BY <1>0, <2>1 DEF Issue, TypeOK, Known
<1>2. /\ revision'[r].state = "pending" /\ revision'[r].count = 0
      /\ revision'[r].cycle = 0
      /\ \A q \in Revisions : q # r => revision'[q] = revision[q]
  BY <1>1 DEF NoRevision
<1>3. /\ pointer' \in Pointer /\ pointer'.found /\ pointer'.desired = r
      /\ pointer'.applied = pointer.applied /\ pointer'.lkg = pointer.lkg
  <2>1. r \in 0 .. MaxRevision
    BY Numbers
  <2> QED
    BY <1>0, <2>1 DEF Issue, TypeOK, Pointer
<1>4. TypeOK'
  <2>1. revision' \in [Revisions -> RevisionRow]
    BY <1>1, RevisionRows
  <2>2. \A q \in Revisions : revision'[q].count <= MaxAttempts
    BY <1>0, <1>2, Numbers DEF TypeOK
  <2> QED
    BY <1>0, <1>3, <2>1, <2>2 DEF TypeOK
<1>5. PointerInv'
  <2>1. applied \in Nat /\ desired \in Nat /\ r \in Nat /\ r > desired
    BY <1>0, Fields, Numbers DEF Fresh
  <2>2. \A q \in Open' : q \in Open \/ q = r
    BY <1>2 DEF Open
  <2> QED
    BY <1>0, <1>3, <2>1, <2>2, Numbers DEF PointerInv, Open
<1>6. LeaseInv'
  BY <1>0 DEF LeaseInv
<1>7. BusyInv'
  <2>1. Active' = Active
    BY DEF Active
  <2>2. \A k \in Active : k[1] \in Revisions /\ k[1] # r
    BY <1>0, <1>1, Coordinates DEF BusyInv, Active
  <2> QED
    BY <1>0, <1>2, <2>1, <2>2 DEF BusyInv
<1>8. TriedInv'
  <2>1. \A n \in Ordinals : ~(n <= 0)
    BY Numbers
  <2> QED
    BY <1>0, <1>2, <2>1, Numbers DEF TriedInv
<1>9. GenerationInv'
  <2>1. applied > 0 => applied \in Revisions /\ applied # r
    BY <1>0, <1>1, Fields, Numbers DEF GenerationInv
  <2> QED
    BY <1>0, <1>2, <1>3, <2>1 DEF GenerationInv
<1>10. DrainInv'
  <2>1. applied > 0 => applied \in Revisions /\ applied # r
    BY <1>0, <1>1, Fields, Numbers DEF GenerationInv
  <2> QED
    BY <1>0, <1>2, <1>3, <2>1 DEF DrainInv, DrainStateAgrees, Draining, Generations
<1> QED
  BY <1>4, <1>5, <1>6, <1>7, <1>8, <1>9, <1>10 DEF LedgerInv

\* A heartbeat of an agent that has the revision already.
LEMMA HeartbeatNext ==
  ASSUME LedgerInv, NEW r \in Revisions, HeartbeatRepeats(r) PROVE LedgerInv'
<1> USE DEF HeartbeatRepeats
<1>0. /\ TypeOK /\ PointerInv /\ LeaseInv /\ BusyInv /\ TriedInv /\ GenerationInv
      /\ DrainInv
  BY DEF LedgerInv
<1>1. /\ pointer' \in Pointer /\ pointer'.found /\ pointer'.desired = r
      /\ pointer'.applied = pointer.applied /\ pointer'.lkg = pointer.lkg
      /\ desired <= r /\ UNCHANGED <<registered, revision, attempt, row, generation>>
  <2>1. r \in 0 .. MaxRevision
    BY Numbers
  <2> QED
    BY <1>0, <2>1 DEF TypeOK, Pointer
<1>2. TypeOK'
  BY <1>0, <1>1 DEF TypeOK
<1>3. PointerInv'
  <2>1. applied \in Nat /\ desired \in Nat /\ r \in Nat
    BY <1>0, Fields, Numbers
  <2>2. \A q \in Open' : q \in Open /\ q \in Nat
    BY <1>1, Numbers DEF Open
  <2> QED
    BY <1>0, <1>1, <2>1, <2>2 DEF PointerInv
<1>4. LeaseInv' /\ BusyInv' /\ TriedInv'
  BY <1>0, <1>1 DEF LeaseInv, BusyInv, TriedInv, Active
<1>5. GenerationInv' /\ DrainInv'
  BY <1>0, <1>1 DEF GenerationInv, DrainInv, DrainStateAgrees, Draining, Generations
<1> QED
  BY <1>2, <1>3, <1>4, <1>5 DEF LedgerInv

\* An operator retries a revision that was given up.
LEMMA RetryNext == ASSUME LedgerInv, Retry PROVE LedgerInv'
<1> DEFINE r == pointer.desired
<1>0. /\ TypeOK /\ PointerInv /\ LeaseInv /\ BusyInv /\ TriedInv /\ GenerationInv
      /\ DrainInv
  BY DEF LedgerInv
<1>1. /\ r \in Revisions /\ revision[r].state = "failed" /\ revision[r].cycle < MaxCycle
      /\ Active = {} /\ pointer.found
      /\ UNCHANGED <<registered, pointer, attempt, row, generation>>
  BY DEF Retry, Known
<1>2. /\ revision' \in [Revisions -> RevisionRow]
      /\ \A q \in Revisions : q # r => revision'[q] = revision[q]
      /\ revision'[r].state = "pending" /\ revision'[r].count = 0
      /\ revision'[r].drain = revision[r].drain
  <2>1. revision' = [revision EXCEPT ![r].cycle = @ + 1, ![r].count = 0,
                                     ![r].state = "pending", ![r].waiting = FALSE]
    BY DEF Retry
  <2>2. revision \in [Revisions -> RevisionRow] /\ revision[r] \in RevisionRow
    BY <1>0, <1>1 DEF TypeOK
  <2> HIDE DEF r
  <2>3. /\ revision'[r] = [revision[r] EXCEPT !.cycle = @ + 1, !.count = 0,
                                              !.state = "pending", !.waiting = FALSE]
        /\ \A q \in Revisions : q # r => revision'[q] = revision[q]
        /\ revision' = [q \in Revisions |-> revision'[q]]
    BY <1>1, <2>1, <2>2
  <2>4. revision[r].cycle + 1 \in Cycles /\ 0 \in 0 .. MaxAttempts + 1
    BY <1>0, <1>1, Fields, Numbers, SMTT(30) DEF Cycles
  <2>5. /\ revision'[r] \in RevisionRow
        /\ revision'[r].state = "pending" /\ revision'[r].count = 0
        /\ revision'[r].drain = revision[r].drain
    BY <2>2, <2>3, <2>4 DEF RevisionRow
  <2>6. \A q \in Revisions : revision'[q] \in RevisionRow
    BY <2>2, <2>3, <2>5
  <2> QED
    BY <2>3, <2>5, <2>6
<1> HIDE DEF r
<1>3. TypeOK'
  <2>1. \A q \in Revisions : revision'[q].count <= MaxAttempts
    BY <1>0, <1>2, Fields, Numbers
  <2> QED
    BY <1>0, <1>1, <1>2, <2>1 DEF TypeOK
<1>4. PointerInv'
  <2>1. Open' \subseteq Open \union {r} /\ r <= pointer.desired
    BY <1>0, <1>1, <1>2, Fields DEF Open, r
  <2> QED
    BY <1>0, <1>1, <2>1 DEF PointerInv
<1>5. LeaseInv'
  BY <1>0, <1>1 DEF LeaseInv
<1>6. BusyInv'
  <2>1. Active' = {}
    BY <1>1 DEF Active
  <2>2. \A q \in Revisions : revision'[q].state # "applying"
    BY <1>0, <1>1, <1>2 DEF BusyInv
  <2> QED
    BY <2>1, <2>2 DEF BusyInv
<1>7. TriedInv'
  <2>1. /\ \A n \in Ordinals : ~(n <= 0)
        /\ 0 < MaxAttempts
    BY Numbers
  <2>2. ASSUME NEW q \in Revisions, q # r PROVE revision'[q] = revision[q]
    BY <1>2, <2>2
  <2> QED
    BY <1>0, <1>1, <1>2, <2>1, <2>2 DEF TriedInv
<1>8. applied > 0 => applied \in Revisions /\ applied # r
  BY <1>0, <1>1, Fields, Numbers DEF GenerationInv
<1>9. GenerationInv'
  BY <1>0, <1>1, <1>2, <1>8 DEF GenerationInv
<1>10. DrainInv'
  BY <1>0, <1>1, <1>2, <1>8 DEF DrainInv, DrainStateAgrees, Draining, Generations
<1> QED
  BY <1>3, <1>4, <1>5, <1>6, <1>7, <1>9, <1>10 DEF LedgerInv

----------------------------------------------------------------------------
(* What a step that only touches leases and the revisions under way keeps *)

\* No applied revision, applied attempt or generation changes.
LEMMA GenerationsKept ==
  ASSUME TypeOK, GenerationInv, DrainInv, applied' = applied,
         UNCHANGED <<registered, generation>>,
         \A g \in LeaseIds : generation[g].state # "none" => row'[g] = row[g],
         \A k \in Rows : attempt[k].state = "applied" =>
           attempt'[k].state = "applied" /\ attempt'[k].lease = attempt[k].lease,
         \A r \in Revisions : revision[r].state = "applied" =>
           /\ revision'[r].state = "applied" /\ revision'[r].drain = revision[r].drain
           /\ revision'[r].generation = revision[r].generation
  PROVE  GenerationInv' /\ DrainInv'
<1>1. applied > 0 => applied \in Revisions
  BY Fields, Numbers
<1>2. GenerationInv'
  BY <1>1 DEF GenerationInv
<1>3. applied > 0 => revision[applied].state = "applied"
  BY DEF GenerationInv
<1>4. DrainInv'
  <2>1. DrainStateAgrees'
    BY <1>1, <1>3 DEF DrainInv, DrainStateAgrees, Draining, Generations
  <2> QED
    BY <2>1 DEF DrainInv, Draining, Generations
<1> QED
  BY <1>2, <1>4

\* No lease moves to another attempt.
LEMMA LeasesKept ==
  ASSUME LeaseInv, UNCHANGED row,
         \A k \in Rows : attempt'[k].state # "none" =>
           attempt[k].state # "none" /\ attempt'[k].lease = attempt[k].lease
  PROVE  LeaseInv'
BY DEF LeaseInv

\* No revision becomes open.
LEMMA PointerKept ==
  ASSUME PointerInv, UNCHANGED pointer,
         \A r \in Revisions : revision'[r].state \in {"pending", "applying"} => r \in Open
  PROVE  PointerInv'
BY DEF PointerInv, Open

----------------------------------------------------------------------------
(* Leasing an attempt *)

\* The sweep of a claim ends every active attempt and every applying revision.
LEMMA ClaimSweeps ==
  ASSUME LedgerInv, ClaimAllowed
  PROVE  /\ \A k \in Rows : AttemptsExpired[k].state \notin {"leased", "started"}
         /\ \A r \in Revisions : RevisionsFenced[r].state # "applying"
         /\ \A r \in Revisions : RevisionsFenced[r].state # "superseded" =>
              RevisionsFenced[r] = revision[r]
<1>0. TypeOK /\ BusyInv
  BY DEF LedgerInv
<1>1. desired \in Nat /\ \A k \in Rows : k[1] \in Nat /\ k[1] \in Revisions
  BY <1>0, Fields, Coordinates, Numbers
<1>2. ASSUME NEW k \in Rows PROVE AttemptsExpired[k].state \notin {"leased", "started"}
  <2>1. SUFFICES ASSUME AttemptsExpired[k].state \in {"leased", "started"} PROVE FALSE
    OBVIOUS
  <2>2. AttemptsExpired[k] = attempt[k] /\ k[1] >= desired
    BY <1>0, <2>1, Swept
  <2>3. k \in Active
    BY <2>1, <2>2 DEF Active
  <2>4. k[1] = desired /\ attempt[k].expired /\ attempt[k].state = "leased"
    BY <1>1, <2>2, <2>3 DEF ClaimAllowed
  <2> QED
    BY <1>0, <2>1, <2>2, <2>3, <2>4, Swept
<1>3. ASSUME NEW r \in Revisions PROVE RevisionsFenced[r].state # "applying"
  <2>1. SUFFICES ASSUME RevisionsFenced[r].state = "applying" PROVE FALSE
    OBVIOUS
  <2>2. revision[r].state = "applying" /\ ~(r \in Open /\ r < desired)
    BY <1>0, <2>1, Fenced
  <2>3. PICK k \in Active : k[1] = r /\ attempt[k].state = "started"
    BY <1>0, <2>2 DEF BusyInv
  <2>4. r <= desired /\ r # desired
    BY <2>3 DEF ClaimAllowed
  <2>5. r < desired /\ r \in Open
    BY <1>1, <2>2, <2>3, <2>4, Numbers DEF Open
  <2> QED
    BY <2>2, <2>5
<1>4. ASSUME NEW r \in Revisions, RevisionsFenced[r].state # "superseded"
      PROVE  RevisionsFenced[r] = revision[r]
  BY <1>0, <1>4, Fenced
<1> QED
  BY <1>2, <1>3, <1>4

\* ClaimLatestAgentRevision, with a lease.
LEMMA ClaimNext == ASSUME LedgerInv, NEW l \in LeaseIds, Claim(l) PROVE LedgerInv'
<1> DEFINE n == NextRow
<1>0. /\ TypeOK /\ PointerInv /\ LeaseInv /\ BusyInv /\ TriedInv /\ GenerationInv
      /\ DrainInv /\ ClaimAllowed /\ Claimable /\ row[l] = None
      /\ AttemptsExpired[n].state \in {"none", "expired_unstarted"}
      /\ UNCHANGED <<registered, pointer, generation>>
  BY DEF LedgerInv, Claim, Reusable
<1>1. /\ desired \in Revisions /\ revision[desired].state = "pending"
      /\ n \in Rows /\ n[1] = desired /\ n[2] = revision[desired].cycle
      /\ n[3] = revision[desired].count + 1
  <2>1. desired \in Revisions /\ revision[desired].state = "pending"
    BY <1>0 DEF Claimable, Known
  <2>2. revision[desired].cycle \in Cycles /\ revision[desired].count + 1 \in Ordinals
    BY <1>0, <2>1, Fields, Numbers
  <2> QED
    BY <2>1, <2>2, Coordinates DEF NextRow
<1>2. /\ attempt' \in [Rows -> AttemptRow]
      /\ attempt'[n].state = "leased" /\ attempt'[n].lease = l
      /\ \A k \in Rows : k # n => attempt'[k] = AttemptsExpired[k]
  <2>1. AttemptsExpired \in [Rows -> AttemptRow]
    <3>1. \A k \in Rows : AttemptsExpired[k] \in AttemptRow
      BY <1>0, Swept
    <3> QED
      BY <3>1 DEF AttemptsExpired
  <2>2. [state |-> "leased", lease |-> l, expired |-> FALSE] \in AttemptRow
    BY DEF AttemptRow
  <2>3. attempt' = [AttemptsExpired EXCEPT ![n] =
                      [state |-> "leased", lease |-> l, expired |-> FALSE]]
    BY DEF Claim
  <2> HIDE DEF n
  <2> QED
    BY <1>1, <2>1, <2>2, <2>3
<1>3. /\ row' \in [LeaseIds -> Rows \union {None}] /\ row'[l] = n
      /\ \A g \in LeaseIds : g # l => row'[g] = row[g]
  <2>1. row' = [row EXCEPT ![l] = n] /\ row \in [LeaseIds -> Rows \union {None}]
    BY <1>0 DEF Claim, TypeOK
  <2> HIDE DEF n
  <2> QED
    BY <1>1, <2>1
<1>4. /\ revision' \in [Revisions -> RevisionRow]
      /\ \A r \in Revisions : revision'[r] = RevisionsFenced[r]
      /\ revision'[desired] = revision[desired]
  <2>1. revision' = RevisionsFenced
    BY DEF Claim
  <2>2. \A r \in Revisions : RevisionsFenced[r] \in RevisionRow
    BY <1>0, Fenced
  <2>3. RevisionsFenced[desired] = revision[desired]
    BY <1>0, <1>1, Fenced, Numbers
  <2> QED
    BY <2>1, <2>2, <2>3 DEF RevisionsFenced
<1> HIDE DEF n
<1>5. Active' = {n}
  BY <1>0, <1>1, <1>2, ClaimSweeps DEF Active, LedgerInv
<1>6. TypeOK'
  <2>1. \A r \in Revisions : revision'[r].count <= MaxAttempts
    BY <1>0, <1>4, Fenced, Fields
  <2> QED
    BY <1>0, <1>2, <1>3, <1>4, <2>1 DEF TypeOK
<1>7. PointerInv'
  <2>1. ASSUME NEW r \in Revisions, revision'[r].state \in {"pending", "applying"}
        PROVE  r \in Open
    BY <1>0, <1>4, <2>1, Fenced DEF Open
  <2> QED
    BY <1>0, <2>1, PointerKept
<1>8. LeaseInv'
  <2>1. ASSUME NEW k \in Rows, k # n, attempt'[k].state # "none"
        PROVE  attempt[k].state # "none" /\ attempt'[k].lease = attempt[k].lease
    BY <1>0, <1>2, <2>1, Swept DEF Active
  <2>2. ASSUME NEW k \in Rows, k # n, attempt'[k].state # "none"
        PROVE  attempt'[k].lease \in LeaseIds /\ row'[attempt'[k].lease] = k
    BY <1>0, <1>3, <2>1, <2>2, NoneAssumption DEF LeaseInv
  <2> QED
    BY <1>2, <1>3, <2>2 DEF LeaseInv
<1>9. BusyInv'
  <2>1. \A r \in Revisions : revision'[r].state # "applying"
    BY <1>0, <1>4, ClaimSweeps DEF LedgerInv
  <2> QED
    BY <1>1, <1>2, <1>4, <1>5, <2>1 DEF BusyInv
<1>10. TriedInv'
  <2>1. ASSUME NEW k \in Rows, attempt[k].state = "failed"
        PROVE  attempt'[k].state = "failed"
    BY <1>0, <1>2, <2>1, Swept DEF Active
  <2>2. ASSUME NEW r \in Revisions,
               revision'[r].state \in {"pending", "applying", "failed"}
        PROVE  revision'[r] = revision[r]
    BY <1>0, <1>4, <2>2, ClaimSweeps DEF LedgerInv
  <2>3. \A r \in Revisions, m \in Ordinals : <<r, revision[r].cycle, m>> \in Rows
    BY <1>0, Fields, Coordinates
  <2> QED
    BY <1>0, <2>1, <2>2, <2>3 DEF TriedInv
<1>11. GenerationInv' /\ DrainInv'
  <2>1. \A g \in LeaseIds : generation[g].state # "none" => row'[g] = row[g]
    BY <1>0, <1>3, NoneAssumption DEF GenerationInv
  <2>2. ASSUME NEW k \in Rows, attempt[k].state = "applied"
        PROVE  attempt'[k].state = "applied" /\ attempt'[k].lease = attempt[k].lease
    BY <1>0, <1>2, <2>2, Swept DEF Active
  <2>3. ASSUME NEW r \in Revisions, revision[r].state = "applied"
        PROVE  revision'[r] = revision[r]
    BY <1>0, <1>4, <2>3, Fenced DEF Open
  <2> QED
    BY <1>0, <2>1, <2>2, <2>3, GenerationsKept
<1> QED
  BY <1>6, <1>7, <1>8, <1>9, <1>10, <1>11 DEF LedgerInv


\* ClaimLatestAgentRevision, with nothing to lease.
LEMMA ClaimNothingNext == ASSUME LedgerInv, ClaimNothing PROVE LedgerInv'
<1>0. /\ TypeOK /\ PointerInv /\ LeaseInv /\ BusyInv /\ TriedInv /\ GenerationInv
      /\ DrainInv /\ ClaimAllowed /\ attempt' = AttemptsExpired
      /\ revision' = RevisionsFenced /\ UNCHANGED <<registered, pointer, row, generation>>
  BY DEF LedgerInv, ClaimNothing
<1>1. Active' = {}
  BY <1>0, ClaimSweeps DEF Active, LedgerInv
<1>2. TypeOK'
  <2>1. attempt' \in [Rows -> AttemptRow]
    <3>1. \A k \in Rows : AttemptsExpired[k] \in AttemptRow
      BY <1>0, Swept
    <3> QED
      BY <1>0, <3>1 DEF AttemptsExpired
  <2>2. revision' \in [Revisions -> RevisionRow]
    <3>1. \A r \in Revisions : RevisionsFenced[r] \in RevisionRow
      BY <1>0, Fenced
    <3> QED
      BY <1>0, <3>1 DEF RevisionsFenced
  <2>3. \A r \in Revisions : revision'[r].count <= MaxAttempts
    BY <1>0, Fenced, Fields
  <2> QED
    BY <1>0, <2>1, <2>2, <2>3 DEF TypeOK
<1>3. PointerInv'
  <2>1. ASSUME NEW r \in Revisions, revision'[r].state \in {"pending", "applying"}
        PROVE  r \in Open
    BY <1>0, <2>1, Fenced DEF Open
  <2> QED
    BY <1>0, <2>1, PointerKept
<1>4. LeaseInv'
  <2>1. ASSUME NEW k \in Rows, attempt'[k].state # "none"
        PROVE  attempt[k].state # "none" /\ attempt'[k].lease = attempt[k].lease
    BY <1>0, <2>1, Swept DEF Active
  <2> QED
    BY <1>0, <2>1, LeasesKept
<1>5. BusyInv'
  <2>1. \A r \in Revisions : revision'[r].state # "applying"
    BY <1>0, ClaimSweeps DEF LedgerInv
  <2> QED
    BY <1>1, <2>1 DEF BusyInv
<1>6. TriedInv'
  <2>1. ASSUME NEW k \in Rows, attempt[k].state = "failed"
        PROVE  attempt'[k].state = "failed"
    BY <1>0, <2>1, Swept DEF Active
  <2>2. ASSUME NEW r \in Revisions,
               revision'[r].state \in {"pending", "applying", "failed"}
        PROVE  revision'[r] = revision[r]
    BY <1>0, <2>2, ClaimSweeps DEF LedgerInv
  <2>3. \A r \in Revisions, m \in Ordinals : <<r, revision[r].cycle, m>> \in Rows
    BY <1>0, Fields, Coordinates
  <2> QED
    BY <1>0, <2>1, <2>2, <2>3 DEF TriedInv
<1>7. GenerationInv' /\ DrainInv'
  <2>1. ASSUME NEW k \in Rows, attempt[k].state = "applied"
        PROVE  attempt'[k].state = "applied" /\ attempt'[k].lease = attempt[k].lease
    BY <1>0, <2>1, Swept DEF Active
  <2>2. ASSUME NEW r \in Revisions, revision[r].state = "applied"
        PROVE  revision'[r] = revision[r]
    BY <1>0, <2>2, Fenced DEF Open
  <2> QED
    BY <1>0, <2>1, <2>2, GenerationsKept
<1> QED
  BY <1>2, <1>3, <1>4, <1>5, <1>6, <1>7 DEF LedgerInv

----------------------------------------------------------------------------
(* The agent's calls *)

\* The attempt a lease still holds.
LEMMA Held ==
  ASSUME LedgerInv, NEW l \in LeaseIds, Holds(l)
  PROVE  /\ row[l] \in Rows /\ row[l][1] \in Revisions
         /\ attempt[row[l]].lease = l
         /\ attempt[row[l]].state \in {"leased", "started"} =>
              /\ Active = {row[l]}
              /\ row[l][2] = revision[row[l][1]].cycle
BY Coordinates DEF LedgerInv, BusyInv, Holds, Active

\* An attempt with its state replaced.
LEMMA AttemptRows ==
  ASSUME TypeOK, NEW k \in Rows,
         NEW s \in {"started", "applied", "failed", "superseded", "expired_unstarted"},
         attempt' = [attempt EXCEPT ![k].state = s]
  PROVE  /\ attempt' \in [Rows -> AttemptRow]
         /\ attempt'[k].state = s /\ attempt'[k].lease = attempt[k].lease
         /\ attempt'[k].expired = attempt[k].expired
         /\ \A j \in Rows : j # k => attempt'[j] = attempt[j]
<1>1. attempt \in [Rows -> AttemptRow] /\ attempt[k] \in AttemptRow
  BY DEF TypeOK
<1>2. [attempt[k] EXCEPT !.state = s] \in AttemptRow
  BY <1>1 DEF AttemptRow
<1>3. /\ attempt'[k] = [attempt[k] EXCEPT !.state = s]
      /\ \A j \in Rows : j # k => attempt'[j] = attempt[j]
      /\ attempt' \in [Rows -> AttemptRow]
  BY <1>1, <1>2
<1> QED
  BY <1>1, <1>3 DEF AttemptRow

\* StartAgentRevisionAttempt, in time.
LEMMA StartNext == ASSUME LedgerInv, NEW l \in LeaseIds, Start(l) PROVE LedgerInv'
<1> DEFINE k == row[l]
           r == k[1]
<1>0. /\ TypeOK /\ PointerInv /\ LeaseInv /\ BusyInv /\ TriedInv /\ GenerationInv
      /\ DrainInv /\ Holds(l)
  BY DEF LedgerInv, Start, Startable
<1>1. /\ k \in Rows /\ r \in Revisions /\ attempt[k].lease = l
      /\ attempt[k].state = "leased" /\ Active = {k}
      /\ k[2] = revision[r].cycle /\ k[3] = revision[r].count + 1
      /\ revision[r].state = "pending"
      /\ UNCHANGED <<registered, pointer, row, generation>>
  BY <1>0, Held DEF Start, Startable
<1>2. /\ attempt' \in [Rows -> AttemptRow]
      /\ attempt'[k].state = "started" /\ attempt'[k].lease = l
      /\ \A j \in Rows : j # k => attempt'[j] = attempt[j]
  <2>1. attempt' = [attempt EXCEPT ![k].state = "started"]
    BY DEF Start
  <2> HIDE DEF k
  <2> QED
    BY <1>0, <1>1, <2>1, AttemptRows
<1>3. k[3] \in Nat /\ k[3] <= MaxAttempts /\ revision[r].count \in Nat
  <2>1. revision[r].count < MaxAttempts
    BY <1>0, <1>1 DEF TriedInv
  <2>2. revision[r].count \in Nat
    BY <1>0, <1>1, Fields
  <2> HIDE DEF r, k
  <2> QED
    BY <1>1, <2>1, <2>2, Numbers
<1>4. /\ revision' \in [Revisions -> RevisionRow]
      /\ \A q \in Revisions : q # r => revision'[q] = revision[q]
      /\ revision'[r].state = "applying" /\ revision'[r].count = k[3]
      /\ revision'[r].generation = l /\ revision'[r].cycle = revision[r].cycle
  <2>1. revision' = [revision EXCEPT ![r].state = "applying", ![r].count = k[3],
                                     ![r].waiting = FALSE, ![r].generation = l]
    BY DEF Start
  <2>2. revision \in [Revisions -> RevisionRow] /\ revision[r] \in RevisionRow
    BY <1>0, <1>1 DEF TypeOK
  <2>3. k[3] \in 0 .. MaxAttempts + 1
    BY <1>3, Numbers
  <2> HIDE DEF k, r
  <2>4. /\ revision'[r] = [revision[r] EXCEPT !.state = "applying", !.count = k[3],
                                              !.waiting = FALSE, !.generation = l]
        /\ \A q \in Revisions : q # r => revision'[q] = revision[q]
        /\ revision' = [q \in Revisions |-> revision'[q]]
    BY <1>1, <2>1, <2>2
  <2>5. /\ revision'[r] \in RevisionRow
        /\ revision'[r].state = "applying" /\ revision'[r].count = k[3]
        /\ revision'[r].generation = l /\ revision'[r].cycle = revision[r].cycle
    BY <2>2, <2>3, <2>4 DEF RevisionRow
  <2>6. \A q \in Revisions : revision'[q] \in RevisionRow
    BY <2>2, <2>4, <2>5
  <2> QED
    BY <2>4, <2>5, <2>6
<1> HIDE DEF r, k
<1>5. Active' = {k}
  BY <1>1, <1>2 DEF Active
<1>6. TypeOK'
  <2>1. \A q \in Revisions : revision'[q].count <= MaxAttempts
    BY <1>0, <1>3, <1>4, Fields
  <2> QED
    BY <1>0, <1>1, <1>2, <1>4, <2>1 DEF TypeOK
<1>7. PointerInv'
  <2>1. ASSUME NEW q \in Revisions, revision'[q].state \in {"pending", "applying"}
        PROVE  q \in Open
    BY <1>1, <1>4, <2>1 DEF Open
  <2> QED
    BY <1>0, <1>1, <2>1, PointerKept
<1>8. LeaseInv'
  <2>1. ASSUME NEW j \in Rows, attempt'[j].state # "none"
        PROVE  attempt[j].state # "none" /\ attempt'[j].lease = attempt[j].lease
    BY <1>1, <1>2, <2>1
  <2> QED
    BY <1>0, <1>1, <2>1, LeasesKept
<1>9. BusyInv'
  <2>1. ASSUME NEW q \in Revisions, revision'[q].state = "applying" PROVE q = r
    BY <1>0, <1>1, <1>4, <2>1 DEF BusyInv
  <2>2. k[1] = r
    BY DEF r
  <2> QED
    BY <1>1, <1>2, <1>4, <1>5, <2>1, <2>2 DEF BusyInv
<1>10. TriedInv'
  <2>1. \A q \in Revisions, m \in Ordinals : <<q, revision[q].cycle, m>> \in Rows
    BY <1>0, Fields, Coordinates
  <2>2. ASSUME NEW j \in Rows, attempt[j].state = "failed" PROVE attempt'[j].state = "failed"
    BY <1>1, <1>2, <2>2
  <2>3. ASSUME NEW m \in Ordinals, m < k[3] PROVE m <= revision[r].count
    BY <1>1, <1>3, <2>3, Numbers
  <2> QED
    BY <1>0, <1>1, <1>4, <2>1, <2>2, <2>3 DEF TriedInv
<1>11. GenerationInv' /\ DrainInv'
  <2>1. ASSUME NEW j \in Rows, attempt[j].state = "applied"
        PROVE  attempt'[j].state = "applied" /\ attempt'[j].lease = attempt[j].lease
    BY <1>1, <1>2, <2>1
  <2>2. ASSUME NEW q \in Revisions, revision[q].state = "applied"
        PROVE  revision'[q] = revision[q]
    BY <1>1, <1>4, <2>2
  <2> QED
    BY <1>0, <1>1, <2>1, <2>2, GenerationsKept
<1> QED
  BY <1>6, <1>7, <1>8, <1>9, <1>10, <1>11 DEF LedgerInv


\* An unstarted lease ends, its revision being superseded or not.
LEMMA LeaseEndsNext ==
  ASSUME LedgerInv, NEW l \in LeaseIds, Holds(l), attempt[row[l]].state = "leased",
         NEW s \in {"superseded", "expired_unstarted"},
         attempt' = [attempt EXCEPT ![row[l]].state = s],
         revision' \in [Revisions -> RevisionRow],
         \A r \in Revisions :
           \/ revision'[r] = revision[r]
           \/ revision'[r].state = "superseded" /\ r \in Open
              /\ revision'[r].count = revision[r].count,
         UNCHANGED <<registered, pointer, row, generation>>
  PROVE  LedgerInv'
<1> DEFINE k == row[l]
<1>0. /\ TypeOK /\ PointerInv /\ LeaseInv /\ BusyInv /\ TriedInv /\ GenerationInv
      /\ DrainInv
  BY DEF LedgerInv
<1>1. /\ k \in Rows /\ attempt[k].state = "leased" /\ Active = {k}
  BY Held
<1>2. /\ attempt' \in [Rows -> AttemptRow]
      /\ attempt'[k].state = s /\ attempt'[k].lease = attempt[k].lease
      /\ \A j \in Rows : j # k => attempt'[j] = attempt[j]
  <2>1. attempt' = [attempt EXCEPT ![k].state = s]
    OBVIOUS
  <2> HIDE DEF k
  <2> QED
    BY <1>0, <1>1, <2>1, AttemptRows
<1> HIDE DEF k
<1>3. Active' = {}
  BY <1>1, <1>2 DEF Active
<1>4. TypeOK'
  <2>1. \A r \in Revisions : revision'[r].count <= MaxAttempts
    BY <1>0, Fields
  <2> QED
    BY <1>0, <1>2, <2>1 DEF TypeOK
<1>5. PointerInv'
  <2>1. ASSUME NEW r \in Revisions, revision'[r].state \in {"pending", "applying"}
        PROVE  r \in Open
    BY <2>1 DEF Open
  <2> QED
    BY <1>0, <2>1, PointerKept
<1>6. LeaseInv'
  <2>1. ASSUME NEW j \in Rows, attempt'[j].state # "none"
        PROVE  attempt[j].state # "none" /\ attempt'[j].lease = attempt[j].lease
    BY <1>1, <1>2, <2>1
  <2> QED
    BY <1>0, <2>1, LeasesKept
<1>7. BusyInv'
  <2>1. ASSUME NEW r \in Revisions, revision'[r].state = "applying" PROVE FALSE
    BY <1>0, <1>1, <2>1 DEF BusyInv
  <2> QED
    BY <1>3, <2>1 DEF BusyInv
<1>8. TriedInv'
  <2>1. \A r \in Revisions, m \in Ordinals : <<r, revision[r].cycle, m>> \in Rows
    BY <1>0, Fields, Coordinates
  <2>2. ASSUME NEW j \in Rows, attempt[j].state = "failed" PROVE attempt'[j].state = "failed"
    BY <1>1, <1>2, <2>2
  <2>3. ASSUME NEW r \in Revisions,
               revision'[r].state \in {"pending", "applying", "failed"}
        PROVE  revision'[r] = revision[r]
    BY <2>3
  <2> QED
    BY <1>0, <2>1, <2>2, <2>3 DEF TriedInv
<1>9. GenerationInv' /\ DrainInv'
  <2>1. ASSUME NEW j \in Rows, attempt[j].state = "applied"
        PROVE  attempt'[j].state = "applied" /\ attempt'[j].lease = attempt[j].lease
    BY <1>1, <1>2, <2>1
  <2>2. ASSUME NEW r \in Revisions, revision[r].state = "applied"
        PROVE  revision'[r] = revision[r]
    BY <2>2 DEF Open
  <2> QED
    BY <1>0, <2>1, <2>2, GenerationsKept
<1> QED
  BY <1>4, <1>5, <1>6, <1>7, <1>8, <1>9 DEF LedgerInv

\* StartAgentRevisionAttempt, too late.
LEMMA StartExpiredNext == ASSUME LedgerInv, NEW l \in LeaseIds, StartExpired(l) PROVE LedgerInv'
<1>1. revision \in [Revisions -> RevisionRow]
  BY DEF LedgerInv, TypeOK
<1> QED
  BY <1>1, LeaseEndsNext DEF StartExpired

\* StartAgentRevisionAttempt, of an overtaken revision.
LEMMA StartSupersededNext ==
  ASSUME LedgerInv, NEW l \in LeaseIds, StartSuperseded(l) PROVE LedgerInv'
<1> DEFINE r == row[l][1]
<1>1. /\ Holds(l) /\ attempt[row[l]].state = "leased"
      /\ attempt' = [attempt EXCEPT ![row[l]].state = "superseded"]
      /\ UNCHANGED <<registered, pointer, row, generation>>
      /\ revision' = [revision EXCEPT ![r] = IF r \in Open THEN Superseded(r) ELSE @]
  BY DEF StartSuperseded, StartOvertaken
<1>2. r \in Revisions /\ revision \in [Revisions -> RevisionRow]
  BY <1>1, Held DEF LedgerInv, TypeOK
<1> HIDE DEF r
<1>3. /\ Superseded(r) \in RevisionRow /\ Superseded(r).state = "superseded"
      /\ Superseded(r).count = revision[r].count
  <2>1. revision[r] \in RevisionRow
    BY <1>2
  <2> QED
    BY <2>1 DEF Superseded, RevisionRow
<1>4. /\ revision' \in [Revisions -> RevisionRow]
      /\ \A q \in Revisions : q # r => revision'[q] = revision[q]
      /\ revision'[r] = IF r \in Open THEN Superseded(r) ELSE revision[r]
  BY <1>1, <1>2, <1>3
<1>5. \A q \in Revisions :
        \/ revision'[q] = revision[q]
        \/ revision'[q].state = "superseded" /\ q \in Open
           /\ revision'[q].count = revision[q].count
  BY <1>3, <1>4
<1> QED
  BY <1>1, <1>4, <1>5, LeaseEndsNext

\* FailAgentRevisionAttempt.
LEMMA FailNext == ASSUME LedgerInv, NEW l \in LeaseIds, Fail(l) PROVE LedgerInv'
<1> DEFINE k == row[l]
           r == k[1]
<1>0. /\ TypeOK /\ PointerInv /\ LeaseInv /\ BusyInv /\ TriedInv /\ GenerationInv
      /\ DrainInv /\ Holds(l)
  BY DEF LedgerInv, Fail, Failable, Reports
<1>1. /\ k \in Rows /\ r \in Revisions /\ attempt[k].lease = l
      /\ attempt[k].state = "started" /\ Active = {k}
      /\ k[2] = revision[r].cycle /\ k[3] = revision[r].count
      /\ revision[r].state = "applying"
      /\ UNCHANGED <<registered, pointer, row, generation>>
  BY <1>0, Held DEF Fail, Failable, Reports
<1>2. /\ attempt' \in [Rows -> AttemptRow]
      /\ attempt'[k].state = "failed" /\ attempt'[k].lease = l
      /\ \A j \in Rows : j # k => attempt'[j] = attempt[j]
  <2>1. attempt' = [attempt EXCEPT ![k].state = "failed"]
    BY DEF Fail
  <2> HIDE DEF k
  <2> QED
    BY <1>0, <1>1, <2>1, AttemptRows
<1>3. /\ revision' \in [Revisions -> RevisionRow]
      /\ \A q \in Revisions : q # r => revision'[q] = revision[q]
      /\ revision'[r] = AfterFailure(r)
  <2>1. revision' = [revision EXCEPT ![r] = AfterFailure(r)]
    BY DEF Fail
  <2>2. revision \in [Revisions -> RevisionRow] /\ AfterFailure(r) \in RevisionRow
    BY <1>0, <1>1, Failed DEF TypeOK
  <2> HIDE DEF r
  <2> QED
    BY <1>1, <2>1, <2>2
<1>4. k = <<r, revision[r].cycle, revision[r].count>>
  BY <1>1, Coordinates
<1> HIDE DEF r, k
<1>5. /\ revision'[r].count = revision[r].count /\ revision'[r].cycle = revision[r].cycle
      /\ revision[r].count \in Nat /\ revision[r].count <= MaxAttempts
      /\ \/ revision'[r].state = "failed" /\ revision[r].count = MaxAttempts
         \/ revision'[r].state = "pending" /\ revision[r].count < MaxAttempts
  BY <1>0, <1>1, <1>3, Failed, Fields, Numbers
<1>6. Active' = {}
  BY <1>1, <1>2 DEF Active
<1>7. TypeOK'
  <2>1. \A q \in Revisions : revision'[q].count <= MaxAttempts
    BY <1>0, <1>3, <1>5, Fields
  <2> QED
    BY <1>0, <1>1, <1>2, <1>3, <2>1 DEF TypeOK
<1>8. PointerInv'
  <2>1. ASSUME NEW q \in Revisions, revision'[q].state \in {"pending", "applying"}
        PROVE  q \in Open
    BY <1>1, <1>3, <2>1 DEF Open
  <2> QED
    BY <1>0, <1>1, <2>1, PointerKept
<1>9. LeaseInv'
  <2>1. ASSUME NEW j \in Rows, attempt'[j].state # "none"
        PROVE  attempt[j].state # "none" /\ attempt'[j].lease = attempt[j].lease
    BY <1>1, <1>2, <2>1
  <2> QED
    BY <1>0, <1>1, <2>1, LeasesKept
<1>10. BusyInv'
  <2>1. ASSUME NEW q \in Revisions, revision'[q].state = "applying" PROVE FALSE
    <3>1. q # r /\ revision[q].state = "applying"
      BY <1>3, <1>5, <2>1
    <3>2. PICK j \in Active : j[1] = q
      BY <1>0, <3>1 DEF BusyInv
    <3>3. j[1] = r
      BY <1>1, <1>4, <3>2
    <3> QED
      BY <3>1, <3>2, <3>3
  <2> QED
    BY <1>6, <2>1 DEF BusyInv
<1>11. TriedInv'
  <2>1. \A q \in Revisions, m \in Ordinals : <<q, revision[q].cycle, m>> \in Rows
    BY <1>0, Fields, Coordinates
  <2>2. ASSUME NEW j \in Rows, attempt[j].state = "failed" PROVE attempt'[j].state = "failed"
    BY <1>1, <1>2, <2>2
  <2>3. ASSUME NEW m \in Ordinals, m <= revision[r].count
        PROVE  attempt'[<<r, revision[r].cycle, m>>].state = "failed"
    <3>1. CASE m = revision[r].count
      BY <1>2, <1>4, <3>1
    <3>2. CASE m # revision[r].count
      <4>1. m < revision[r].count
        BY <1>5, <2>3, <3>2, Numbers
      <4> QED
        BY <1>0, <1>1, <2>1, <2>2, <4>1 DEF TriedInv
    <3> QED
      BY <3>1, <3>2
  <2>4. ASSUME NEW q \in Revisions, q # r PROVE revision'[q] = revision[q]
    BY <1>3, <2>4
  <2> QED
    BY <1>0, <1>1, <1>5, <2>1, <2>2, <2>3, <2>4 DEF TriedInv
<1>12. GenerationInv' /\ DrainInv'
  <2>1. ASSUME NEW j \in Rows, attempt[j].state = "applied"
        PROVE  attempt'[j].state = "applied" /\ attempt'[j].lease = attempt[j].lease
    BY <1>1, <1>2, <2>1
  <2>2. ASSUME NEW q \in Revisions, revision[q].state = "applied"
        PROVE  revision'[q] = revision[q]
    BY <1>1, <1>3, <2>2
  <2> QED
    BY <1>0, <1>1, <2>1, <2>2, GenerationsKept
<1> QED
  BY <1>7, <1>8, <1>9, <1>10, <1>11, <1>12 DEF LedgerInv


\* ApplyAgentRevisionAttempt.
LEMMA ApplyNext == ASSUME LedgerInv, NEW l \in LeaseIds, Apply(l) PROVE LedgerInv'
<1> DEFINE k == row[l]
           r == pointer.desired
           drains == \E g \in LeaseIds : Activated(l)[g].state = "draining"
<1>0. /\ TypeOK /\ PointerInv /\ LeaseInv /\ BusyInv /\ TriedInv /\ GenerationInv
      /\ DrainInv /\ Holds(l)
  BY DEF LedgerInv, Apply, Appliable, Reports
<1>1. /\ k \in Rows /\ r \in Revisions /\ k[1] = r /\ attempt[k].lease = l
      /\ attempt[k].state = "started" /\ Active = {k}
      /\ revision[r].state = "applying" /\ revision[r].generation = l
      /\ applied <= r /\ r > 0 /\ applied \in Nat /\ r \in Nat
      /\ UNCHANGED <<registered, row>>
  <2>1. /\ k[1] = r /\ attempt[k].state = "started" /\ revision[r].state = "applying"
        /\ revision[r].generation = l /\ applied <= r /\ UNCHANGED <<registered, row>>
    BY DEF Apply, Appliable, Reports
  <2>2. k \in Rows /\ k[1] \in Revisions /\ attempt[k].lease = l /\ Active = {k}
    BY <1>0, <2>1, Held
  <2> QED
    BY <1>0, <2>1, <2>2, Fields, Numbers
<1>2. /\ attempt' \in [Rows -> AttemptRow]
      /\ attempt'[k].state = "applied" /\ attempt'[k].lease = l
      /\ \A j \in Rows : j # k => attempt'[j] = attempt[j]
  <2>1. attempt' = [attempt EXCEPT ![k].state = "applied"]
    BY DEF Apply
  <2> HIDE DEF k
  <2> QED
    BY <1>0, <1>1, <2>1, AttemptRows
<1>3. /\ revision' \in [Revisions -> RevisionRow]
      /\ \A q \in Revisions : q # r => revision'[q] = revision[q]
      /\ revision'[r].state = "applied" /\ revision'[r].generation = l
      /\ revision'[r].count = revision[r].count
      /\ revision'[r].drain = IF drains THEN "draining" ELSE "drained"
  <2>1. revision' = [revision EXCEPT ![r].state = "applied", ![r].waiting = FALSE,
                                     ![r].due = FALSE,
                                     ![r].drain = IF drains THEN "draining" ELSE "drained"]
    BY DEF Apply
  <2>2. revision \in [Revisions -> RevisionRow] /\ revision[r] \in RevisionRow
    BY <1>0, <1>1 DEF TypeOK
  <2> HIDE DEF r, drains
  <2>3. /\ revision'[r] = [revision[r] EXCEPT !.state = "applied", !.waiting = FALSE,
                                              !.due = FALSE,
                                              !.drain = IF drains THEN "draining" ELSE "drained"]
        /\ \A q \in Revisions : q # r => revision'[q] = revision[q]
        /\ revision' = [q \in Revisions |-> revision'[q]]
    BY <1>1, <2>1, <2>2
  <2>4. /\ revision'[r] \in RevisionRow
        /\ revision'[r].state = "applied" /\ revision'[r].generation = revision[r].generation
        /\ revision'[r].count = revision[r].count
        /\ revision'[r].drain = IF drains THEN "draining" ELSE "drained"
    BY <2>2, <2>3 DEF RevisionRow
  <2>5. \A q \in Revisions : revision'[q] \in RevisionRow
    BY <2>2, <2>3, <2>4
  <2> QED
    BY <1>1, <2>3, <2>4, <2>5
<1>4. /\ pointer' \in Pointer /\ pointer'.found = pointer.found /\ pointer'.desired = r
      /\ pointer'.applied = r /\ pointer'.lkg = r
  <2>1. pointer.lkg = pointer.applied
    BY <1>0 DEF PointerInv
  <2>2. pointer' = [pointer EXCEPT !.applied = r, !.lkg = IF @ > r THEN @ ELSE r]
    BY DEF Apply
  <2>3. ~(pointer.lkg > r) /\ pointer \in Pointer
    BY <1>0, <1>1, <2>1 DEF TypeOK
  <2>4. pointer' = [pointer EXCEPT !.applied = r, !.lkg = r]
    BY <2>2, <2>3 DEF Pointer
  <2> QED
    BY <2>3, <2>4 DEF Pointer
<1>5. /\ generation' \in [LeaseIds -> GenerationRow]
      /\ generation[l].state = "none" /\ generation'[l].state = "active"
      /\ \A g \in LeaseIds : g # l /\ generation[g].state = "active" =>
           generation'[g].state = "draining"
      /\ \A g \in LeaseIds : g # l /\ generation[g].state # "active" =>
           generation'[g] = generation[g]
      /\ drains <=> Draining' # {}
  <2>1. generation' = Activated(l)
    BY DEF Apply
  <2>2. \A g \in LeaseIds : generation[g] \in GenerationRow
    BY <1>0 DEF TypeOK
  <2>3. 0 \in 0 .. MaxRevision
    BY Numbers
  <2>4. \A g \in LeaseIds :
          /\ generation'[g] =
               CASE g = l -> [state |-> "active", era |-> 0]
                 [] g # l /\ generation[g].state = "active" ->
                      [generation[g] EXCEPT !.state = "draining"]
                 [] OTHER -> generation[g]
    BY <2>1 DEF Activated
  <2>5. ASSUME NEW g \in LeaseIds
        PROVE  /\ generation'[g] \in GenerationRow
               /\ g = l => generation'[g].state = "active"
               /\ g # l /\ generation[g].state = "active" =>
                    generation'[g].state = "draining"
               /\ g # l /\ generation[g].state # "active" => generation'[g] = generation[g]
    <3>1. /\ [state |-> "active", era |-> 0] \in GenerationRow
          /\ [generation[g] EXCEPT !.state = "draining"] \in GenerationRow
          /\ [generation[g] EXCEPT !.state = "draining"].state = "draining"
          /\ [state |-> "active", era |-> 0].state = "active"
      BY <2>2, <2>3 DEF GenerationRow
    <3>2. CASE g = l
      BY <2>4, <3>1, <3>2
    <3>3. CASE g # l /\ generation[g].state = "active"
      BY <2>4, <3>1, <3>3
    <3>4. CASE g # l /\ generation[g].state # "active"
      BY <2>2, <2>4, <3>4
    <3> QED
      BY <3>2, <3>3, <3>4
  <2>6. generation' \in [LeaseIds -> GenerationRow]
    BY <2>1, <2>5 DEF Activated
  <2>7. generation[l].state = "none"
    BY <1>0, <1>1 DEF GenerationInv
  <2>8. drains <=> Draining' # {}
    BY <2>1 DEF Draining, Generations
  <2> QED
    BY <2>5, <2>6, <2>7, <2>8
<1> HIDE DEF k, r, drains
<1>6. Active' = {}
  BY <1>1, <1>2 DEF Active
<1>7. applied # r /\ (applied > 0 => applied \in Revisions)
  BY <1>0, <1>1, Fields, Numbers DEF GenerationInv
<1>8. TypeOK'
  <2>1. \A q \in Revisions : revision'[q].count <= MaxAttempts
    BY <1>0, <1>3, Fields
  <2> QED
    BY <1>0, <1>1, <1>2, <1>3, <1>4, <1>5, <2>1 DEF TypeOK
<1>9. PointerInv'
  <2>1. \A q \in Open' : q \in Open
    BY <1>1, <1>3 DEF Open
  <2>2. \A q \in Open' : q <= r
    BY <1>0, <2>1 DEF PointerInv, r
  <2>3. pointer'.found /\ r <= r
    BY <1>0, <1>1, <1>4 DEF Holds
  <2> QED
    BY <1>4, <2>2, <2>3 DEF PointerInv
<1>10. LeaseInv'
  <2>1. ASSUME NEW j \in Rows, attempt'[j].state # "none"
        PROVE  attempt[j].state # "none" /\ attempt'[j].lease = attempt[j].lease
    BY <1>1, <1>2, <2>1
  <2> QED
    BY <1>0, <1>1, <2>1, LeasesKept
<1>11. BusyInv'
  <2>1. ASSUME NEW q \in Revisions, revision'[q].state = "applying" PROVE FALSE
    <3>1. q # r /\ revision[q].state = "applying"
      BY <1>3, <2>1
    <3>2. PICK j \in Active : j[1] = q
      BY <1>0, <3>1 DEF BusyInv
    <3> QED
      BY <1>1, <3>1, <3>2
  <2> QED
    BY <1>6, <2>1 DEF BusyInv
<1>12. TriedInv'
  <2>1. \A q \in Revisions, m \in Ordinals : <<q, revision[q].cycle, m>> \in Rows
    BY <1>0, Fields, Coordinates
  <2>2. ASSUME NEW j \in Rows, attempt[j].state = "failed" PROVE attempt'[j].state = "failed"
    BY <1>1, <1>2, <2>2
  <2> QED
    BY <1>0, <1>3, <2>1, <2>2 DEF TriedInv
<1>13. GenerationInv'
  <2>1. ASSUME NEW g \in LeaseIds, generation'[g].state # "none"
        PROVE  /\ row[g] \in Rows /\ attempt'[row[g]].state = "applied"
               /\ attempt'[row[g]].lease = g
    <3>1. CASE g = l
      BY <1>1, <1>2, <3>1 DEF k
    <3>2. CASE g # l
      <4>1. generation[g].state # "none"
        BY <1>5, <2>1, <3>2
      <4>2. /\ row[g] \in Rows /\ attempt[row[g]].state = "applied"
            /\ attempt[row[g]].lease = g
        BY <1>0, <4>1 DEF GenerationInv
      <4>3. row[g] # k
        BY <1>1, <4>2
      <4> QED
        BY <1>2, <4>2, <4>3
    <3> QED
      BY <3>1, <3>2
  <2>2. \A g \in LeaseIds : generation'[g].state = "active" <=> g = l
    BY <1>5
  <2>3. row[l][1] = r
    BY <1>1 DEF k
  <2> QED
    BY <1>1, <1>3, <1>4, <2>1, <2>2, <2>3 DEF GenerationInv
<1>14. DrainInv'
  <2>1. ASSUME registered, NEW g \in Draining' PROVE row[g][1] < r
    <3>1. g \in LeaseIds /\ generation'[g].state = "draining" /\ g # l
      BY <1>5 DEF Draining, Generations
    <3>2. CASE generation[g].state = "active"
      <4>1. applied # 0
        BY <1>0, <2>1, <3>1, <3>2 DEF DrainInv
      <4>2. row[g][1] = applied
        BY <1>0, <1>1, <3>1, <3>2, <4>1 DEF GenerationInv
      <4> QED
        BY <1>1, <1>7, <4>2
    <3>3. CASE generation[g].state # "active"
      <4>1. g \in Draining
        BY <1>5, <3>1, <3>3 DEF Draining, Generations
      <4>2. row[g][1] < applied /\ row[g] \in Rows
        BY <1>0, <2>1, <3>1, <4>1 DEF DrainInv, GenerationInv, Draining, Generations
      <4>3. row[g][1] \in Nat
        BY <4>2, Coordinates, Numbers
      <4> QED
        BY <1>1, <4>2, <4>3
    <3> QED
      BY <3>2, <3>3
  <2>2. ASSUME NEW g \in LeaseIds, generation'[g].state \in {"drained", "forced"}
        PROVE  row[g][1] < generation'[g].era
    <3>1. generation'[g] = generation[g]
      BY <1>5, <2>2
    <3> QED
      BY <1>0, <2>2, <3>1 DEF DrainInv
  <2>3. ASSUME revision'[r].drain = "drained", NEW g \in LeaseIds,
               generation'[g].state = "forced"
        PROVE  FALSE
    <3>1. generation[g].state # "none"
      BY <1>5, <2>3
    <3>2. PICK a \in LeaseIds : generation[a].state = "active"
      BY <1>0, <3>1 DEF GenerationInv
    <3>3. a # l /\ generation'[a].state = "draining"
      BY <1>5, <3>2
    <3>4. Draining' # {}
      BY <3>3 DEF Draining, Generations
    <3> QED
      BY <1>3, <1>5, <2>3, <3>4
  <2>4. DrainStateAgrees'
    <3>1. revision'[r].drain = "draining" <=> Draining' # {}
      BY <1>3, <1>5
    <3> QED
      BY <1>4, <2>3, <3>1 DEF DrainStateAgrees, Generations
  <2>5. \A g \in Draining' : registered' => row'[g][1] < pointer'.applied
    BY <1>1, <1>4, <2>1
  <2>6. pointer'.applied # 0
    BY <1>1, <1>4
  <2> QED
    BY <1>1, <2>2, <2>4, <2>5, <2>6 DEF DrainInv
<1> QED
  BY <1>8, <1>9, <1>10, <1>11, <1>12, <1>13, <1>14 DEF LedgerInv


\* The drain of a predecessor ends (CompleteCoordinatorDrain).
LEMMA CompleteDrainNext ==
  ASSUME LedgerInv, NEW l \in LeaseIds, NEW g \in LeaseIds, NEW forced \in BOOLEAN,
         CompleteDrain(l, g, forced)
  PROVE  LedgerInv'
<1> DEFINE s == IF forced \/ revision[applied].due THEN "forced" ELSE "drained"
           d == IF Draining = {g} THEN DrainOutcome(g, s) ELSE revision[applied].drain
<1>0. /\ TypeOK /\ PointerInv /\ LeaseInv /\ BusyInv /\ TriedInv /\ GenerationInv
      /\ DrainInv
  BY DEF LedgerInv
<1>1. /\ g \in Draining /\ generation[g].state = "draining" /\ row[g][1] < applied
      /\ applied \in Revisions /\ applied \in 0 .. MaxRevision /\ applied > 0
      /\ UNCHANGED <<registered, pointer, attempt, row>>
  <2>1. Holds(l) /\ row[l][1] = applied /\ g \in Draining /\ row[g][1] < row[l][1]
        /\ UNCHANGED <<registered, pointer, attempt, row>>
    BY DEF CompleteDrain, Drainable, DrainLease
  <2>2. applied \in Revisions
    BY <2>1, Held
  <2> QED
    BY <2>1, <2>2, Numbers DEF Draining, Generations
<1>2. /\ generation' \in [LeaseIds -> GenerationRow]
      /\ generation'[g].state = s /\ generation'[g].era = applied
      /\ \A q \in LeaseIds : q # g => generation'[q] = generation[q]
  <2>1. generation' = [generation EXCEPT ![g] = Settled(s)]
    BY DEF CompleteDrain
  <2>2. Settled(s) \in GenerationRow /\ Settled(s).state = s /\ Settled(s).era = applied
    BY <1>1 DEF Settled, GenerationRow
  <2> HIDE DEF s
  <2> QED
    BY <1>0, <2>1, <2>2 DEF TypeOK
<1>3. /\ revision' \in [Revisions -> RevisionRow]
      /\ \A q \in Revisions :
           /\ revision'[q].state = revision[q].state
           /\ revision'[q].cycle = revision[q].cycle
           /\ revision'[q].count = revision[q].count
           /\ revision'[q].generation = revision[q].generation
      /\ revision'[applied].drain = d
  <2>1. revision' = [revision EXCEPT ![applied].drain = d]
    BY DEF CompleteDrain
  <2>2. d \in {"none", "draining", "drained", "forced"}
    BY <1>0, <1>1 DEF DrainOutcome, TypeOK, RevisionRow
  <2> HIDE DEF d
  <2>3. [revision[applied] EXCEPT !.drain = d] \in RevisionRow
    BY <1>0, <1>1, <2>2 DEF TypeOK, RevisionRow
  <2>4. /\ revision'[applied] = [revision[applied] EXCEPT !.drain = d]
        /\ \A q \in Revisions : q # applied => revision'[q] = revision[q]
        /\ revision' \in [Revisions -> RevisionRow]
    BY <1>0, <1>1, <2>1, <2>3 DEF TypeOK
  <2>5. /\ revision'[applied].state = revision[applied].state
        /\ revision'[applied].cycle = revision[applied].cycle
        /\ revision'[applied].count = revision[applied].count
        /\ revision'[applied].generation = revision[applied].generation
        /\ revision'[applied].drain = d
    BY <1>0, <1>1, <2>4 DEF TypeOK, RevisionRow
  <2> QED
    BY <2>4, <2>5
<1>4. s \in {"drained", "forced"}
  OBVIOUS
<1> HIDE DEF s
<1>5. TypeOK'
  BY <1>0, <1>1, <1>2, <1>3, Fields DEF TypeOK
<1>6. PointerInv' /\ LeaseInv'
  BY <1>0, <1>1, <1>3 DEF PointerInv, LeaseInv, Open
<1>7. BusyInv'
  BY <1>0, <1>1, <1>3, Coordinates DEF BusyInv, Active
<1>8. TriedInv'
  BY <1>0, <1>1, <1>3 DEF TriedInv
<1>9. GenerationInv'
  <2>1. ASSUME NEW q \in LeaseIds
        PROVE  /\ generation'[q].state = "active" <=> generation[q].state = "active"
               /\ generation'[q].state # "none" => generation[q].state # "none"
    BY <1>1, <1>2, <1>4
  <2> QED
    BY <1>0, <1>1, <1>3, <2>1 DEF GenerationInv
<1>10. DrainInv'
  <2>1. Draining' = Draining \ {g}
    BY <1>1, <1>2, <1>4 DEF Draining, Generations
  <2>2. ASSUME NEW q \in LeaseIds, generation'[q].state \in {"drained", "forced"}
        PROVE  row[q][1] < generation'[q].era
    BY <1>0, <1>1, <1>2, <2>2 DEF DrainInv
  <2>3. ASSUME registered
        PROVE  /\ d = "draining" <=> Draining' # {}
               /\ d = "drained" => \A q \in LeaseIds : generation'[q].state = "forced" =>
                                     generation'[q].era # applied
    <3>1. revision[applied].drain = "draining"
      BY <1>0, <1>1, <2>3 DEF DrainInv, DrainStateAgrees
    <3>2. CASE Draining # {g}
      BY <1>1, <2>1, <3>1, <3>2
    <3>3. CASE Draining = {g}
      <4>1. d = DrainOutcome(g, s) /\ Draining' = {}
        BY <2>1, <3>3
      <4>2. ASSUME d = "drained", NEW q \in LeaseIds, generation'[q].state = "forced"
            PROVE  generation'[q].era # applied
        <5>1. q # g
          BY <1>2, <4>1, <4>2 DEF DrainOutcome
        <5>2. row[q][1] < generation[q].era /\ generation[q].state = "forced"
          BY <1>0, <1>2, <4>2, <5>1 DEF DrainInv
        <5> QED
          BY <1>2, <4>1, <4>2, <5>1, <5>2 DEF DrainOutcome, Generations
      <4>3. d # "draining"
        BY <4>1 DEF DrainOutcome
      <4> QED
        BY <4>1, <4>2, <4>3
    <3> QED
      BY <3>2, <3>3
  <2> HIDE DEF d
  <2>4. DrainStateAgrees'
    BY <1>1, <1>3, <2>3 DEF DrainStateAgrees, Generations
  <2>5. \A q \in Draining' : registered' => row'[q][1] < pointer'.applied
    BY <1>0, <1>1, <2>1 DEF DrainInv
  <2> QED
    BY <1>1, <2>2, <2>4, <2>5 DEF DrainInv
<1> QED
  BY <1>5, <1>6, <1>7, <1>8, <1>9, <1>10 DEF LedgerInv

----------------------------------------------------------------------------
(* Time *)

\* A deadline or a delay passes: no step reads more of it than its flag.
LEMMA FlagsNext ==
  ASSUME LedgerInv, UNCHANGED <<registered, pointer, row, generation>>,
         attempt' \in [Rows -> AttemptRow], revision' \in [Revisions -> RevisionRow],
         \A k \in Rows : /\ attempt'[k].state = attempt[k].state
                         /\ attempt'[k].lease = attempt[k].lease,
         \A r \in Revisions : /\ revision'[r].state = revision[r].state
                              /\ revision'[r].cycle = revision[r].cycle
                              /\ revision'[r].count = revision[r].count
                              /\ revision'[r].generation = revision[r].generation
                              /\ revision'[r].drain = revision[r].drain
  PROVE  LedgerInv'
<1>0. /\ TypeOK /\ PointerInv /\ LeaseInv /\ BusyInv /\ TriedInv /\ GenerationInv
      /\ DrainInv
  BY DEF LedgerInv
<1>1. TypeOK'
  BY <1>0, Fields DEF TypeOK
<1>2. PointerInv' /\ LeaseInv'
  BY <1>0 DEF PointerInv, LeaseInv, Open
<1>3. BusyInv'
  <2>1. Active' = Active /\ Active \subseteq Rows
    BY DEF Active
  <2> QED
    BY <1>0, <2>1, Coordinates DEF BusyInv
<1>4. TriedInv'
  <2>1. \A q \in Revisions, m \in Ordinals : <<q, revision[q].cycle, m>> \in Rows
    BY <1>0, Fields, Coordinates
  <2> QED
    BY <1>0, <2>1 DEF TriedInv
<1>5. GenerationInv' /\ DrainInv'
  BY <1>0, GenerationsKept
<1> QED
  BY <1>1, <1>2, <1>3, <1>4, <1>5 DEF LedgerInv

\* A lease's deadline, a retry delay, a drain deadline.
LEMMA TimeNext == ASSUME LedgerInv, TimePasses PROVE LedgerInv'
<1>0. /\ attempt \in [Rows -> AttemptRow] /\ revision \in [Revisions -> RevisionRow]
  BY DEF LedgerInv, TypeOK
<1>1. ASSUME NEW k \in Rows, LeaseExpires(k) PROVE LedgerInv'
  <2>1. /\ attempt' = [attempt EXCEPT ![k].expired = TRUE]
        /\ UNCHANGED <<registered, pointer, revision, row, generation>>
    BY <1>1 DEF LeaseExpires
  <2>2. attempt[k] \in AttemptRow
    BY <1>0
  <2>3. /\ [attempt[k] EXCEPT !.expired = TRUE] \in AttemptRow
        /\ [attempt[k] EXCEPT !.expired = TRUE].state = attempt[k].state
        /\ [attempt[k] EXCEPT !.expired = TRUE].lease = attempt[k].lease
    BY <2>2 DEF AttemptRow
  <2>4. attempt' \in [Rows -> AttemptRow]
        /\ \A j \in Rows : /\ attempt'[j].state = attempt[j].state
                           /\ attempt'[j].lease = attempt[j].lease
    BY <1>0, <2>1, <2>3
  <2> QED
    BY <1>0, <2>1, <2>4, FlagsNext
<1>2. ASSUME NEW r \in Revisions, NEW v \in RevisionRow,
             revision' = [revision EXCEPT ![r] = v],
             UNCHANGED <<registered, pointer, attempt, row, generation>>,
             /\ v.state = revision[r].state /\ v.cycle = revision[r].cycle
             /\ v.count = revision[r].count /\ v.generation = revision[r].generation
             /\ v.drain = revision[r].drain
      PROVE  LedgerInv'
  <2>1. /\ revision' \in [Revisions -> RevisionRow] /\ revision'[r] = v
        /\ \A q \in Revisions : q # r => revision'[q] = revision[q]
    BY <1>0, <1>2
  <2> QED
    BY <1>0, <1>2, <2>1, FlagsNext
<1>3. ASSUME NEW r \in Revisions, RetryDelayElapses(r) PROVE LedgerInv'
  <2> DEFINE v == [revision[r] EXCEPT !.waiting = FALSE]
  <2>1. /\ revision' = [revision EXCEPT ![r] = v] /\ revision[r] \in RevisionRow
        /\ UNCHANGED <<registered, pointer, attempt, row, generation>>
    BY <1>0, <1>3 DEF RetryDelayElapses
  <2>2. /\ v \in RevisionRow
        /\ v.state = revision[r].state /\ v.cycle = revision[r].cycle
        /\ v.count = revision[r].count /\ v.generation = revision[r].generation
        /\ v.drain = revision[r].drain
    BY <2>1 DEF RevisionRow
  <2> HIDE DEF v
  <2> QED
    BY <1>2, <2>1, <2>2
<1>4. ASSUME DrainDeadlinePasses PROVE LedgerInv'
  <2> DEFINE v == [revision[applied] EXCEPT !.due = TRUE]
  <2>1. /\ revision' = [revision EXCEPT ![applied] = v] /\ applied \in Revisions
        /\ revision[applied] \in RevisionRow
        /\ UNCHANGED <<registered, pointer, attempt, row, generation>>
    BY <1>0, <1>4 DEF DrainDeadlinePasses, Known
  <2>2. /\ v \in RevisionRow
        /\ v.state = revision[applied].state /\ v.cycle = revision[applied].cycle
        /\ v.count = revision[applied].count
        /\ v.generation = revision[applied].generation
        /\ v.drain = revision[applied].drain
    BY <2>1 DEF RevisionRow
  <2> HIDE DEF v
  <2> QED
    BY <1>2, <2>1, <2>2
<1> QED
  BY <1>1, <1>3, <1>4 DEF TimePasses


----------------------------------------------------------------------------
(* The reconciler and the housekeeping *)

\* The orphan repair of the reconciler never has anything to do.
LEMMA NoOrphans == ASSUME LedgerInv, NEW r \in Revisions PROVE ~Orphan(r)
<1>1. SUFFICES ASSUME revision[r].state = "applying"
               PROVE  \E n \in Ordinals :
                        attempt[<<r, revision[r].cycle, n>>].state = "started"
  BY DEF Orphan
<1>2. PICK k \in Active : k[1] = r /\ attempt[k].state = "started"
  BY <1>1 DEF LedgerInv, BusyInv
<1>3. k \in Rows /\ k[2] = revision[r].cycle
  BY <1>2 DEF LedgerInv, BusyInv, Active
<1> QED
  BY <1>2, <1>3, Coordinates

\* ReconcileCoordinatorAgent.
LEMMA ReconcileNext == ASSUME LedgerInv, Reconcile PROVE LedgerInv'
<1>0. /\ TypeOK /\ PointerInv /\ LeaseInv /\ BusyInv /\ TriedInv /\ GenerationInv
      /\ DrainInv
      /\ \A k \in Active : k[1] <= desired
      /\ UNCHANGED <<registered, pointer, row>>
  BY DEF LedgerInv, Reconcile
<1>1. /\ attempt' \in [Rows -> AttemptRow]
      /\ \A k \in TimedOut : /\ attempt'[k].state = "failed"
                             /\ attempt'[k].lease = attempt[k].lease
      /\ \A k \in Rows : k \notin TimedOut => attempt'[k] = AttemptsExpired[k]
  <2>1. attempt' = [k \in Rows |-> IF k \in TimedOut
                                     THEN [attempt[k] EXCEPT !.state = "failed"]
                                     ELSE AttemptsExpired[k]]
    BY DEF Reconcile
  <2>2. ASSUME NEW k \in Rows
        PROVE  /\ attempt[k] \in AttemptRow
               /\ [attempt[k] EXCEPT !.state = "failed"] \in AttemptRow
               /\ [attempt[k] EXCEPT !.state = "failed"].state = "failed"
               /\ [attempt[k] EXCEPT !.state = "failed"].lease = attempt[k].lease
    <3>1. attempt[k] \in AttemptRow
      BY <1>0 DEF TypeOK
    <3> QED
      BY <3>1 DEF AttemptRow
  <2>3. TimedOut \subseteq Rows
    BY DEF TimedOut, Active
  <2>4. \A k \in Rows : AttemptsExpired[k] \in AttemptRow
    BY <1>0, Swept
  <2> QED
    BY <2>1, <2>2, <2>3, <2>4
<1>2. /\ \A k \in TimedOut : /\ k \in Active /\ k \in Rows /\ k[1] = desired
                             /\ attempt[k].state = "started"
      /\ Active \subseteq Rows
  BY DEF TimedOut, Active
<1>3. /\ revision' \in [Revisions -> RevisionRow]
      /\ \A r \in Revisions :
           /\ revision'[r].cycle = revision[r].cycle
           /\ revision'[r].count = revision[r].count
           /\ revision'[r].drain = IF r = applied /\ Overdue # {}
                                     THEN "forced" ELSE revision[r].drain
           /\ revision[r].state = "applied" =>
                revision'[r].state = "applied"
                /\ revision'[r].generation = revision[r].generation
           /\ r # desired \/ TimedOut = {} =>
                \/ revision'[r].state = revision[r].state
                   /\ revision'[r].generation = revision[r].generation
                   /\ ~(r \in Open /\ r < desired)
                \/ revision'[r].state = "superseded" /\ r \in Open /\ r # desired
           /\ r = desired /\ TimedOut # {} =>
                revision'[r].state = AfterFailure(r).state
  <2> DEFINE base(r) == IF r = desired
                          THEN IF TimedOut # {} THEN AfterFailure(r) ELSE revision[r]
                          ELSE RevisionsFenced[r]
  <2>1. \A r \in Revisions : Reconciled(r) = IF TimedOut # {} THEN AfterFailure(r)
                                                              ELSE revision[r]
    BY NoOrphans DEF Reconciled
  <2>2. ASSUME NEW r \in Revisions
        PROVE  /\ base(r) \in RevisionRow
               /\ base(r).cycle = revision[r].cycle /\ base(r).count = revision[r].count
               /\ base(r).drain = revision[r].drain
    BY <1>0, Fenced, Failed DEF TypeOK
  <2>3. ASSUME NEW r \in Revisions, revision[r].state = "applied"
        PROVE  base(r) = revision[r]
    BY <1>0, <2>3, Fenced, Failed DEF Open
  <2>4. Overdue # {} => revision[applied].state = "applied" /\ applied \in Revisions
    BY DEF Overdue, Known
  <2>5. ASSUME NEW r \in Revisions
        PROVE  revision'[r] = IF r = applied /\ Overdue # {}
                                THEN [base(r) EXCEPT !.drain = "forced"] ELSE base(r)
    <3>1. revision'[r] =
            CASE r = desired -> [Reconciled(r) EXCEPT !.drain =
                                   IF r = applied /\ Overdue # {} THEN "forced" ELSE @]
              [] r # desired /\ r = applied /\ Overdue # {} ->
                   [revision[r] EXCEPT !.drain = "forced"]
              [] OTHER -> RevisionsFenced[r]
      BY DEF Reconcile
    <3>2. CASE r = desired
      <4>1. base(r) = Reconciled(r)
        BY <2>1, <3>2
      <4>2. base(r) = [base(r) EXCEPT !.drain = @]
        BY <2>2 DEF RevisionRow
      <4> HIDE DEF base
      <4> QED
        BY <3>1, <3>2, <4>1, <4>2
    <3>3. CASE r # desired /\ r = applied /\ Overdue # {}
      <4>1. base(r) = revision[r]
        BY <2>3, <2>4, <3>3
      <4> HIDE DEF base
      <4> QED
        BY <3>1, <3>3, <4>1
    <3>4. CASE r # desired /\ ~(r = applied /\ Overdue # {})
      BY <3>1, <3>4
    <3> QED
      BY <3>2, <3>3, <3>4
  <2>6. ASSUME NEW r \in Revisions
        PROVE  /\ revision'[r] \in RevisionRow
               /\ revision'[r].state = base(r).state
               /\ revision'[r].generation = base(r).generation
               /\ revision'[r].cycle = revision[r].cycle
               /\ revision'[r].count = revision[r].count
               /\ revision'[r].drain = IF r = applied /\ Overdue # {}
                                         THEN "forced" ELSE revision[r].drain
    <3>1. /\ base(r) \in RevisionRow
          /\ base(r).cycle = revision[r].cycle /\ base(r).count = revision[r].count
          /\ base(r).drain = revision[r].drain
      BY <2>2
    <3>2. revision'[r] = IF r = applied /\ Overdue # {}
                           THEN [base(r) EXCEPT !.drain = "forced"] ELSE base(r)
      BY <2>5
    <3> HIDE DEF base
    <3> QED
      BY <3>1, <3>2 DEF RevisionRow
  <2>7. revision' \in [Revisions -> RevisionRow]
    BY <2>6 DEF Reconcile
  <2>8. ASSUME NEW r \in Revisions, r # desired \/ TimedOut = {}
        PROVE  \/ base(r) = revision[r] /\ ~(r \in Open /\ r < desired)
               \/ base(r).state = "superseded" /\ r \in Open /\ r # desired
    BY <1>0, <2>8, Fenced, Fields, Numbers
  <2>9. ASSUME NEW r \in Revisions, r = desired, TimedOut # {}
        PROVE  base(r) = AfterFailure(r)
    BY <2>9
  <2> HIDE DEF base
  <2> QED
    BY <2>3, <2>6, <2>7, <2>8, <2>9
<1>4. /\ generation' \in [LeaseIds -> GenerationRow]
      /\ \A g \in Overdue : /\ generation[g].state = "draining" /\ row[g][1] < applied
                            /\ generation'[g].state = "forced"
                            /\ generation'[g].era = applied
      /\ \A g \in LeaseIds : g \notin Overdue => generation'[g] = generation[g]
  <2>1. generation' = Forced(Overdue)
    BY DEF Reconcile
  <2>2. /\ Settled("forced") \in GenerationRow /\ Settled("forced").state = "forced"
        /\ Settled("forced").era = applied
    BY <1>0, Fields DEF Settled, GenerationRow
  <2>3. \A g \in Overdue : /\ g \in LeaseIds /\ generation[g].state = "draining"
                           /\ row[g][1] < applied
    BY DEF Overdue, Draining, Generations
  <2> QED
    BY <1>0, <2>1, <2>2, <2>3 DEF Forced, TypeOK
<1>5. \A k \in Rows : /\ attempt'[k].lease = attempt[k].lease
                      /\ k \notin Active => attempt'[k] = attempt[k]
                      /\ attempt'[k].state # "none" => attempt[k].state # "none"
  BY <1>0, <1>1, <1>2, Swept DEF Active
<1>6. ASSUME NEW k \in Active'
      PROVE  /\ k \in Active /\ k[1] = desired /\ attempt'[k] = attempt[k] /\ TimedOut = {}
  <2>1. k \in Rows /\ attempt'[k].state \in {"leased", "started"}
    BY <1>6 DEF Active
  <2>2. k \notin TimedOut /\ attempt'[k] = AttemptsExpired[k]
    BY <1>1, <2>1
  <2>3. attempt'[k] = attempt[k] /\ k[1] >= desired /\ k \in Active
    BY <1>0, <2>1, <2>2, Swept DEF Active
  <2>4. k[1] = desired
    BY <1>0, <2>1, <2>3, Fields, Coordinates, Numbers
  <2>5. TimedOut = {}
    BY <1>0, <1>2, <2>2, <2>3 DEF BusyInv
  <2> QED
    BY <2>3, <2>4, <2>5
<1>7. TypeOK'
  <2>1. \A r \in Revisions : revision'[r].count <= MaxAttempts
    BY <1>0, <1>3, Fields
  <2> QED
    BY <1>0, <1>1, <1>3, <1>4, <2>1 DEF TypeOK
<1>8. PointerInv'
  <2>1. ASSUME NEW r \in Revisions, revision'[r].state \in {"pending", "applying"}
        PROVE  r \in Open
    BY <1>0, <1>3, <2>1, Failed DEF Open
  <2> QED
    BY <1>0, <2>1, PointerKept
<1>9. LeaseInv'
  BY <1>0, <1>5, LeasesKept
<1>10. BusyInv'
  <2>1. \A j, k \in Active' : j = k
    BY <1>0, <1>6 DEF BusyInv
  <2>2. ASSUME NEW k \in Active'
        PROVE  /\ k[2] = revision'[k[1]].cycle
               /\ revision'[k[1]].count = revision[k[1]].count
               /\ attempt'[k] = attempt[k] /\ k \in Active
               /\ revision'[k[1]].state = revision[k[1]].state
               /\ revision'[k[1]].generation = revision[k[1]].generation
    <3>1. k \in Active /\ k[1] = desired /\ attempt'[k] = attempt[k] /\ TimedOut = {}
      BY <1>6
    <3>2. k[1] \in Revisions /\ k[2] = revision[k[1]].cycle
      BY <1>0, <1>2, <3>1, Coordinates DEF BusyInv
    <3> QED
      BY <1>3, <3>1, <3>2
  <2>3. ASSUME NEW r \in Revisions, revision'[r].state = "applying"
        PROVE  \E k \in Active' : k[1] = r /\ attempt'[k].state = "started"
    <3>1. ~(r = desired /\ TimedOut # {})
      BY <1>0, <1>3, <2>3, Failed
    <3>2. revision[r].state = "applying" /\ ~(r \in Open /\ r < desired)
      BY <1>3, <2>3, <3>1
    <3>3. PICK k \in Active : k[1] = r /\ attempt[k].state = "started"
      BY <1>0, <3>2 DEF BusyInv
    <3>4. r = desired
      BY <1>0, <3>2, <3>3, Fields, Numbers DEF Open
    <3>5. k \notin TimedOut
      BY <3>1, <3>4
    <3>6. attempt'[k] = attempt[k]
      BY <1>0, <1>1, <1>2, <3>3, <3>4, <3>5, Swept
    <3> QED
      BY <1>2, <3>3, <3>6 DEF Active
  <2> QED
    BY <1>0, <2>1, <2>2, <2>3 DEF BusyInv
<1>11. TriedInv'
  <2>1. \A r \in Revisions, m \in Ordinals : <<r, revision[r].cycle, m>> \in Rows
    BY <1>0, Fields, Coordinates
  <2>2. ASSUME NEW k \in Rows, attempt[k].state = "failed" PROVE attempt'[k].state = "failed"
    BY <1>5, <2>2 DEF Active
  <2>3. ASSUME NEW r \in Revisions, r # desired \/ TimedOut = {}
        PROVE  \/ revision'[r].state = revision[r].state
               \/ revision'[r].state = "superseded"
    BY <1>3, <2>3
  <2>4. ASSUME NEW r \in Revisions, r = desired, TimedOut # {}
        PROVE  /\ revision'[r].state \in {"pending", "failed"}
               /\ revision'[r].state = "pending" => revision[r].count < MaxAttempts
               /\ revision'[r].state = "failed" => revision[r].count = MaxAttempts
               /\ \A n \in Ordinals : n <= revision[r].count =>
                    attempt'[<<r, revision[r].cycle, n>>].state = "failed"
    <3>1. PICK k \in TimedOut : k[1] = r
      BY <1>2, <2>4
    <3>2. /\ revision[r].state = "applying" /\ k[2] = revision[r].cycle
          /\ k[3] = revision[r].count /\ attempt'[k].state = "failed"
      BY <1>0, <1>1, <1>2, <3>1 DEF BusyInv
    <3>3. k = <<r, revision[r].cycle, revision[r].count>>
      BY <1>2, <3>1, <3>2, Coordinates
    <3>4. revision'[r].state = AfterFailure(r).state
      BY <1>3, <2>4
    <3>5. /\ revision[r].count \in Nat /\ revision[r].count <= MaxAttempts
          /\ MaxAttempts \in Nat
      BY <1>0, Fields, Numbers
    <3>6. ASSUME NEW n \in Ordinals, n <= revision[r].count
          PROVE  attempt'[<<r, revision[r].cycle, n>>].state = "failed"
      <4>1. CASE n = revision[r].count
        BY <3>2, <3>3, <4>1
      <4>2. CASE n # revision[r].count
        <5>1. n < revision[r].count
          BY <3>5, <3>6, <4>2, Numbers
        <5> QED
          BY <1>0, <2>1, <2>2, <3>2, <5>1 DEF TriedInv
      <4> QED
        BY <4>1, <4>2
    <3> QED
      BY <1>0, <3>2, <3>4, <3>5, <3>6, Failed
  <2> QED
    BY <1>0, <1>3, <2>1, <2>2, <2>3, <2>4 DEF TriedInv
<1>12. GenerationInv'
  <2>1. ASSUME NEW g \in LeaseIds
        PROVE  /\ generation'[g].state = "active" <=> generation[g].state = "active"
               /\ generation'[g].state # "none" => generation[g].state # "none"
    BY <1>4
  <2>2. ASSUME NEW k \in Rows, attempt[k].state = "applied" PROVE attempt'[k] = attempt[k]
    BY <1>5, <2>2 DEF Active
  <2>3. applied > 0 => applied \in Revisions
    BY <1>0, Fields, Numbers
  <2> QED
    BY <1>0, <1>3, <2>1, <2>2, <2>3 DEF GenerationInv
<1>13. DrainInv'
  <2>1. Draining' = Draining \ Overdue
    BY <1>4 DEF Draining, Generations
  <2>2. ASSUME NEW g \in LeaseIds, generation'[g].state \in {"drained", "forced"}
        PROVE  row[g][1] < generation'[g].era
    BY <1>0, <1>4, <2>2 DEF DrainInv
  <2>3. ASSUME registered, applied > 0
        PROVE  /\ applied \in Revisions
               /\ revision'[applied].drain = "draining" <=> Draining' # {}
               /\ revision'[applied].drain = "drained" =>
                    \A g \in LeaseIds : generation'[g].state = "forced" =>
                      generation'[g].era # applied
    <3>1. applied \in Revisions
      BY <1>0, <2>3, Fields, Numbers
    <3>2. CASE Overdue = {}
      BY <1>0, <1>3, <1>4, <2>1, <2>3, <3>1, <3>2
         DEF DrainInv, DrainStateAgrees, Generations
    <3>3. CASE Overdue # {}
      <4>1. \A g \in Draining : row[g][1] < applied
        BY <1>0, <2>3 DEF DrainInv
      <4>2. Draining' = {}
        BY <2>1, <3>3, <4>1 DEF Overdue
      <4> QED
        BY <1>3, <3>1, <3>3, <4>2
    <3> QED
      BY <3>2, <3>3
  <2>4. DrainStateAgrees'
    BY <1>0, <2>3 DEF DrainStateAgrees, Generations
  <2>5. \A g \in Draining' : registered' => row'[g][1] < pointer'.applied
    BY <1>0, <2>1 DEF DrainInv
  <2>6. registered /\ applied = 0 => \A g \in LeaseIds : generation'[g].state = "none"
    <3>1. registered /\ applied = 0 => \A g \in LeaseIds : generation[g].state = "none"
      BY <1>0 DEF DrainInv
    <3> QED
      BY <1>4, <3>1
  <2> QED
    BY <1>0, <2>2, <2>4, <2>5, <2>6 DEF DrainInv
<1> QED
  BY <1>7, <1>8, <1>9, <1>10, <1>11, <1>12, <1>13 DEF LedgerInv


\* The agent is deleted (retireCoordinatorAgentTx).
LEMMA RetireNext == ASSUME LedgerInv, Retire PROVE LedgerInv'
<1>0. /\ TypeOK /\ PointerInv /\ LeaseInv /\ BusyInv /\ TriedInv /\ GenerationInv
      /\ DrainInv /\ registered /\ registered' = FALSE /\ pointer' = NoPointer /\ UNCHANGED row
  BY DEF LedgerInv, Retire
<1>1. /\ attempt' \in [Rows -> AttemptRow]
      /\ \A k \in Rows : attempt'[k].lease = attempt[k].lease
      /\ \A k \in Active : attempt'[k].state = "superseded"
      /\ \A k \in Rows : k \notin Active => attempt'[k] = attempt[k]
  <2>1. attempt' = [k \in Rows |-> IF k \in Active
                                     THEN [attempt[k] EXCEPT !.state = "superseded"]
                                     ELSE attempt[k]]
    BY DEF Retire
  <2>2. ASSUME NEW k \in Rows
        PROVE  /\ attempt[k] \in AttemptRow
               /\ [attempt[k] EXCEPT !.state = "superseded"] \in AttemptRow
               /\ [attempt[k] EXCEPT !.state = "superseded"].state = "superseded"
               /\ [attempt[k] EXCEPT !.state = "superseded"].lease = attempt[k].lease
    <3>1. attempt[k] \in AttemptRow
      BY <1>0 DEF TypeOK
    <3> QED
      BY <3>1 DEF AttemptRow
  <2>3. Active \subseteq Rows
    BY DEF Active
  <2> QED
    BY <2>1, <2>2, <2>3
<1>2. /\ revision' \in [Revisions -> RevisionRow]
      /\ \A r \in Revisions :
           /\ revision'[r].cycle = revision[r].cycle
           /\ revision'[r].count = revision[r].count
           /\ r \in Open => revision'[r].state = "superseded"
           /\ r \notin Open => revision'[r].state = revision[r].state
  <2>1. ASSUME NEW r \in Revisions
        PROVE  revision'[r] =
                 CASE r \in Open -> Superseded(r)
                   [] /\ r \notin Open
                      /\ r = applied
                      /\ Draining # {}
                      /\ revision[r].state = "applied" ->
                        [revision[r] EXCEPT !.drain = "forced"]
                   [] OTHER -> revision[r]
    BY DEF Retire
  <2>2. ASSUME NEW r \in Revisions
        PROVE  /\ revision'[r] \in RevisionRow
               /\ revision'[r].cycle = revision[r].cycle
               /\ revision'[r].count = revision[r].count
               /\ r \in Open => revision'[r].state = "superseded"
               /\ r \notin Open => revision'[r].state = revision[r].state
    <3>1. revision[r] \in RevisionRow
      BY <1>0 DEF TypeOK
    <3>2. /\ Superseded(r) \in RevisionRow /\ Superseded(r).cycle = revision[r].cycle
          /\ Superseded(r).count = revision[r].count /\ Superseded(r).state = "superseded"
      BY <3>1 DEF Superseded, RevisionRow
    <3> DEFINE f == [revision[r] EXCEPT !.drain = "forced"]
    <3>3. /\ f \in RevisionRow /\ f.cycle = revision[r].cycle
          /\ f.count = revision[r].count /\ f.state = revision[r].state
      BY <3>1 DEF RevisionRow
    <3>4. \/ r \in Open /\ revision'[r] = Superseded(r)
          \/ r \notin Open /\ revision'[r] \in {f, revision[r]}
      BY <2>1
    <3> HIDE DEF f
    <3> QED
      BY <3>1, <3>2, <3>3, <3>4
  <2>3. revision' = [r \in Revisions |-> revision'[r]]
    BY DEF Retire
  <2> QED
    BY <2>2, <2>3
<1>3. /\ generation' \in [LeaseIds -> GenerationRow]
      /\ \A g \in Draining : /\ g \in LeaseIds /\ generation[g].state = "draining"
                             /\ generation'[g].state = "forced"
                             /\ generation'[g].era = applied
      /\ \A g \in LeaseIds : g \notin Draining => generation'[g] = generation[g]
  <2>1. generation' = Forced(Draining)
    BY DEF Retire
  <2>2. /\ Settled("forced") \in GenerationRow /\ Settled("forced").state = "forced"
        /\ Settled("forced").era = applied
    BY <1>0, Fields DEF Settled, GenerationRow
  <2>3. \A g \in Draining : g \in LeaseIds /\ generation[g].state = "draining"
    BY DEF Draining, Generations
  <2> QED
    BY <1>0, <2>1, <2>2, <2>3 DEF Forced, TypeOK
<1>4. /\ pointer' \in Pointer /\ pointer'.found = FALSE /\ pointer'.desired = 0
      /\ pointer'.applied = 0 /\ pointer'.lkg = 0
  <2>1. 0 \in 0 .. MaxRevision
    BY Numbers
  <2> QED
    BY <1>0, <2>1 DEF NoPointer, Pointer
<1>5. TypeOK'
  <2>1. \A r \in Revisions : revision'[r].count <= MaxAttempts
    BY <1>0, <1>2, Fields
  <2>2. registered' \in BOOLEAN
    BY <1>0
  <2> QED
    BY <1>0, <1>1, <1>2, <1>3, <1>4, <2>1, <2>2 DEF TypeOK
<1>6. \A r \in Revisions : revision'[r].state \notin {"pending", "applying"}
  BY <1>2 DEF Open
<1>7. Active' = {}
  BY <1>1 DEF Active
<1>8. PointerInv'
  <2>1. Open' = {}
    BY <1>6 DEF Open
  <2> QED
    BY <1>0, <1>4, <2>1 DEF PointerInv
<1>9. LeaseInv'
  <2>1. ASSUME NEW k \in Rows, attempt'[k].state # "none"
        PROVE  attempt[k].state # "none" /\ attempt'[k].lease = attempt[k].lease
    BY <1>1, <2>1 DEF Active
  <2> QED
    BY <1>0, <2>1, LeasesKept
<1>10. BusyInv'
  BY <1>6, <1>7 DEF BusyInv
<1>11. TriedInv'
  <2>1. \A r \in Revisions, m \in Ordinals : <<r, revision[r].cycle, m>> \in Rows
    BY <1>0, Fields, Coordinates
  <2>2. ASSUME NEW k \in Rows, attempt[k].state = "failed" PROVE attempt'[k].state = "failed"
    BY <1>1, <2>2 DEF Active
  <2>3. ASSUME NEW r \in Revisions, revision'[r].state \in {"pending", "applying", "failed"}
        PROVE  revision[r].state = "failed" /\ revision'[r].state = "failed"
    BY <1>2, <2>3 DEF Open
  <2> QED
    BY <1>0, <1>2, <2>1, <2>2, <2>3 DEF TriedInv
<1>12. GenerationInv'
  <2>1. ASSUME NEW g \in LeaseIds
        PROVE  /\ generation'[g].state = "active" <=> generation[g].state = "active"
               /\ generation'[g].state # "none" => generation[g].state # "none"
    BY <1>3
  <2>2. ASSUME NEW k \in Rows, attempt[k].state = "applied" PROVE attempt'[k] = attempt[k]
    BY <1>1, <2>2 DEF Active
  <2> QED
    BY <1>0, <1>4, <2>1, <2>2 DEF GenerationInv
<1>13. DrainInv'
  <2>1. ASSUME NEW g \in LeaseIds, generation'[g].state \in {"drained", "forced"}
        PROVE  row[g][1] < generation'[g].era
    BY <1>0, <1>3, <2>1 DEF DrainInv
  <2> QED
    BY <1>0, <2>1 DEF DrainInv, DrainStateAgrees
<1> QED
  BY <1>5, <1>8, <1>9, <1>10, <1>11, <1>12, <1>13 DEF LedgerInv

\* Old history is removed (PruneRevisionHistory).
LEMMA PruneNext == ASSUME LedgerInv, NEW r \in Revisions, Prune(r) PROVE LedgerInv'
<1> DEFINE gone == {q \in Known : q < r} \ Protected
<1>0. /\ TypeOK /\ PointerInv /\ LeaseInv /\ BusyInv /\ TriedInv /\ GenerationInv
      /\ DrainInv /\ UNCHANGED <<registered, pointer, row>>
  BY DEF LedgerInv, Prune
<1>1. /\ revision' = [q \in Revisions |-> IF q \in gone THEN NoRevision ELSE revision[q]]
      /\ attempt' = [k \in Rows |-> IF k[1] \in gone THEN NoAttempt ELSE attempt[k]]
      /\ generation' = [l \in LeaseIds |->
              IF generation[l].state # "none" /\ row[l][1] \in gone
                THEN NoGeneration ELSE generation[l]]
  BY DEF Prune
<1>2. /\ gone \subseteq Revisions /\ applied \notin gone
      /\ \A l \in LeaseIds : generation[l].state \in {"active", "draining"} =>
           row[l][1] \notin gone
  BY DEF Protected, Known, Draining, Generations
<1> HIDE DEF gone
<1>3. /\ NoRevision \in RevisionRow /\ NoRevision.state = "none" /\ NoRevision.count = 0
  BY RevisionRows DEF NoRevision
<1>4. /\ NoAttempt \in AttemptRow /\ NoAttempt.state = "none"
      /\ NoGeneration \in GenerationRow /\ NoGeneration.state = "none"
  BY Numbers DEF NoAttempt, AttemptRow, NoGeneration, GenerationRow
<1>5. /\ revision' \in [Revisions -> RevisionRow]
      /\ \A q \in gone : revision'[q].state = "none" /\ revision'[q].count = 0
      /\ \A q \in Revisions : q \notin gone => revision'[q] = revision[q]
  BY <1>0, <1>1, <1>2, <1>3 DEF TypeOK
<1>6. /\ attempt' \in [Rows -> AttemptRow]
      /\ \A k \in Rows : IF k[1] \in gone THEN attempt'[k].state = "none"
                                          ELSE attempt'[k] = attempt[k]
  BY <1>0, <1>1, <1>4 DEF TypeOK
<1>7. /\ generation' \in [LeaseIds -> GenerationRow]
      /\ \A l \in LeaseIds :
           IF generation[l].state # "none" /\ row[l][1] \in gone
             THEN generation'[l].state = "none" ELSE generation'[l] = generation[l]
  BY <1>0, <1>1, <1>4 DEF TypeOK
<1>8. TypeOK'
  <2>1. \A q \in Revisions : revision'[q].count <= MaxAttempts
    BY <1>0, <1>5, Fields, Numbers
  <2> QED
    BY <1>0, <1>5, <1>6, <1>7, <2>1 DEF TypeOK
<1>9. PointerInv'
  <2>1. ASSUME NEW q \in Revisions, revision'[q].state \in {"pending", "applying"}
        PROVE  q \in Open
    BY <1>5, <2>1 DEF Open
  <2> QED
    BY <1>0, <2>1, PointerKept
<1>10. LeaseInv'
  <2>1. ASSUME NEW k \in Rows, attempt'[k].state # "none"
        PROVE  attempt[k].state # "none" /\ attempt'[k].lease = attempt[k].lease
    BY <1>6, <2>1
  <2> QED
    BY <1>0, <2>1, LeasesKept
<1>11. BusyInv'
  <2>1. ASSUME NEW k \in Active'
        PROVE  /\ k \in Active /\ k[1] \notin gone /\ attempt'[k] = attempt[k]
               /\ k[1] \in Revisions /\ revision'[k[1]] = revision[k[1]]
    <3>1. k \in Rows /\ attempt'[k].state \in {"leased", "started"}
      BY <2>1 DEF Active
    <3>2. k[1] \notin gone
      BY <1>6, <3>1
    <3> QED
      BY <1>5, <1>6, <3>1, <3>2, Coordinates DEF Active
  <2>2. ASSUME NEW q \in Revisions, revision'[q].state = "applying"
        PROVE  \E k \in Active' : k[1] = q /\ attempt'[k].state = "started"
    <3>1. q \notin gone /\ revision[q].state = "applying"
      BY <1>5, <2>2
    <3>2. PICK k \in Active : k[1] = q /\ attempt[k].state = "started"
      BY <1>0, <3>1 DEF BusyInv
    <3> QED
      BY <1>6, <3>1, <3>2 DEF Active
  <2> QED
    BY <1>0, <2>1, <2>2 DEF BusyInv
<1>12. TriedInv'
  <2>1. ASSUME NEW q \in Revisions, revision'[q].state \in {"pending", "applying", "failed"}
        PROVE  /\ revision'[q] = revision[q]
               /\ \A n \in Ordinals : attempt'[<<q, revision[q].cycle, n>>]
                                        = attempt[<<q, revision[q].cycle, n>>]
    <3>1. q \notin gone
      BY <1>5, <2>1
    <3>2. \A n \in Ordinals : /\ <<q, revision[q].cycle, n>> \in Rows
                              /\ <<q, revision[q].cycle, n>>[1] = q
      BY <1>0, Fields, Coordinates
    <3> QED
      BY <1>5, <1>6, <3>1, <3>2
  <2> QED
    BY <1>0, <2>1 DEF TriedInv
<1>13. GenerationInv'
  <2>1. ASSUME NEW l \in LeaseIds, generation'[l].state # "none"
        PROVE  /\ row[l] \in Rows /\ attempt'[row[l]].state = "applied"
               /\ attempt'[row[l]].lease = l
               /\ \E g \in LeaseIds : generation[g].state = "active"
    <3>1. generation[l].state # "none" /\ row[l][1] \notin gone
      BY <1>7, <2>1
    <3> QED
      BY <1>0, <1>6, <3>1 DEF GenerationInv
  <2>2. ASSUME NEW l \in LeaseIds
        PROVE  generation'[l].state = "active" <=> generation[l].state = "active"
    BY <1>2, <1>7
  <2>3. applied > 0 => applied \in Revisions /\ revision'[applied] = revision[applied]
    BY <1>0, <1>2, <1>5, Fields, Numbers
  <2> QED
    BY <1>0, <2>1, <2>2, <2>3 DEF GenerationInv
<1>14. DrainInv'
  <2>1. Draining' = Draining
    BY <1>2, <1>7 DEF Draining, Generations
  <2>2. ASSUME NEW l \in LeaseIds, generation'[l].state # "none"
        PROVE  generation'[l] = generation[l]
    BY <1>7, <2>2
  <2>3. applied > 0 => applied \in Revisions /\ revision'[applied] = revision[applied]
    BY <1>0, <1>2, <1>5, Fields, Numbers
  <2>4. DrainStateAgrees'
    BY <1>0, <2>1, <2>2, <2>3 DEF DrainInv, DrainStateAgrees, Generations
  <2>5. \A g \in Draining' : registered' => row'[g][1] < pointer'.applied
    BY <1>0, <2>1 DEF DrainInv
  <2>6. registered /\ applied = 0 => \A l \in LeaseIds : generation'[l].state = "none"
    BY <1>0, <2>2 DEF DrainInv
  <2> QED
    BY <1>0, <2>2, <2>4, <2>5, <2>6 DEF DrainInv
<1> QED
  BY <1>8, <1>9, <1>10, <1>11, <1>12, <1>13, <1>14 DEF LedgerInv


----------------------------------------------------------------------------
(* The ledger *)

\* The empty ledger.
LEMMA LedgerInit == ASSUME Init PROVE LedgerInv
<1>1. /\ pointer = NoPointer /\ registered = TRUE
      /\ revision \in [Revisions -> RevisionRow]
      /\ \A r \in Revisions : revision[r].state = "none" /\ revision[r].count = 0
      /\ attempt \in [Rows -> AttemptRow] /\ \A k \in Rows : attempt[k].state = "none"
      /\ row \in [LeaseIds -> Rows \union {None}]
      /\ generation \in [LeaseIds -> GenerationRow]
      /\ \A l \in LeaseIds : generation[l].state = "none"
  <2>1. NoRevision \in RevisionRow /\ NoRevision.state = "none" /\ NoRevision.count = 0
    BY RevisionRows DEF NoRevision
  <2>2. /\ NoAttempt \in AttemptRow /\ NoAttempt.state = "none"
        /\ NoGeneration \in GenerationRow /\ NoGeneration.state = "none"
    BY Numbers DEF NoAttempt, AttemptRow, NoGeneration, GenerationRow
  <2> QED
    BY <2>1, <2>2 DEF Init
<1>2. /\ NoPointer \in Pointer /\ ~NoPointer.found /\ NoPointer.applied = 0
      /\ NoPointer.desired = 0 /\ NoPointer.lkg = 0 /\ NoPointer \in Pointer
  BY Numbers DEF NoPointer, Pointer
<1>3. TypeOK
  BY <1>1, <1>2, Numbers DEF TypeOK
<1>4. Active = {} /\ Open = {} /\ Draining = {}
  BY <1>1 DEF Active, Open, Draining, Generations
<1>5. PointerInv /\ LeaseInv /\ BusyInv /\ TriedInv
  BY <1>1, <1>2, <1>4 DEF PointerInv, LeaseInv, BusyInv, TriedInv
<1>6. GenerationInv /\ DrainInv
  BY <1>1, <1>2, <1>4 DEF GenerationInv, DrainInv, DrainStateAgrees
<1> QED
  BY <1>3, <1>5, <1>6 DEF LedgerInv

\* No step of the store, of the agent or of the clock breaks the ledger's
\* invariant.
LEMMA LedgerNext == ASSUME LedgerInv, [Next]_vars PROVE LedgerInv'
<1>1. CASE UNCHANGED vars
  <2>1. UNCHANGED <<registered, pointer, revision, attempt, row, generation>>
    BY <1>1 DEF vars
  <2>2. TypeOK' /\ PointerInv' /\ LeaseInv' /\ BusyInv' /\ TriedInv'
    BY <2>1 DEF LedgerInv, TypeOK, PointerInv, LeaseInv, BusyInv, TriedInv, Active, Open
  <2>3. GenerationInv' /\ DrainInv'
    BY <2>1 DEF LedgerInv, GenerationInv, DrainInv, DrainStateAgrees, Draining, Generations
  <2> QED
    BY <2>2, <2>3 DEF LedgerInv
<1>2. ASSUME NEW r \in Revisions,
             \/ Publish(r) \/ HeartbeatIssues(r) \/ Rollback(r) \/ RepairRuntime(r)
      PROVE  LedgerInv'
  BY <1>2, IssueNext DEF Publish, HeartbeatIssues, Rollback, RepairRuntime, Copy
<1>3. ASSUME NEW r \in Revisions, HeartbeatRepeats(r) \/ Prune(r) PROVE LedgerInv'
  BY <1>3, HeartbeatNext, PruneNext
<1>4. ASSUME NEW l \in LeaseIds,
             \/ Claim(l) \/ Start(l) \/ StartExpired(l)
             \/ StartSuperseded(l) \/ Fail(l) \/ Apply(l)
      PROVE  LedgerInv'
  BY <1>4, ClaimNext, StartNext, StartExpiredNext, StartSupersededNext, FailNext, ApplyNext
<1>5. ASSUME NEW l \in LeaseIds, NEW g \in LeaseIds, NEW forced \in BOOLEAN,
             CompleteDrain(l, g, forced)
      PROVE  LedgerInv'
  BY <1>5, CompleteDrainNext
<1>6. ASSUME Retry \/ ClaimNothing \/ Reconcile \/ Retire \/ TimePasses PROVE LedgerInv'
  BY <1>6, RetryNext, ClaimNothingNext, ReconcileNext, RetireNext, TimeNext
<1> QED
  BY <1>1, <1>2, <1>3, <1>4, <1>5, <1>6 DEF Next

\* The invariant of the ledger, whatever the calls, their order and their delay.
THEOREM LedgerInvariance == Spec => []LedgerInv
<1>1. Init => LedgerInv
  BY LedgerInit
<1>2. LedgerInv /\ [Next]_vars => LedgerInv'
  BY LedgerNext
<1> QED
  BY <1>1, <1>2, PTL DEF Spec

\* An agent never has two active attempts, and a started attempt and an applying
\* revision come together (ClaimLatestAgentRevision,
\* reconcileOrphanApplyingRevisionTx).
THEOREM LeaseSafety == Spec => []OneLease
<1>1. ASSUME LedgerInv PROVE OneLease
  <2>1. Cardinality(Active) <= 1
    <3>1. CASE Active = {}
      BY <3>1, FS_EmptySet
    <3>2. CASE Active # {}
      <4>1. PICK k \in Active : TRUE
        BY <3>2
      <4>2. Active = {k}
        BY <1>1, <4>1 DEF LedgerInv, BusyInv
      <4>3. Cardinality(Active) = 1
        BY <4>2, FS_Singleton
      <4> QED
        BY <4>3
    <3> QED
      BY <3>1, <3>2
  <2>2. ASSUME NEW k \in Active
        PROVE  /\ k[1] <= desired
               /\ IF attempt[k].state = "started"
                    THEN /\ revision[k[1]].state = "applying"
                         /\ revision[k[1]].generation = attempt[k].lease
                    ELSE revision[k[1]].state = "pending"
    <3>1. /\ k[1] \in Revisions /\ attempt[k].state \in {"leased", "started"}
      BY Coordinates DEF Active
    <3>2. IF attempt[k].state = "started"
            THEN /\ revision[k[1]].state = "applying"
                 /\ revision[k[1]].generation = attempt[k].lease
            ELSE revision[k[1]].state = "pending"
      BY <1>1, <3>1 DEF LedgerInv, BusyInv
    <3>3. k[1] \in Open
      BY <3>1, <3>2 DEF Open
    <3> QED
      BY <1>1, <3>2, <3>3 DEF LedgerInv, PointerInv
  <2>3. \A r \in Revisions : ~Orphan(r)
    BY <1>1, NoOrphans
  <2> QED
    BY <2>1, <2>2, <2>3 DEF OneLease
<1> QED
  BY <1>1, LedgerInvariance, PTL

\* What the pointer calls applied is the last known good revision, has not been
\* pruned, and is served by the agent's one active generation
\* (ApplyAgentRevisionAttempt, PruneRevisionHistory).
THEOREM AppliedSafety == Spec => []AppliedIsServed
<1>1. ASSUME LedgerInv PROVE AppliedIsServed
  <2>1. applied > 0 => Generations("active") = {revision[applied].generation}
    BY <1>1 DEF LedgerInv, GenerationInv, Generations
  <2> QED
    BY <1>1, <2>1 DEF LedgerInv, PointerInv, GenerationInv, AppliedIsServed
<1> QED
  BY <1>1, LedgerInvariance, PTL

\* The drain state the panel shows for the applied revision agrees with the
\* generations it replaced (CompleteCoordinatorDrain,
\* forceExpiredCoordinatorDrainsTx).
THEOREM DrainSafety == Spec => []DrainStateAgrees
<1>1. LedgerInv => DrainStateAgrees
  BY DEF LedgerInv, DrainInv
<1> QED
  BY <1>1, LedgerInvariance, PTL

\* A revision is given up only when the attempts of its cycle are exhausted, and
\* every one of them was started and failed (failStartedCoordinatorAttemptTx).
THEOREM FailureSafety == Spec => []OnlyExhaustedFails
<1>1. ASSUME LedgerInv PROVE OnlyExhaustedFails
  <2>1. 1 .. MaxAttempts \subseteq Ordinals
        /\ \A n \in 1 .. MaxAttempts : n <= MaxAttempts
    BY Numbers
  <2> QED
    BY <1>1, <2>1 DEF LedgerInv, TriedInv, OnlyExhaustedFails
<1> QED
  BY <1>1, LedgerInvariance, PTL

\* A generation row is only ever that of the lease an applied attempt still
\* carries (activateCoordinatorGenerationTx).
THEOREM GenerationSafety == Spec => []GenerationsHaveAppliedLeases
<1>1. LedgerInv => GenerationsHaveAppliedLeases
  BY DEF LedgerInv, GenerationInv, GenerationsHaveAppliedLeases
<1> QED
  BY <1>1, LedgerInvariance, PTL


----------------------------------------------------------------------------
(* What has been decided *)

\* The three parts of OutcomesStick for one step.
RevisionsStick ==
  \A r \in Revisions :
    LET old == revision[r].state  new == revision'[r].state
    IN  /\ old \in {"applied", "superseded"} => new \in {old, "none"}
        /\ old = "failed" /\ new \notin {old, "none"} =>
             /\ new = "pending"
             /\ revision'[r].cycle = revision[r].cycle + 1

GenerationsStick ==
  \A l \in LeaseIds : generation[l].state \in {"drained", "forced"} =>
    generation'[l].state \in {generation[l].state, "none"}

PointerSticks ==
  pointer.found /\ pointer'.found =>
    /\ desired <= pointer'.desired
    /\ applied <= pointer'.applied

\* A revision whose state changes was open, or new, or is pruned.
LEMMA OpenChange ==
  ASSUME \A r \in Revisions : \/ revision'[r].state = revision[r].state
                              \/ revision[r].state \in {"none", "pending", "applying"}
                              \/ revision'[r].state = "none"
  PROVE  RevisionsStick
BY DEF RevisionsStick

\* Nothing is decided anew while the pointer and the generations stand.
LEMMA StandStill ==
  ASSUME TypeOK, UNCHANGED <<pointer, generation>> PROVE GenerationsStick /\ PointerSticks
BY Fields DEF GenerationsStick, PointerSticks

\* New desired revisions and retries.
LEMMA PanelSticks ==
  ASSUME LedgerInv
  PROVE  /\ \A r \in Revisions :
              \/ Fresh(r) /\ Issue(r) /\ UNCHANGED generation
              \/ HeartbeatRepeats(r)
              => RevisionsStick /\ GenerationsStick /\ PointerSticks
         /\ Retry => RevisionsStick /\ GenerationsStick /\ PointerSticks
<1>0. /\ revision \in [Revisions -> RevisionRow] /\ pointer \in Pointer
      /\ desired \in Nat /\ applied \in Nat /\ TypeOK
  BY Fields, Numbers DEF LedgerInv, TypeOK
<1>1. ASSUME NEW r \in Revisions, Fresh(r), Issue(r), UNCHANGED generation
      PROVE  RevisionsStick /\ GenerationsStick /\ PointerSticks
  <2>1. revision[r].state = "none"
    BY <1>1, Numbers DEF Fresh, Known
  <2>2. \A q \in Revisions : q # r => revision'[q] = revision[q]
    BY <1>0, <1>1 DEF Issue
  <2>3. pointer'.desired = r /\ pointer'.applied = applied /\ desired <= r
    BY <1>0, <1>1, Numbers DEF Issue, Fresh, Pointer
  <2>4. PointerSticks
    BY <1>0, <2>3 DEF PointerSticks
  <2>5. GenerationsStick
    BY <1>1 DEF GenerationsStick
  <2> QED
    BY <2>1, <2>2, <2>4, <2>5, OpenChange
<1>2. ASSUME NEW r \in Revisions, HeartbeatRepeats(r)
      PROVE  RevisionsStick /\ GenerationsStick /\ PointerSticks
  <2>1. pointer'.desired = r /\ pointer'.applied = applied /\ desired <= r
    BY <1>0, <1>2 DEF HeartbeatRepeats, Pointer
  <2>2. PointerSticks
    BY <1>0, <2>1 DEF PointerSticks
  <2> QED
    BY <1>2, <2>2, OpenChange DEF HeartbeatRepeats, GenerationsStick
<1>3. ASSUME Retry PROVE RevisionsStick /\ GenerationsStick /\ PointerSticks
  <2> DEFINE r == pointer.desired
             v == [revision[r] EXCEPT !.cycle = @ + 1, !.count = 0,
                                      !.state = "pending", !.waiting = FALSE]
  <2>1. /\ r \in Revisions /\ revision[r].state = "failed"
        /\ revision' = [revision EXCEPT ![r].cycle = @ + 1, ![r].count = 0,
                                        ![r].state = "pending", ![r].waiting = FALSE]
        /\ UNCHANGED <<pointer, generation>>
    BY <1>3 DEF Retry, Known
  <2> HIDE DEF r
  <2>2. revision'[r] = v /\ \A q \in Revisions : q # r => revision'[q] = revision[q]
    BY <1>0, <2>1
  <2>3. v.state = "pending" /\ v.cycle = revision[r].cycle + 1
    BY <1>0, <2>1 DEF RevisionRow
  <2> HIDE DEF v
  <2>4. RevisionsStick
    BY <2>1, <2>2, <2>3 DEF RevisionsStick
  <2> QED
    BY <1>0, <2>1, <2>4, StandStill
<1> QED
  BY <1>1, <1>2, <1>3

\* Leases, starts and failures.
LEMMA AgentSticks ==
  ASSUME LedgerInv, NEW l \in LeaseIds,
         \/ Claim(l) \/ Start(l) \/ StartExpired(l) \/ StartSuperseded(l) \/ Fail(l)
  PROVE  RevisionsStick /\ GenerationsStick /\ PointerSticks
<1>0. TypeOK /\ revision \in [Revisions -> RevisionRow]
  BY DEF LedgerInv, TypeOK
<1>1. UNCHANGED <<pointer, generation>>
  BY DEF Claim, Start, StartExpired, StartSuperseded, Fail
<1>2. CASE Claim(l)
  <2>1. revision' = RevisionsFenced
    BY <1>2 DEF Claim
  <2>2. \A r \in Revisions : revision'[r] = revision[r] \/ r \in Open
    BY <1>0, <2>1, Fenced
  <2> QED
    BY <1>0, <1>1, <2>2, OpenChange, StandStill DEF Open
<1>3. CASE Start(l)
  <2> DEFINE r == row[l][1]
  <2>1. /\ revision' = [revision EXCEPT ![r].state = "applying", ![r].count = row[l][3],
                                        ![r].waiting = FALSE, ![r].generation = l]
        /\ revision[r].state = "pending"
    BY <1>3 DEF Start, Startable
  <2> HIDE DEF r
  <2>2. \A q \in Revisions : q # r => revision'[q] = revision[q]
    BY <1>0, <2>1
  <2> QED
    BY <1>0, <1>1, <2>1, <2>2, OpenChange, StandStill
<1>4. CASE StartExpired(l)
  BY <1>0, <1>1, <1>4, OpenChange, StandStill DEF StartExpired
<1>5. CASE StartSuperseded(l)
  <2> DEFINE r == row[l][1]
             v == IF r \in Open THEN Superseded(r) ELSE revision[r]
  <2>1. revision' = [revision EXCEPT ![r] = v]
    BY <1>5 DEF StartSuperseded
  <2> HIDE DEF v
  <2>2. \A q \in Revisions : revision'[q] = revision[q] \/ (q = r /\ revision'[q] = v)
    BY <1>0, <2>1
  <2>3. \A q \in Revisions : revision'[q] = revision[q] \/ q \in Open
    BY <2>2 DEF v
  <2> QED
    BY <1>0, <1>1, <2>3, OpenChange, StandStill DEF Open
<1>6. CASE Fail(l)
  <2> DEFINE r == row[l][1]
             v == AfterFailure(r)
  <2>1. revision' = [revision EXCEPT ![r] = v] /\ revision[r].state = "applying"
    BY <1>6 DEF Fail, Failable, Reports
  <2> HIDE DEF v, r
  <2>2. \A q \in Revisions : q # r => revision'[q] = revision[q]
    BY <1>0, <2>1
  <2> QED
    BY <1>0, <1>1, <2>1, <2>2, OpenChange, StandStill
<1> QED
  BY <1>2, <1>3, <1>4, <1>5, <1>6

\* A report that is applied and a drain that ends.
LEMMA ReportSticks ==
  ASSUME LedgerInv, NEW l \in LeaseIds
  PROVE  /\ Apply(l) => RevisionsStick /\ GenerationsStick /\ PointerSticks
         /\ \A g \in LeaseIds, forced \in BOOLEAN : CompleteDrain(l, g, forced) =>
              RevisionsStick /\ GenerationsStick /\ PointerSticks
<1>0. /\ TypeOK /\ revision \in [Revisions -> RevisionRow] /\ pointer \in Pointer
      /\ generation \in [LeaseIds -> GenerationRow]
      /\ desired \in Nat /\ applied \in Nat /\ applied <= desired
  BY Fields, Numbers DEF LedgerInv, TypeOK, PointerInv
<1>1. ASSUME Apply(l) PROVE RevisionsStick /\ GenerationsStick /\ PointerSticks
  <2> DEFINE r == pointer.desired
             d == IF \E g \in LeaseIds : Activated(l)[g].state = "draining"
                    THEN "draining" ELSE "drained"
  <2>1. /\ revision' = [revision EXCEPT ![r].state = "applied", ![r].waiting = FALSE,
                                        ![r].due = FALSE, ![r].drain = d]
        /\ Reports(l) /\ r = row[l][1]
        /\ pointer' = [pointer EXCEPT !.applied = r, !.lkg = IF @ > r THEN @ ELSE r]
        /\ generation' = Activated(l)
    BY <1>1 DEF Apply, Appliable
  <2>2. revision[r].state = "applying"
    BY <2>1 DEF Reports
  <2>3. generation[l].state = "none"
    BY <2>1 DEF LedgerInv, GenerationInv, Reports
  <2>4. GenerationsStick
    BY <2>1, <2>3 DEF GenerationsStick, Activated
  <2> HIDE DEF d
  <2>5. pointer'.desired = r /\ pointer'.applied = r
    BY <1>0, <2>1 DEF Pointer
  <2>6. PointerSticks
    BY <1>0, <2>5 DEF PointerSticks
  <2> HIDE DEF r
  <2>7. \A q \in Revisions : q # r => revision'[q] = revision[q]
    BY <1>0, <2>1
  <2> QED
    BY <2>2, <2>4, <2>6, <2>7, OpenChange
<1>2. ASSUME NEW g \in LeaseIds, NEW forced \in BOOLEAN, CompleteDrain(l, g, forced)
      PROVE  RevisionsStick /\ GenerationsStick /\ PointerSticks
  <2> DEFINE s == IF forced \/ revision[applied].due THEN "forced" ELSE "drained"
             d == IF Draining = {g} THEN DrainOutcome(g, s) ELSE revision[applied].drain
  <2>1. /\ generation' = [generation EXCEPT ![g] = Settled(s)]
        /\ generation[g].state = "draining" /\ UNCHANGED pointer
        /\ revision' = [revision EXCEPT ![applied].drain = d]
    BY <1>2 DEF CompleteDrain, Drainable, Draining, Generations
  <2> HIDE DEF s, d
  <2>2. \A q \in LeaseIds : q # g => generation'[q] = generation[q]
    BY <1>0, <2>1
  <2>3. \A q \in Revisions : revision'[q].state = revision[q].state
    BY <1>0, <2>1 DEF RevisionRow
  <2>4. RevisionsStick
    BY <2>3, OpenChange
  <2>5. GenerationsStick
    BY <2>1, <2>2 DEF GenerationsStick
  <2> QED
    BY <1>0, <2>1, <2>4, <2>5 DEF PointerSticks
<1> QED
  BY <1>1, <1>2

\* The reconciler, the deletion of the agent, the pruning of old rows, and time.
LEMMA HouseSticks ==
  ASSUME LedgerInv
  PROVE  /\ Reconcile \/ ClaimNothing \/ Retire \/ TimePasses =>
              RevisionsStick /\ GenerationsStick /\ PointerSticks
         /\ \A r \in Revisions : Prune(r) =>
              RevisionsStick /\ GenerationsStick /\ PointerSticks
<1>0. /\ TypeOK /\ revision \in [Revisions -> RevisionRow] /\ pointer \in Pointer
      /\ desired \in Nat /\ applied \in Nat
  BY Fields, Numbers DEF LedgerInv, TypeOK
<1>1. ASSUME Reconcile PROVE RevisionsStick /\ GenerationsStick /\ PointerSticks
  <2>1. ASSUME NEW r \in Revisions
        PROVE  \/ revision'[r].state = revision[r].state
               \/ revision[r].state \in {"none", "pending", "applying"}
    <3>1. revision[r] \in RevisionRow /\ RevisionsFenced[r] \in RevisionRow
      BY <1>0, Fenced
    <3>2. Reconciled(r) \in {AfterFailure(r), revision[r]}
      BY <1>0, NoOrphans DEF Reconciled
    <3>3. Reconciled(r) \in RevisionRow
          /\ (Reconciled(r) = revision[r] \/ revision[r].state = "applying")
      BY <1>0, <3>1, <3>2, Failed
    <3>4. RevisionsFenced[r] = revision[r] \/ r \in Open
      BY <1>0, Fenced
    <3>5. \/ \E d \in {Reconciled(r).drain, "forced"} :
               revision'[r] = [Reconciled(r) EXCEPT !.drain = d]
          \/ revision'[r] = [revision[r] EXCEPT !.drain = "forced"]
          \/ revision'[r] = RevisionsFenced[r]
      BY <1>1 DEF Reconcile
    <3>6. CASE \E d \in {Reconciled(r).drain, "forced"} :
                 revision'[r] = [Reconciled(r) EXCEPT !.drain = d]
      BY <3>3, <3>6 DEF RevisionRow
    <3>7. CASE revision'[r] = [revision[r] EXCEPT !.drain = "forced"]
      BY <3>1, <3>7 DEF RevisionRow
    <3>8. CASE revision'[r] = RevisionsFenced[r]
      BY <3>4, <3>8 DEF Open
    <3> QED
      BY <3>5, <3>6, <3>7, <3>8
  <2>2. GenerationsStick
    <3>1. generation' = Forced(Overdue)
      BY <1>1 DEF Reconcile
    <3>2. \A g \in Overdue : generation[g].state = "draining"
      BY DEF Overdue, Draining, Generations
    <3> QED
      BY <3>1, <3>2 DEF GenerationsStick, Forced
  <2>3. UNCHANGED pointer
    BY <1>1 DEF Reconcile
  <2> QED
    BY <1>0, <2>1, <2>2, <2>3, OpenChange DEF PointerSticks
<1>2. ASSUME ClaimNothing PROVE RevisionsStick /\ GenerationsStick /\ PointerSticks
  <2>1. revision' = RevisionsFenced /\ UNCHANGED <<pointer, generation>>
    BY <1>2 DEF ClaimNothing
  <2>2. \A r \in Revisions : revision'[r] = revision[r] \/ r \in Open
    BY <1>0, <2>1, Fenced
  <2> QED
    BY <1>0, <2>1, <2>2, OpenChange, StandStill DEF Open
<1>3. ASSUME Retire PROVE RevisionsStick /\ GenerationsStick /\ PointerSticks
  <2>1. ASSUME NEW r \in Revisions
        PROVE  revision'[r].state = revision[r].state \/ r \in Open
    <3>1. \/ revision'[r] = [revision[r] EXCEPT !.drain = "forced"]
          \/ revision'[r] = revision[r]
          \/ r \in Open
      BY <1>3 DEF Retire
    <3>2. revision[r] \in RevisionRow
      BY <1>0
    <3> QED
      BY <3>1, <3>2 DEF RevisionRow
  <2>2. generation' = Forced(Draining) /\ ~pointer'.found
    BY <1>3 DEF Retire, NoPointer
  <2>3. GenerationsStick
    BY <2>2 DEF GenerationsStick, Forced, Draining, Generations
  <2> QED
    BY <2>1, <2>2, <2>3, OpenChange DEF PointerSticks, Open
<1>4. ASSUME TimePasses PROVE RevisionsStick /\ GenerationsStick /\ PointerSticks
  <2>1. UNCHANGED <<pointer, generation>>
    BY <1>4 DEF TimePasses, LeaseExpires, RetryDelayElapses, DrainDeadlinePasses
  <2>2. ASSUME NEW r \in Revisions PROVE revision'[r].state = revision[r].state
    <3>1. revision[r] \in RevisionRow
      BY <1>0
    <3>2. \/ revision'[r] = revision[r]
          \/ revision'[r] = [revision[r] EXCEPT !.waiting = FALSE]
          \/ revision'[r] = [revision[r] EXCEPT !.due = TRUE]
      BY <1>0, <1>4 DEF TimePasses, LeaseExpires, RetryDelayElapses, DrainDeadlinePasses
    <3> QED
      BY <3>1, <3>2 DEF RevisionRow
  <2> QED
    BY <1>0, <2>1, <2>2, OpenChange, StandStill
<1>5. ASSUME NEW r \in Revisions, Prune(r)
      PROVE  RevisionsStick /\ GenerationsStick /\ PointerSticks
  <2>1. \A q \in Revisions : revision'[q] \in {revision[q], NoRevision}
    BY <1>5 DEF Prune
  <2>2. \A q \in LeaseIds : generation'[q] \in {generation[q], NoGeneration}
    BY <1>5 DEF Prune
  <2>3. NoRevision.state = "none" /\ NoGeneration.state = "none" /\ UNCHANGED pointer
    BY <1>5 DEF Prune, NoRevision, NoGeneration
  <2>4. RevisionsStick
    BY <2>1, <2>3, OpenChange
  <2>5. GenerationsStick
    BY <2>2, <2>3 DEF GenerationsStick
  <2> QED
    BY <1>0, <2>3, <2>4, <2>5 DEF PointerSticks
<1> QED
  BY <1>1, <1>2, <1>3, <1>4, <1>5

\* A late, repeated or reordered call never reopens an outcome and never moves the
\* pointer back (the conflict checks of every operation of the coordinator).
THEOREM OutcomeSafety == Spec => OutcomesStick
<1>1. ASSUME LedgerInv, Next PROVE RevisionsStick /\ GenerationsStick /\ PointerSticks
  <2>1. ASSUME NEW r \in Revisions,
               \/ Publish(r) \/ HeartbeatIssues(r) \/ Rollback(r) \/ RepairRuntime(r)
        PROVE  Fresh(r) /\ Issue(r) /\ UNCHANGED generation
    BY <2>1 DEF Publish, HeartbeatIssues, Rollback, RepairRuntime, Copy
  <2> QED
    BY <1>1, <2>1, PanelSticks, AgentSticks, ReportSticks, HouseSticks DEF Next
<1>2. LedgerInv /\ [Next]_vars =>
        [RevisionsStick /\ GenerationsStick /\ PointerSticks]_vars
  BY <1>1
<1>3. Spec => [][RevisionsStick /\ GenerationsStick /\ PointerSticks]_vars
  BY <1>2, LedgerInvariance, PTL DEF Spec
<1> QED
  BY <1>3, PTL DEF OutcomesStick, RevisionsStick, GenerationsStick, PointerSticks

----------------------------------------------------------------------------
(* The agent: what holds of its journal, its place and its calls *)

\* The ledger's applied attempts: each is the current one of an applied revision.
CarriedInv ==
  \A k \in Rows : attempt[k].state = "applied" =>
    /\ revision[k[1]].state = "applied"
    /\ revision[k[1]].cycle = k[2]
    /\ revision[k[1]].count = k[3]
    /\ revision[k[1]].generation = attempt[k].lease

\* A lease the panel has given out
Issued(l) == l \in LeaseIds /\ row[l] \in Rows

\* A lease that nothing can start or apply any more
Dead(l) == attempt[row[l]].lease = l => attempt[row[l]].state \notin {"leased", "started"}

\* A lease that cannot be applied any more
Spent(l) == \/ Dead(l)
            \/ attempt[row[l]].expired
            \/ desired > RevisionOf(l)

\* A lease whose attempt, while it carries it, has been started or superseded
Begun(l) ==
  attempt[row[l]].lease = l => attempt[row[l]].state \notin {"leased", "expired_unstarted"}

Record == [lease : LeaseIds \union {None},
           phase : {"none", "prepared", "starting", "started", "cutover", "failed", "active"},
           acknowledged : BOOLEAN, rejected : BOOLEAN]

\* The phases of a candidate, and the places of a sync
Underway == {"prepared", "starting", "started", "cutover", "failed"}

Places == {"idle", "recover", "drains", "heartbeat", "pull", "leased", "repeat",
           "prepared", "start", "started", "applied", "cutover", "finish", "report",
           "closing", "failing"}

LateCalls == {<<"pull">>} \union ({"start", "failed", "applied"} \X LeaseIds)
               \union ({"drained"} \X LeaseIds \X LeaseIds \X BOOLEAN)

\* The journal, the runtime and the calls have the values they may have, and
\* every lease in them has been given out.
AgentTypeInv ==
  /\ journal \in [active : Record, candidate : Record, draining : SUBSET Record]
  /\ snapshot \in 0 .. MaxRevision
  /\ runtime \in 0 .. MaxRevision
  /\ retired \in [Revisions -> {"none", "draining", "drained", "forced"}]
  /\ held \in LeaseIds \union {None}
  /\ late \subseteq LateCalls
  /\ \A record \in {active, candidate} : \/ record = NoRecord
                                         \/ Issued(record.lease)
  /\ \A record \in journal.draining : Issued(record.lease)
  /\ held # None => Issued(held)
  /\ \A call \in late :
       /\ call[1] = "applied" => Issued(call[2])
       /\ call[1] = "drained" => Issued(call[3])

\* What the place in a sync says of the journal.
PlaceInv ==
  /\ pc \in Places
  /\ pc = "leased" <=> held # None
  /\ candidate # NoRecord => candidate.phase \in Underway
  /\ candidate.acknowledged => candidate.phase = "failed"
  /\ ~candidate.rejected
  /\ pc = "prepared" => candidate.phase = "prepared"
  /\ pc = "start" => candidate.phase = "starting"
  /\ pc \in {"started", "applied", "finish"} => candidate.phase \in {"started", "cutover"}
  /\ pc = "cutover" => candidate.phase = "cutover"
  /\ pc = "failing" => candidate.phase = "failed"
  /\ pc = "finish" => snapshot = RevOf(candidate)
  /\ pc \in {"report", "repeat"} => active # NoRecord

\* The revisions the agent knows of go up from the drains to the candidate, and
\* the ledger's applied one is not above the active one.
OrderInv ==
  /\ applied <= RevOf(active)
  /\ RevOf(active) <= snapshot
  /\ runtime # 0 => RevOf(active) <= runtime
  /\ candidate = NoRecord => snapshot <= RevOf(active)
  /\ candidate # NoRecord => snapshot <= RevOf(candidate)
  /\ \A record \in journal.draining : RevOf(record) < RevOf(active)

\* Lease l makes way for lease m: it can no longer be applied, and has no
\* generation if it is of the same revision.
MadeWay(l, m) ==
  /\ l # m
  /\ Dead(l)
  /\ RevisionOf(l) = RevisionOf(m) => generation[l].state = "none"

\* Of the leases the agent holds, the newest alone may still be applied.
NewestInv ==
  /\ \A record \in journal.draining : Dead(record.lease)
  /\ active # NoRecord /\ candidate # NoRecord => MadeWay(active.lease, candidate.lease)
  /\ active # NoRecord /\ held \notin {None, active.lease} => MadeWay(active.lease, held)
  /\ \A call \in late :
       /\ call[1] = "applied" => call[2] = active.lease \/ Dead(call[2])
       /\ call[1] = "drained" => /\ RevisionOf(call[3]) < RevOf(active)
                                 /\ retired[RevisionOf(call[3])] # "draining"

\* LedgerIsTrue, with what keeps it true: a rejected lease cannot be applied any
\* more, the active one was started, and what has drained is below it.
TruthInv ==
  /\ LedgerIsTrue
  /\ \A record \in {active} \union journal.draining : record.rejected => Spent(record.lease)
  /\ active # NoRecord => Begun(active.lease)
  /\ \A g \in Generations("drained") : RevisionOf(g) < RevOf(active)

AgentInv == /\ AgentTypeInv
            /\ PlaceInv
            /\ OrderInv
            /\ NewestInv
            /\ TruthInv
----------------------------------------------------------------------------
(* The ledger's steps *)

USE DEF desired, applied, active, candidate

\* The steps that neither activate nor settle a generation by a report.
QuietStep ==
  \/ UNCHANGED vars
  \/ \E r \in Revisions : Publish(r) \/ Prune(r) \/ RetryDelayElapses(r)
  \/ Retry \/ Reconcile \/ DrainDeadlinePasses \/ ClaimNothing
  \/ \E l \in LeaseIds : Claim(l) \/ Start(l) \/ StartSuperseded(l) \/ Fail(l)
  \/ \E k \in Rows : LeaseExpires(k)

DrainStep(g) == \E l \in LeaseIds, forced \in BOOLEAN : CompleteDrain(l, g, forced)

LedgerStep == \/ QuietStep
              \/ \E l \in LeaseIds : Apply(l)
              \/ \E g \in LeaseIds : DrainStep(g)

\* They are steps of the ledger.
LEMMA LedgerStepIsNext == LedgerStep => [Next]_vars
BY DEF LedgerStep, QuietStep, DrainStep, Next, TimePasses

\* What a step leaves of a lease given out before: its attempt carries it no more,
\* or is where it was, or has moved on.
KeptLease(l) ==
  /\ row'[l] = row[l]
  /\ attempt'[row[l]].lease = l =>
       /\ attempt[row[l]].lease = l
       /\ attempt[row[l]].expired => attempt'[row[l]].expired
       /\ \/ attempt'[row[l]].state = attempt[row[l]].state
          \/ /\ attempt[row[l]].state = "leased"
             /\ attempt'[row[l]].state \in {"started", "superseded", "expired_unstarted"}
          \/ /\ attempt[row[l]].state = "started"
             /\ attempt'[row[l]].state \in {"failed", "applied", "superseded"}

\* What a sweep makes of an attempt (AttemptsExpired).
LEMMA SweptAttempt ==
  ASSUME TypeOK, NEW k \in Rows
  PROVE  /\ AttemptsExpired[k].lease = attempt[k].lease
         /\ AttemptsExpired[k].expired = attempt[k].expired
         /\ \/ AttemptsExpired[k].state = attempt[k].state
            \/ /\ attempt[k].state \in {"leased", "started"}
               /\ AttemptsExpired[k].state = "superseded"
            \/ /\ attempt[k].state = "leased"
               /\ AttemptsExpired[k].state = "expired_unstarted"
<1>1. attempt[k] \in AttemptRow
  BY DEF TypeOK
<1>2. \/ AttemptsExpired[k] = attempt[k]
      \/ /\ attempt[k].state \in {"leased", "started"}
         /\ AttemptsExpired[k] = [attempt[k] EXCEPT !.state = "superseded"]
      \/ /\ attempt[k].state = "leased"
         /\ AttemptsExpired[k] = [attempt[k] EXCEPT !.state = "expired_unstarted"]
  BY DEF AttemptsExpired, AttemptsFenced, Active
<1> QED
  BY <1>1, <1>2 DEF AttemptRow

\* A step of the ledger keeps the leases given out.
LEMMA LeasesStay ==
  ASSUME LedgerInv, LedgerStep, NEW l \in LeaseIds, row[l] \in Rows PROVE KeptLease(l)
<1> DEFINE k == row[l]
<1>0. /\ TypeOK /\ attempt \in [Rows -> AttemptRow] /\ row \in [LeaseIds -> Rows \union {None}]
      /\ k \in Rows /\ attempt[k] \in AttemptRow
      /\ l # None /\ k # None
  BY NoneAssumption DEF LedgerInv, TypeOK
<1>1. CASE UNCHANGED <<attempt, row>>
  BY <1>1 DEF KeptLease
<1>2. ASSUME UNCHANGED row,
             attempt'[k].lease = attempt[k].lease,
             attempt'[k].expired = attempt[k].expired,
             \/ attempt'[k].state = attempt[k].state
             \/ attempt[k].state = "leased"
                /\ attempt'[k].state \in {"started", "superseded", "expired_unstarted"}
             \/ attempt[k].state = "started"
                /\ attempt'[k].state \in {"failed", "applied", "superseded"}
      PROVE  KeptLease(l)
  BY <1>2 DEF KeptLease
<1>3. ASSUME NEW m \in LeaseIds, Holds(m), UNCHANGED row,
             NEW s \in {"started", "superseded", "failed", "applied"},
             attempt' = [attempt EXCEPT ![row[m]].state = s],
             attempt[row[m]].state = IF s \in {"started", "superseded"} THEN "leased"
                                                                        ELSE "started"
      PROVE  KeptLease(l)
  <2>1. row[m] \in Rows
    BY <1>3 DEF Holds
  <2>2. /\ attempt'[row[m]].state = s /\ attempt'[row[m]].lease = attempt[row[m]].lease
        /\ attempt'[row[m]].expired = attempt[row[m]].expired
        /\ \A j \in Rows : j # row[m] => attempt'[j] = attempt[j]
    BY <1>0, <1>3, <2>1, AttemptRows
  <2>3. CASE k = row[m]
    BY <1>2, <1>3, <2>2, <2>3
  <2>4. CASE k # row[m]
    BY <1>0, <1>2, <1>3, <2>2, <2>4
  <2> QED
    BY <2>3, <2>4
<1>4. ASSUME NEW r \in Revisions, Prune(r) PROVE KeptLease(l)
  <2>1. attempt'[k] \in {attempt[k], NoAttempt} /\ UNCHANGED row
    BY <1>0, <1>4 DEF Prune
  <2> QED
    BY <1>0, <2>1 DEF KeptLease, NoAttempt
<1>5. ASSUME ClaimNothing PROVE KeptLease(l)
  <2>1. attempt' = AttemptsExpired /\ UNCHANGED row
    BY <1>5 DEF ClaimNothing
  <2> QED
    BY <1>0, <1>2, <2>1, SweptAttempt
<1>6. ASSUME Reconcile PROVE KeptLease(l)
  <2>1. /\ attempt'[k] = IF k \in TimedOut THEN [attempt[k] EXCEPT !.state = "failed"]
                                           ELSE AttemptsExpired[k]
        /\ UNCHANGED row
    BY <1>0, <1>6 DEF Reconcile
  <2>2. CASE k \in TimedOut
    <3>1. attempt[k].state = "started" /\ attempt'[k] = [attempt[k] EXCEPT !.state = "failed"]
      BY <2>1, <2>2 DEF TimedOut
    <3>2. attempt'[k].state = "failed" /\ attempt'[k].lease = attempt[k].lease
          /\ attempt'[k].expired = attempt[k].expired
      BY <1>0, <3>1 DEF AttemptRow
    <3> QED
      BY <1>2, <2>1, <3>1, <3>2
  <2>3. CASE k \notin TimedOut
    <3>1. attempt'[k] = AttemptsExpired[k]
      BY <2>1, <2>3
    <3> QED
      BY <1>0, <1>2, <2>1, <3>1, SweptAttempt
  <2> QED
    BY <2>2, <2>3
<1>7. ASSUME NEW m \in LeaseIds, Claim(m) PROVE KeptLease(l)
  <2>1. /\ row' = [row EXCEPT ![m] = NextRow] /\ row[m] = None
        /\ attempt' = [AttemptsExpired EXCEPT ![NextRow] =
                         [state |-> "leased", lease |-> m, expired |-> FALSE]]
    BY <1>7 DEF Claim
  <2>2. m # l /\ row'[l] = row[l]
    BY <1>0, <2>1
  <2>3. CASE k = NextRow
    <3>1. AttemptsExpired = [j \in Rows |-> AttemptsExpired[j]]
      BY DEF AttemptsExpired
    <3>2. attempt'[k].lease = m
      BY <1>0, <2>1, <2>3, <3>1
    <3> QED
      BY <2>2, <3>2 DEF KeptLease
  <2>4. CASE k # NextRow
    <3>1. AttemptsExpired = [j \in Rows |-> AttemptsExpired[j]]
      BY DEF AttemptsExpired
    <3>2. attempt'[k] = AttemptsExpired[k]
      BY <1>0, <2>1, <2>4, <3>1
    <3> QED
      BY <1>0, <2>2, <3>2, SweptAttempt DEF KeptLease
  <2> QED
    BY <2>3, <2>4
<1>8. ASSUME NEW j \in Rows, LeaseExpires(j) PROVE KeptLease(l)
  <2>1. attempt' = [attempt EXCEPT ![j].expired = TRUE] /\ UNCHANGED row
    BY <1>8 DEF LeaseExpires
  <2>2. /\ attempt'[k].lease = attempt[k].lease /\ attempt'[k].state = attempt[k].state
        /\ attempt[k].expired => attempt'[k].expired
    BY <1>0, <2>1 DEF AttemptRow
  <2> QED
    BY <2>1, <2>2 DEF KeptLease
<1>9. ASSUME NEW m \in LeaseIds,
             Start(m) \/ StartSuperseded(m) \/ Fail(m) \/ Apply(m)
      PROVE  KeptLease(l)
  <2>1. CASE Start(m)
    BY <1>3, <2>1 DEF Start, Startable
  <2>2. CASE StartSuperseded(m)
    BY <1>3, <2>2 DEF StartSuperseded, StartOvertaken
  <2>3. CASE Fail(m)
    BY <1>3, <2>3 DEF Fail, Failable, Reports
  <2>4. CASE Apply(m)
    BY <1>3, <2>4 DEF Apply, Appliable, Reports
  <2> QED
    BY <1>9, <2>1, <2>2, <2>3, <2>4
<1>10. ASSUME \/ UNCHANGED vars \/ Retry \/ DrainDeadlinePasses
              \/ \E r \in Revisions : Publish(r) \/ RetryDelayElapses(r)
              \/ \E g \in LeaseIds : DrainStep(g)
       PROVE  KeptLease(l)
  <2>1. UNCHANGED <<attempt, row>>
    BY <1>10 DEF vars, Retry, DrainDeadlinePasses, Publish, RetryDelayElapses, DrainStep,
                 CompleteDrain
  <2> QED
    BY <1>1, <2>1
<1> QED
  BY <1>4, <1>5, <1>6, <1>7, <1>8, <1>9, <1>10 DEF LedgerStep, QuietStep

\* What a step leaves of an applied revision: all but its drain and its flags.
KeptRevision(r) ==
  /\ revision'[r].state = "applied"
  /\ revision'[r].cycle = revision[r].cycle
  /\ revision'[r].count = revision[r].count
  /\ revision'[r].generation = revision[r].generation

\* A quiet step other than a prune applies no attempt and leaves the applied
\* revisions alone.
LEMMA QuietRows ==
  ASSUME LedgerInv, QuietStep, \A r \in Revisions : ~Prune(r)
  PROVE  /\ \A k \in Rows : attempt'[k].state = "applied" =>
              attempt[k].state = "applied" /\ attempt'[k].lease = attempt[k].lease
         /\ \A r \in Revisions : revision[r].state = "applied" => KeptRevision(r)
<1> DEFINE AttemptsKept == \A k \in Rows : attempt'[k].state = "applied" =>
                             attempt[k].state = "applied" /\ attempt'[k].lease = attempt[k].lease
           RevisionsKept == \A r \in Revisions : revision[r].state = "applied" => KeptRevision(r)
<1>0. /\ TypeOK /\ attempt \in [Rows -> AttemptRow] /\ revision \in [Revisions -> RevisionRow]
  BY DEF LedgerInv, TypeOK
<1>1. UNCHANGED attempt => AttemptsKept
  OBVIOUS
<1>2. UNCHANGED revision => RevisionsKept
  BY DEF KeptRevision
<1>3. ASSUME NEW r \in Revisions, revision[r].state # "applied",
             \A q \in Revisions : q # r => revision'[q] = revision[q]
      PROVE  RevisionsKept
  BY <1>3 DEF KeptRevision
<1>4. ASSUME revision' = RevisionsFenced PROVE RevisionsKept
  <2>1. ASSUME NEW r \in Revisions, revision[r].state = "applied"
        PROVE  revision'[r] = revision[r]
    BY <1>0, <1>4, <2>1, Fenced DEF Open
  <2> QED
    BY <2>1 DEF KeptRevision
<1>5. ASSUME NEW k \in Rows, NEW s \in {"started", "superseded", "failed"},
             attempt' = [attempt EXCEPT ![k].state = s]
      PROVE  AttemptsKept
  BY <1>0, <1>5, AttemptRows
<1>6. CASE ClaimNothing
  <2>1. attempt' = AttemptsExpired /\ revision' = RevisionsFenced
    BY <1>6 DEF ClaimNothing
  <2>2. AttemptsKept
    BY <1>0, <2>1, SweptAttempt
  <2> QED
    BY <1>4, <2>1, <2>2
<1>7. CASE Reconcile
  <2>1. ASSUME NEW k \in Rows, attempt'[k].state = "applied"
        PROVE  attempt[k].state = "applied" /\ attempt'[k].lease = attempt[k].lease
    <3>1. attempt'[k] = IF k \in TimedOut THEN [attempt[k] EXCEPT !.state = "failed"]
                                          ELSE AttemptsExpired[k]
      BY <1>7 DEF Reconcile
    <3>2. k \notin TimedOut
      BY <1>0, <2>1, <3>1 DEF AttemptRow
    <3> QED
      BY <1>0, <2>1, <3>1, <3>2, SweptAttempt
  <2>2. ASSUME NEW r \in Revisions, revision[r].state = "applied" PROVE KeptRevision(r)
    <3>1. Reconciled(r) = revision[r]
      <4>1. Reconciled(r) \in {AfterFailure(r), revision[r]}
        BY <1>0, NoOrphans DEF Reconciled
      <4> QED
        BY <1>0, <2>2, <4>1, Failed
    <3>2. RevisionsFenced[r] = revision[r]
      BY <1>0, <2>2, Fenced DEF Open
    <3>3. \/ revision'[r] = revision[r]
          \/ \E d \in {revision[r].drain, "forced"} :
               revision'[r] = [revision[r] EXCEPT !.drain = d]
      BY <1>7, <3>1, <3>2 DEF Reconcile
    <3>4. revision[r] \in RevisionRow
      BY <1>0
    <3> QED
      BY <2>2, <3>3, <3>4 DEF KeptRevision, RevisionRow
  <2> QED
    BY <2>1, <2>2
<1>8. CASE Retry
  <2>1. /\ desired \in Revisions /\ revision[desired].state = "failed" /\ UNCHANGED attempt
        /\ \A q \in Revisions : q # desired => revision'[q] = revision[q]
    BY <1>0, <1>8 DEF Retry, Known
  <2> QED
    BY <1>1, <1>3, <2>1
<1>9. CASE DrainDeadlinePasses
  <2>1. /\ revision' = [revision EXCEPT ![applied].due = TRUE] /\ UNCHANGED attempt
    BY <1>9 DEF DrainDeadlinePasses
  <2>2. RevisionsKept
    BY <1>0, <2>1 DEF KeptRevision, RevisionRow
  <2> QED
    BY <1>1, <2>1, <2>2
<1>10. ASSUME NEW r \in Revisions, Publish(r) PROVE AttemptsKept /\ RevisionsKept
  <2>1. revision[r].state = "none" /\ UNCHANGED attempt
    BY <1>10, Numbers DEF Publish, Fresh, Known
  <2>2. \A q \in Revisions : q # r => revision'[q] = revision[q]
    BY <1>0, <1>10 DEF Publish, Issue
  <2> QED
    BY <1>1, <1>3, <2>1, <2>2
<1>11. ASSUME NEW r \in Revisions, RetryDelayElapses(r) PROVE AttemptsKept /\ RevisionsKept
  <2>1. revision' = [revision EXCEPT ![r].waiting = FALSE] /\ UNCHANGED attempt
    BY <1>11 DEF RetryDelayElapses
  <2>2. RevisionsKept
    BY <1>0, <2>1 DEF KeptRevision, RevisionRow
  <2> QED
    BY <1>1, <2>1, <2>2
<1>12. ASSUME NEW l \in LeaseIds, Claim(l) PROVE AttemptsKept /\ RevisionsKept
  <2>1. /\ revision' = RevisionsFenced
        /\ attempt' = [AttemptsExpired EXCEPT ![NextRow] =
                         [state |-> "leased", lease |-> l, expired |-> FALSE]]
    BY <1>12 DEF Claim
  <2>2. AttemptsExpired = [k \in Rows |-> AttemptsExpired[k]]
    BY DEF AttemptsExpired
  <2>3. ASSUME NEW k \in Rows, attempt'[k].state = "applied"
        PROVE  attempt[k].state = "applied" /\ attempt'[k].lease = attempt[k].lease
    <3>1. attempt'[k] = AttemptsExpired[k]
      BY <2>1, <2>2, <2>3
    <3> QED
      BY <1>0, <2>3, <3>1, SweptAttempt
  <2> QED
    BY <1>4, <2>1, <2>3
<1>13. ASSUME NEW l \in LeaseIds, Start(l) PROVE AttemptsKept /\ RevisionsKept
  <2> DEFINE r == row[l][1]
  <2>1. /\ row[l] \in Rows /\ revision[r].state = "pending"
        /\ attempt' = [attempt EXCEPT ![row[l]].state = "started"]
        /\ revision' = [revision EXCEPT ![r].state = "applying", ![r].count = row[l][3],
                                        ![r].waiting = FALSE, ![r].generation = l]
    BY <1>13 DEF Start, Startable, Holds
  <2>2. r \in Revisions
    BY <2>1, Coordinates
  <2> HIDE DEF r
  <2>3. \A q \in Revisions : q # r => revision'[q] = revision[q]
    BY <1>0, <2>1
  <2> QED
    BY <1>3, <1>5, <2>1, <2>2, <2>3
<1>14. ASSUME NEW l \in LeaseIds, StartSuperseded(l) PROVE AttemptsKept /\ RevisionsKept
  <2> DEFINE r == row[l][1]
             v == IF r \in Open THEN Superseded(r) ELSE revision[r]
  <2>1. /\ row[l] \in Rows
        /\ attempt' = [attempt EXCEPT ![row[l]].state = "superseded"]
        /\ revision' = [revision EXCEPT ![r] = v]
    BY <1>14 DEF StartSuperseded, StartOvertaken, Holds
  <2>2. r \in Revisions
    BY <2>1, Coordinates
  <2>3. revision[r].state = "applied" => v = revision[r]
    BY DEF Open
  <2> HIDE DEF r, v
  <2>4. \A q \in Revisions : revision'[q] = IF q = r THEN v ELSE revision[q]
    BY <1>0, <2>1
  <2>5. RevisionsKept
    BY <2>3, <2>4 DEF KeptRevision
  <2> QED
    BY <1>5, <2>1, <2>5
<1>15. ASSUME NEW l \in LeaseIds, Fail(l) PROVE AttemptsKept /\ RevisionsKept
  <2> DEFINE r == row[l][1]
             v == AfterFailure(r)
  <2>1. /\ row[l] \in Rows /\ revision[r].state = "applying"
        /\ attempt' = [attempt EXCEPT ![row[l]].state = "failed"]
        /\ revision' = [revision EXCEPT ![r] = v]
    BY <1>15 DEF Fail, Failable, Reports, Holds
  <2>2. r \in Revisions
    BY <2>1, Coordinates
  <2> HIDE DEF r, v
  <2>3. \A q \in Revisions : q # r => revision'[q] = revision[q]
    BY <1>0, <2>1
  <2> QED
    BY <1>3, <1>5, <2>1, <2>2, <2>3
<1>16. ASSUME NEW k \in Rows, LeaseExpires(k) PROVE AttemptsKept /\ RevisionsKept
  <2>1. attempt' = [attempt EXCEPT ![k].expired = TRUE] /\ UNCHANGED revision
    BY <1>16 DEF LeaseExpires
  <2>2. AttemptsKept
    BY <1>0, <2>1 DEF AttemptRow
  <2> QED
    BY <1>2, <2>1, <2>2
<1>17. CASE UNCHANGED vars
  BY <1>1, <1>2, <1>17 DEF vars
<1> QED
  BY <1>6, <1>7, <1>8, <1>9, <1>10, <1>11, <1>12, <1>13, <1>14, <1>15, <1>16, <1>17
     DEF QuietStep

\* The ledger keeps its applied attempts current (ApplyAgentRevisionAttempt, and the
\* states every other operation asks for).
LEMMA CarriedNext ==
  ASSUME LedgerInv, CarriedInv, LedgerStep PROVE CarriedInv'
<1>0. /\ TypeOK /\ attempt \in [Rows -> AttemptRow] /\ revision \in [Revisions -> RevisionRow]
  BY DEF LedgerInv, TypeOK
<1>1. ASSUME \A k \in Rows : attempt'[k].state = "applied" =>
               attempt[k].state = "applied" /\ attempt'[k].lease = attempt[k].lease,
             \A r \in Revisions : revision[r].state = "applied" => KeptRevision(r)
      PROVE  CarriedInv'
  BY <1>1, Coordinates DEF CarriedInv, KeptRevision
<1>2. ASSUME QuietStep, \A r \in Revisions : ~Prune(r) PROVE CarriedInv'
  BY <1>1, <1>2, QuietRows
<1>3. ASSUME NEW r \in Revisions, Prune(r) PROVE CarriedInv'
  <2> DEFINE gone == {q \in Known : q < r} \ Protected
  <2>1. /\ \A q \in Revisions : revision'[q] = IF q \in gone THEN NoRevision ELSE revision[q]
        /\ \A k \in Rows : attempt'[k] = IF k[1] \in gone THEN NoAttempt ELSE attempt[k]
    BY <1>3 DEF Prune
  <2> HIDE DEF gone
  <2>2. ASSUME NEW k \in Rows, attempt'[k].state = "applied"
        PROVE  attempt'[k] = attempt[k] /\ revision'[k[1]] = revision[k[1]]
    BY <2>1, <2>2, Coordinates DEF NoAttempt
  <2> QED
    BY <2>2 DEF CarriedInv
<1>4. ASSUME NEW g \in LeaseIds, DrainStep(g) PROVE CarriedInv'
  <2>1. PICK d : revision' = [revision EXCEPT ![applied].drain = d] /\ UNCHANGED attempt
    BY <1>4 DEF DrainStep, CompleteDrain
  <2>2. \A r \in Revisions : revision[r].state = "applied" => KeptRevision(r)
    BY <1>0, <2>1 DEF KeptRevision, RevisionRow
  <2> QED
    BY <1>1, <2>1, <2>2
<1>5. ASSUME NEW l \in LeaseIds, Apply(l) PROVE CarriedInv'
  <2> DEFINE k == row[l]
             r == row[l][1]
             d == IF \E g \in LeaseIds : Activated(l)[g].state = "draining"
                    THEN "draining" ELSE "drained"
  <2>1. /\ Holds(l) /\ attempt[k].state = "started" /\ revision[r].state = "applying"
        /\ revision[r].count = k[3] /\ revision[r].generation = l /\ r = desired
        /\ attempt' = [attempt EXCEPT ![k].state = "applied"]
        /\ revision' = [revision EXCEPT ![r].state = "applied", ![r].waiting = FALSE,
                                        ![r].due = FALSE, ![r].drain = d]
    BY <1>5 DEF Apply, Appliable, Reports
  <2>2. k \in Rows /\ r \in Revisions /\ revision[r].cycle = k[2] /\ attempt[k].lease = l
    BY <2>1, Held
  <2>3. k[1] = r
    OBVIOUS
  <2> HIDE DEF k, r, d
  <2>4. /\ attempt'[k].lease = l
        /\ \A j \in Rows : j # k => attempt'[j] = attempt[j]
    BY <1>0, <2>1, <2>2, AttemptRows
  <2>5. /\ revision'[r].state = "applied" /\ revision'[r].cycle = revision[r].cycle
        /\ revision'[r].count = revision[r].count
        /\ revision'[r].generation = revision[r].generation
        /\ \A q \in Revisions : q # r => revision'[q] = revision[q]
    BY <1>0, <2>1, <2>2 DEF RevisionRow
  <2>6. ASSUME NEW j \in Rows, j # k, attempt'[j].state = "applied"
        PROVE  revision[j[1]].state = "applied" /\ j[1] \in Revisions /\ j[1] # r
    BY <2>1, <2>4, <2>6, Coordinates DEF CarriedInv
  <2>7. ASSUME NEW j \in Rows, attempt'[j].state = "applied"
        PROVE  /\ revision'[j[1]].state = "applied" /\ revision'[j[1]].cycle = j[2]
               /\ revision'[j[1]].count = j[3]
               /\ revision'[j[1]].generation = attempt'[j].lease
    <3>1. CASE j = k
      BY <2>1, <2>2, <2>3, <2>4, <2>5, <3>1
    <3>2. CASE j # k
      BY <2>4, <2>5, <2>6, <2>7, <3>2 DEF CarriedInv
    <3> QED
      BY <3>1, <3>2
  <2> QED
    BY <2>7 DEF CarriedInv
<1> QED
  BY <1>2, <1>3, <1>4, <1>5 DEF LedgerStep

\* Whether a step may have moved a generation from one state to another, short of
\* activating or settling it
QuietChange(old, new) == \/ new = old
                         \/ old = "draining" /\ new = "forced"
                         \/ old \in {"drained", "forced"} /\ new = "none"

\* A quiet step leaves the applied revision alone, and of the generations only
\* forces drains and prunes what has drained.
LEMMA QuietMoves ==
  ASSUME LedgerInv, QuietStep
  PROVE  /\ applied' = applied
         /\ desired <= desired'
         /\ \A g \in LeaseIds : QuietChange(generation[g].state, generation'[g].state)
<1>0. TypeOK /\ desired \in Nat
  BY Fields, Numbers DEF LedgerInv
<1>1. CASE UNCHANGED <<pointer, generation>>
  BY <1>0, <1>1 DEF QuietChange
<1>2. ASSUME NEW r \in Revisions, Publish(r)
      PROVE  applied' = applied /\ desired <= desired' /\ UNCHANGED generation
  <2>1. /\ pointer' = [pointer EXCEPT !.found = TRUE, !.desired = r]
        /\ r > desired /\ UNCHANGED generation
    BY <1>2 DEF Publish, Issue, Fresh
  <2> QED
    <3>1. pointer \in Pointer /\ r \in Nat
      BY <1>0, Numbers DEF TypeOK
    <3>2. pointer'.applied = applied /\ pointer'.desired = r
      BY <2>1, <3>1 DEF Pointer
    <3> QED
      BY <1>0, <2>1, <3>1, <3>2
<1>3. ASSUME NEW r \in Revisions, Prune(r)
      PROVE  /\ UNCHANGED pointer
             /\ \A g \in LeaseIds : QuietChange(generation[g].state, generation'[g].state)
  <2>1. ASSUME NEW g \in LeaseIds
        PROVE  QuietChange(generation[g].state, generation'[g].state)
    <3>1. \/ generation'[g] = generation[g]
          \/ row[g][1] \notin Protected /\ generation'[g] = NoGeneration
      BY <1>3 DEF Prune
    <3>2. generation[g].state \in {"active", "draining"} => row[g][1] \in Protected
      BY DEF Protected, Generations, Draining
    <3> QED
      BY <1>0, <3>1, <3>2, Fields DEF QuietChange, NoGeneration
  <2> QED
    BY <1>3, <2>1 DEF Prune
<1>4. ASSUME Reconcile
      PROVE  /\ UNCHANGED pointer
             /\ \A g \in LeaseIds : QuietChange(generation[g].state, generation'[g].state)
  <2>1. generation' = Forced(Overdue) /\ UNCHANGED pointer
    BY <1>4 DEF Reconcile
  <2>2. \A g \in Overdue : generation[g].state = "draining"
    BY DEF Overdue, Draining, Generations
  <2> QED
    BY <2>1, <2>2 DEF Forced, Settled, QuietChange
<1>5. ASSUME \/ UNCHANGED vars \/ Retry \/ DrainDeadlinePasses \/ ClaimNothing
             \/ \E r \in Revisions : RetryDelayElapses(r)
             \/ \E l \in LeaseIds : Claim(l) \/ Start(l) \/ StartSuperseded(l) \/ Fail(l)
             \/ \E k \in Rows : LeaseExpires(k)
      PROVE  UNCHANGED <<pointer, generation>>
  BY <1>5 DEF vars, Retry, DrainDeadlinePasses, ClaimNothing, RetryDelayElapses, Claim, Start,
              StartSuperseded, Fail, LeaseExpires
<1>6. ASSUME UNCHANGED pointer PROVE applied' = applied /\ desired <= desired'
  BY <1>0, <1>6
<1>7. CASE \E r \in Revisions : Publish(r)
  BY <1>2, <1>7 DEF QuietChange
<1>8. CASE Reconcile \/ \E r \in Revisions : Prune(r)
  BY <1>3, <1>4, <1>6, <1>8
<1> QED
  BY <1>1, <1>5, <1>7, <1>8 DEF QuietStep

----------------------------------------------------------------------------
(* Leases over time *)

\* A lease given out stays given out, for the same revision; and once it cannot be
\* applied any more, or has been started, that stays so.
LEMMA LeaseFacts ==
  ASSUME LedgerInv, LedgerStep, desired <= desired', NEW l, Issued(l)
  PROVE  /\ Issued(l)' /\ RevisionOf(l)' = RevisionOf(l)
         /\ RevisionOf(l) \in Revisions
         /\ Dead(l) => Dead(l)'
         /\ Spent(l) => Spent(l)'
         /\ Begun(l) => Begun(l)'
<1>1. l \in LeaseIds /\ row[l] \in Rows /\ row'[l] = row[l] /\ RevisionOf(l) \in Revisions
  BY LeasesStay, Coordinates DEF Issued, KeptLease, RevisionOf
<1>2. KeptLease(l)
  BY <1>1, LeasesStay
<1>3. Issued(l)' /\ RevisionOf(l)' = RevisionOf(l)
  BY <1>1 DEF Issued, RevisionOf
<1>4. Dead(l) => Dead(l)'
  BY <1>1, <1>2 DEF Dead, KeptLease
<1>5. Begun(l) => Begun(l)'
  BY <1>1, <1>2 DEF Begun, KeptLease
<1>6. Spent(l) => Spent(l)'
  <2>1. CASE desired > RevisionOf(l)
    <3>1. desired \in Nat /\ desired' \in Nat /\ RevisionOf(l) \in Nat
      <4>1. LedgerInv'
        BY LedgerStepIsNext, LedgerNext
      <4>2. TypeOK /\ TypeOK'
        BY <4>1 DEF LedgerInv
      <4>3. desired \in 0 .. MaxRevision /\ desired' \in 0 .. MaxRevision
        BY <4>2 DEF TypeOK, Pointer
      <4> QED
        BY <1>1, <4>3, Numbers
    <3>2. desired' > RevisionOf(l)
      BY <2>1, <3>1
    <3> QED
      BY <1>3, <3>2 DEF Spent
  <2>2. CASE Dead(l)
    BY <1>4, <2>2 DEF Spent
  <2>3. CASE attempt[row[l]].expired
    BY <1>1, <1>2, <2>3 DEF Spent, Dead, KeptLease
  <2> QED
    BY <2>1, <2>2, <2>3 DEF Spent
<1> QED
  BY <1>1, <1>3, <1>4, <1>5, <1>6

\* The revision of a record is that of its lease, for good.
LEMMA RecordFacts ==
  ASSUME LedgerInv, LedgerStep, desired <= desired', NEW record,
         record = NoRecord \/ Issued(record.lease)
  PROVE  /\ RevOf(record)' = RevOf(record) /\ RevOf(record) \in 0 .. MaxRevision
         /\ record # NoRecord => RevOf(record) = RevisionOf(record.lease)
         /\ record # NoRecord => RevOf(record) \in Revisions
         /\ record = NoRecord => RevOf(record) = 0
         /\ record # NoRecord <=> record.lease # None
<1>1. NoRecord.lease = None /\ 0 \in 0 .. MaxRevision /\ Revisions \subseteq 0 .. MaxRevision
  BY Numbers DEF NoRecord
<1>2. CASE record = NoRecord
  BY <1>1, <1>2 DEF RevOf
<1>3. CASE Issued(record.lease)
  <2>1. record.lease \in LeaseIds /\ record.lease # None
    BY <1>3, NoneAssumption DEF Issued
  <2>2. /\ RevisionOf(record.lease)' = RevisionOf(record.lease)
        /\ RevisionOf(record.lease) \in Revisions
    BY <1>3, LeaseFacts
  <2> QED
    BY <1>1, <2>1, <2>2 DEF RevOf
<1> QED
  BY <1>2, <1>3

\* What an applied report does (ApplyAgentRevisionAttempt).
LEMMA ApplyMoves ==
  ASSUME LedgerInv, NEW l \in LeaseIds, Apply(l)
  PROVE  /\ Issued(l) /\ ~Spent(l)
         /\ applied' = RevisionOf(l) /\ desired' = desired
         /\ generation'[l].state = "active"
         /\ \A g \in LeaseIds : g # l =>
              generation'[g].state = IF generation[g].state = "active" THEN "draining"
                                                                     ELSE generation[g].state
<1>0. TypeOK
  BY DEF LedgerInv
<1>1. /\ Reports(l) /\ desired = row[l][1]
      /\ generation' = Activated(l)
      /\ pointer' = [pointer EXCEPT !.applied = desired, !.lkg = IF @ > desired THEN @ ELSE desired]
  BY DEF Apply, Appliable
<1>2. /\ row[l] \in Rows /\ attempt[row[l]].lease = l
      /\ attempt[row[l]].state = "started" /\ ~attempt[row[l]].expired
  BY <1>1 DEF Reports, Holds
<1>3. row[l][1] \in Nat
  BY <1>2, Coordinates, Numbers
<1>4. Issued(l) /\ ~Spent(l)
  BY <1>1, <1>2, <1>3 DEF Issued, Spent, Dead, RevisionOf
<1>5. applied' = RevisionOf(l) /\ desired' = desired
  <2>1. pointer \in Pointer
    BY <1>0 DEF TypeOK
  <2> QED
    BY <1>1, <2>1 DEF Pointer, RevisionOf
<1>6. ASSUME NEW g \in LeaseIds, g # l
      PROVE  generation'[g].state = IF generation[g].state = "active" THEN "draining"
                                                                    ELSE generation[g].state
  <2>1. generation'[g] = IF generation[g].state = "active"
                           THEN [generation[g] EXCEPT !.state = "draining"]
                           ELSE generation[g]
    BY <1>1, <1>6 DEF Activated
  <2>2. generation[g] \in GenerationRow
    BY <1>0 DEF TypeOK
  <2> QED
    BY <2>1, <2>2 DEF GenerationRow
<1>7. generation'[l].state = "active"
  BY <1>1 DEF Activated
<1> QED
  BY <1>4, <1>5, <1>6, <1>7

\* What a completed drain does (CompleteCoordinatorDrain).
LEMMA DrainMoves ==
  ASSUME LedgerInv, NEW l \in LeaseIds, NEW g \in LeaseIds, NEW forced \in BOOLEAN,
         CompleteDrain(l, g, forced)
  PROVE  /\ applied' = applied /\ desired' = desired
         /\ generation[g].state = "draining" /\ generation'[g].state \in {"drained", "forced"}
         /\ forced => generation'[g].state = "forced"
         /\ \A q \in LeaseIds : q # g => generation'[q] = generation[q]
         /\ RevisionOf(g) < applied
<1> DEFINE s == IF forced \/ revision[applied].due THEN "forced" ELSE "drained"
<1>1. /\ Drainable(l, g) /\ UNCHANGED pointer
      /\ generation' = [generation EXCEPT ![g] = Settled(s)]
  BY DEF CompleteDrain
<1>2. /\ generation[g].state = "draining" /\ row[g][1] < row[l][1] /\ row[l][1] = applied
  BY <1>1 DEF Drainable, DrainLease, Draining, Generations
<1>3. Settled(s).state = s
  BY DEF Settled
<1>4. s \in {"drained", "forced"} /\ (forced => s = "forced")
  OBVIOUS
<1> HIDE DEF s
<1>5. generation \in [LeaseIds -> GenerationRow]
  BY DEF LedgerInv, TypeOK
<1>6. generation'[g] = Settled(s) /\ \A q \in LeaseIds : q # g => generation'[q] = generation[q]
  BY <1>1, <1>5
<1> QED
  BY <1>1, <1>2, <1>3, <1>4, <1>6 DEF RevisionOf

\* The desired revision never goes back.
LEMMA DesiredGrows ==
  ASSUME LedgerInv, LedgerStep PROVE desired <= desired'
<1>1. desired \in Nat
  BY Fields, Numbers DEF LedgerInv
<1>2. ASSUME NEW l \in LeaseIds, Apply(l) PROVE desired <= desired'
  BY <1>1, <1>2, ApplyMoves
<1>3. ASSUME NEW g \in LeaseIds, DrainStep(g) PROVE desired <= desired'
  BY <1>1, <1>3, DrainMoves DEF DrainStep
<1> QED
  BY <1>2, <1>3, QuietMoves DEF LedgerStep

----------------------------------------------------------------------------
(* What a step of the system does to the agent *)

\* The records the journal holds
Records == {active, candidate} \union journal.draining

\* A record is empty or that of a lease given out.
LEMMA RecordTypes ==
  ASSUME AgentTypeInv, NEW record \in Records
  PROVE  /\ record \in Record
         /\ record = NoRecord \/ Issued(record.lease)
         /\ record # NoRecord <=> record.lease # None
         /\ record # NoRecord => record.lease \in LeaseIds /\ Issued(record.lease)
<1>1. record \in Record /\ (record = NoRecord \/ Issued(record.lease))
  BY DEF AgentTypeInv, Records
<1> QED
  BY <1>1, NoneAssumption DEF NoRecord, Issued

\* A call the agent has given up on names leases.
LEMMA CallTypes ==
  ASSUME AgentTypeInv, NEW call \in late
  PROVE  /\ call[1] \in {"pull", "start", "failed", "applied", "drained"}
         /\ call[1] \in {"start", "failed", "applied"} =>
              call[2] \in LeaseIds /\ call = <<call[1], call[2]>>
         /\ call[1] = "drained" =>
              call[2] \in LeaseIds /\ call[3] \in LeaseIds /\ call[4] \in BOOLEAN
<1>1. call \in LateCalls
  BY DEF AgentTypeInv
<1>2. CASE call = <<"pull">>
  BY <1>2
<1>3. CASE call \in {"start", "failed", "applied"} \X LeaseIds
  BY <1>3
<1>4. CASE call \in {"drained"} \X LeaseIds \X LeaseIds \X BOOLEAN
  BY <1>4
<1> QED
  BY <1>1, <1>2, <1>3, <1>4 DEF LateCalls

\* A call the agent may give up on in a step
NewCall(call) ==
  /\ call \in LateCalls
  /\ \/ call[1] \in {"pull", "start", "failed"}
     \/ call = <<"applied", active.lease>> /\ active # NoRecord
     \/ \E record \in journal.draining, forced \in BOOLEAN :
          /\ call = <<"drained", active.lease, record.lease, forced>>
          /\ active # NoRecord
          /\ Terminal(record)

\* The agent's journal and runtime stand still, whatever else happens.
Waits ==
  /\ QuietStep
  /\ UNCHANGED <<journal, snapshot, runtime, retired>>
  /\ \A call \in late' : call \in late \/ NewCall(call)
  /\ \/ held' \in {held, None}
     \/ held' \in LeaseIds /\ CurrentLease(held') /\ UNCHANGED vars
     \/ held' \in LeaseIds /\ Claim(held')

\* The candidate moves on, or is a new one.
Carries ==
  /\ QuietStep
  /\ journal' = [journal EXCEPT !.candidate = candidate']
  /\ candidate' \in Record /\ candidate'.phase \in Underway
  /\ held' \in {held, None}
  /\ \/ /\ candidate # NoRecord
        /\ candidate'.lease = candidate.lease
        /\ candidate'.phase \in {"started", "cutover"} =>
             candidate.phase \in {"started", "cutover"} \/ Start(candidate.lease)
     \/ /\ held # None
        /\ candidate'.lease = held
        /\ candidate'.phase = "prepared"
        /\ ~Stale(held)
        /\ active.lease # held
  /\ UNCHANGED <<snapshot, runtime, retired, late>>

\* The report of the active generation is answered.
Acknowledges ==
  /\ active # NoRecord
  /\ Apply(active.lease) \/ (AppliedBefore(active.lease) /\ UNCHANGED vars)
  /\ journal' = [journal EXCEPT !.active.acknowledged = TRUE]
  /\ UNCHANGED <<snapshot, runtime, retired, held, late>>

Rejects ==
  /\ active # NoRecord
  /\ LeaseConflict(active.lease)
  /\ journal' = [journal EXCEPT !.active.rejected = TRUE]
  /\ UNCHANGED <<vars, snapshot, runtime, retired, held, late>>

\* The drain of a predecessor is answered.
Drops(record) ==
  /\ active # NoRecord
  /\ Terminal(record)
  /\ journal' = Dropped(record)
  /\ \/ record.rejected /\ UNCHANGED vars
     \/ CompleteDrain(active.lease, record.lease, retired[RevOf(record)] = "forced")
     \/ DrainedBefore(active.lease, record.lease) /\ UNCHANGED vars
  /\ UNCHANGED <<snapshot, runtime, retired, held, late>>

\* The runtime starts, stops, replaces its generation or ends a drain.
Runs ==
  /\ \/ runtime' \in {runtime, snapshot} /\ UNCHANGED retired
     \/ runtime' = 0 /\ retired' = [r \in Revisions |-> "none"]
     \/ /\ candidate # NoRecord
        /\ runtime' = RevOf(candidate)
        /\ retired' = [r \in Revisions |->
             IF r = runtime /\ r # RevOf(candidate) THEN "draining" ELSE retired[r]]
     \/ /\ UNCHANGED runtime
        /\ \E r \in Revisions, outcome \in {"drained", "forced"} :
             retired' = [retired EXCEPT ![r] = outcome]
  /\ held' \in {held, None}
  /\ UNCHANGED <<vars, journal, snapshot, late>>

Saves ==
  /\ candidate # NoRecord
  /\ snapshot' = RevOf(candidate)
  /\ UNCHANGED <<vars, journal, runtime, retired, held, late>>

Finishes ==
  /\ candidate # NoRecord
  /\ candidate.phase \in {"started", "cutover"}
  /\ snapshot = RevOf(candidate)
  /\ runtime = RevOf(candidate)
  /\ journal' = [active |-> [candidate EXCEPT !.phase = "active"], candidate |-> NoRecord,
                 draining |-> Predecessors]
  /\ held = None
  /\ UNCHANGED <<vars, snapshot, runtime, retired, held, late>>

\* A late report arrives.
AppliesLate(l) ==
  /\ <<"applied", l>> \in late
  /\ Apply(l)
  /\ late' \subseteq late
  /\ UNCHANGED <<journal, snapshot, runtime, retired, held>>

DrainsLate(call) ==
  /\ call[1] = "drained"
  /\ CompleteDrain(call[2], call[3], call[4])
  /\ late' \subseteq late
  /\ UNCHANGED <<journal, snapshot, runtime, retired, held>>

\* Every step is one of these.
Moves == \/ Waits \/ Carries \/ Acknowledges \/ Rejects
         \/ \E record \in journal.draining : Drops(record)
         \/ Runs \/ Saves \/ Finishes
         \/ \E l \in LeaseIds : AppliesLate(l)
         \/ \E call \in late : DrainsLate(call)

\* A report that has been answered, or given up.
LEMMA ReportMoves ==
  ASSUME AgentTypeInv, active # NoRecord, NEW acked, NEW rejected, NEW errored,
         ReportApplied(acked, rejected, errored)
  PROVE  /\ Acknowledges \/ Rejects \/ Waits
         /\ pc' \in {acked, rejected, errored}
<1>1. <<"applied", active.lease>> \in LateCalls
  BY RecordTypes DEF Records, LateCalls
<1>2. GivesUp(<<"applied", active.lease>>) => Waits
  BY <1>1 DEF GivesUp, Waits, QuietStep, NewCall
<1>3. Local => Waits
  BY DEF Local, Waits, QuietStep
<1> QED
  BY <1>2, <1>3 DEF ReportApplied, Acknowledges, Rejects, Goto, Saved

\* A pull is a quiet step of the ledger.
LEMMA PullMoves ==
  ASSUME AgentTypeInv, PlaceInv, Pull PROVE Waits
<1>1. CASE Local
  BY <1>1 DEF Waits, Local, QuietStep
<1>2. ASSUME NEW l \in LeaseIds,
             \/ CurrentLease(l) /\ held' = l /\ UNCHANGED vars
             \/ Claim(l) /\ held' = l,
             UNCHANGED <<journal, snapshot, runtime, retired, late>>
      PROVE  Waits
  BY <1>2 DEF Waits, QuietStep
<1>3. CASE ClaimNothing /\ UNCHANGED <<journal, snapshot, runtime, retired, held, late>>
  BY <1>3 DEF Waits, QuietStep
<1>4. CASE Reconcile /\ UNCHANGED agentVars
  BY <1>4 DEF Waits, QuietStep, agentVars
<1>5. CASE GivesUp(<<"pull">>)
  BY <1>5 DEF Waits, GivesUp, QuietStep, NewCall, LateCalls
<1> QED
  BY <1>1, <1>2, <1>3, <1>4, <1>5 DEF Pull

\* A pulled lease is passed over, resumes its candidate or becomes one.
LEMMA AdoptMoves ==
  ASSUME AgentTypeInv, PlaceInv, Adopt PROVE Waits \/ Carries
<1>1. held \in LeaseIds /\ held # None /\ held' = None /\ QuietStep
  BY NoneAssumption DEF Adopt, PlaceInv, AgentTypeInv, QuietStep
<1>2. CASE UNCHANGED journal
  BY <1>1, <1>2 DEF Adopt, Waits
<1>3. ASSUME candidate.lease = held, ~Stale(held), active.lease # held,
             SaveCandidate([candidate EXCEPT !.phase = ResumedPhase])
      PROVE  Carries
  <2>1. candidate \in Record /\ candidate # NoRecord
    BY <1>1, <1>3, RecordTypes DEF Records
  <2>2. /\ journal' = [journal EXCEPT !.candidate = candidate']
        /\ candidate' = [candidate EXCEPT !.phase = ResumedPhase]
    BY <1>3 DEF SaveCandidate, AgentTypeInv
  <2>3. candidate'.lease = candidate.lease /\ candidate'.phase = ResumedPhase
    BY <2>1, <2>2 DEF Record
  <2>4. /\ ResumedPhase \in {"started", "cutover"} => candidate.phase \in {"started", "cutover"}
        /\ ResumedPhase \in Underway
    BY <2>1 DEF ResumedPhase, PlaceInv, Underway
  <2>5. candidate' \in Record
    BY <2>1, <2>2, <2>4 DEF Record, Underway
  <2> QED
    BY <1>1, <2>1, <2>2, <2>3, <2>4, <2>5 DEF Adopt, Carries
<1>4. ASSUME ~Stale(held), active.lease # held,
             SaveCandidate([NoRecord EXCEPT !.lease = held, !.phase = "prepared"])
      PROVE  Carries
  <2>1. /\ journal' = [journal EXCEPT !.candidate = candidate']
        /\ candidate' = [NoRecord EXCEPT !.lease = held, !.phase = "prepared"]
    BY <1>4 DEF SaveCandidate, AgentTypeInv
  <2>2. candidate'.lease = held /\ candidate'.phase = "prepared" /\ candidate' \in Record
    BY <1>1, <2>1 DEF NoRecord, Record
  <2> QED
    BY <1>1, <1>4, <2>1, <2>2 DEF Adopt, Carries, Underway
<1> QED
  BY <1>2, <1>3, <1>4 DEF Adopt

\* The steps of a candidate.
LEMMA CandidateMoves ==
  ASSUME AgentTypeInv, PlaceInv,
         \/ BeforeStart \/ StartRevision \/ ApplyFails \/ SaveCutover \/ ReportFailure
  PROVE  Waits \/ Carries
<1>0. candidate \in Record /\ (candidate # NoRecord => candidate.lease \in LeaseIds)
      /\ NoRecord.phase = "none"
  BY RecordTypes DEF Records, NoRecord
<1>1. ASSUME NEW c, SaveCandidate(c)
      PROVE  candidate' = c /\ journal' = [journal EXCEPT !.candidate = candidate']
  BY <1>1 DEF SaveCandidate, AgentTypeInv
<1>2. CASE BeforeStart
  <2>1. candidate # NoRecord /\ SaveCandidate([candidate EXCEPT !.phase = "starting"])
    BY <1>0, <1>2 DEF BeforeStart, PlaceInv
  <2>2. /\ candidate' = [candidate EXCEPT !.phase = "starting"]
        /\ journal' = [journal EXCEPT !.candidate = candidate']
    BY <1>1, <2>1
  <2>3. /\ candidate'.lease = candidate.lease /\ candidate'.phase = "starting"
        /\ candidate' \in Record
    BY <1>0, <2>2 DEF Record
  <2> QED
    BY <1>2, <2>1, <2>2, <2>3 DEF BeforeStart, Carries, Saved, QuietStep, Underway
<1>3. CASE StartRevision
  <2>1. candidate # NoRecord /\ candidate.lease \in LeaseIds
    BY <1>0, <1>3 DEF StartRevision, PlaceInv
  <2>2. CASE Start(candidate.lease) /\ Saved
             /\ SaveCandidate([candidate EXCEPT !.phase = "started"])
    <3>1. /\ candidate' = [candidate EXCEPT !.phase = "started"]
          /\ journal' = [journal EXCEPT !.candidate = candidate']
      BY <1>1, <2>2
    <3>2. /\ candidate'.lease = candidate.lease /\ candidate'.phase = "started"
          /\ candidate' \in Record
      BY <1>0, <3>1 DEF Record
    <3>3. QuietStep
      BY <2>1, <2>2 DEF QuietStep
    <3> QED
      BY <2>1, <2>2, <3>1, <3>2, <3>3 DEF Carries, Saved, Underway
  <2>3. CASE /\ StartSuperseded(candidate.lease) \/ UNCHANGED vars
             /\ UNCHANGED journal /\ Saved
    BY <2>1, <2>3 DEF Waits, Saved, QuietStep
  <2>4. CASE GivesUp(<<"start", candidate.lease>>)
    BY <2>1, <2>4 DEF Waits, GivesUp, QuietStep, NewCall, LateCalls
  <2> QED
    BY <1>3, <2>2, <2>3, <2>4 DEF StartRevision
<1>4. CASE ApplyFails
  <2>1. UNCHANGED <<vars, snapshot, runtime, retired, held, late>>
    BY <1>4 DEF ApplyFails
  <2>2. CASE UNCHANGED journal
    BY <2>1, <2>2 DEF Waits, QuietStep
  <2>3. CASE SaveCandidate([candidate EXCEPT !.phase = "failed"])
    <3>1. candidate # NoRecord
      BY <1>0, <1>4 DEF ApplyFails, PlaceInv
    <3>2. /\ candidate' = [candidate EXCEPT !.phase = "failed"]
          /\ journal' = [journal EXCEPT !.candidate = candidate']
      BY <1>1, <2>3
    <3>3. /\ candidate'.lease = candidate.lease /\ candidate'.phase = "failed"
          /\ candidate' \in Record
      BY <1>0, <3>2 DEF Record
    <3> QED
      BY <2>1, <3>1, <3>2, <3>3 DEF Carries, QuietStep, Underway
  <2> QED
    BY <1>4, <2>2, <2>3 DEF ApplyFails
<1>5. CASE SaveCutover
  <2>1. /\ candidate # NoRecord /\ candidate.phase \in {"started", "cutover"}
        /\ SaveCandidate([candidate EXCEPT !.phase = "cutover"])
    BY <1>0, <1>5 DEF SaveCutover, PlaceInv
  <2>2. /\ candidate' = [candidate EXCEPT !.phase = "cutover"]
        /\ journal' = [journal EXCEPT !.candidate = candidate']
    BY <1>1, <2>1
  <2>3. /\ candidate'.lease = candidate.lease /\ candidate'.phase = "cutover"
        /\ candidate' \in Record
    BY <1>0, <2>2 DEF Record
  <2> QED
    BY <1>5, <2>1, <2>2, <2>3 DEF SaveCutover, Carries, Saved, QuietStep, Underway
<1>6. CASE ReportFailure
  <2>1. /\ candidate # NoRecord /\ candidate.lease \in LeaseIds /\ candidate.phase = "failed"
    BY <1>0, <1>6 DEF ReportFailure, PlaceInv
  <2>2. CASE Fail(candidate.lease) /\ Saved
             /\ SaveCandidate([candidate EXCEPT !.acknowledged = TRUE])
    <3>1. /\ candidate' = [candidate EXCEPT !.acknowledged = TRUE]
          /\ journal' = [journal EXCEPT !.candidate = candidate']
      BY <1>1, <2>2
    <3>2. /\ candidate'.lease = candidate.lease /\ candidate'.phase = "failed"
          /\ candidate' \in Record
      BY <1>0, <2>1, <3>1 DEF Record
    <3>3. QuietStep
      BY <2>1, <2>2 DEF QuietStep
    <3> QED
      BY <2>1, <2>2, <3>1, <3>2, <3>3 DEF Carries, Saved, Underway
  <2>3. CASE Local
    BY <2>3 DEF Waits, Local, QuietStep
  <2>4. CASE GivesUp(<<"failed", candidate.lease>>)
    BY <2>1, <2>4 DEF Waits, GivesUp, QuietStep, NewCall, LateCalls
  <2> QED
    BY <1>6, <2>2, <2>3, <2>4 DEF ReportFailure, ReportFailed
<1> QED
  BY <1>2, <1>3, <1>4, <1>5, <1>6

\* The reports of predecessors' drains.
LEMMA DrainsMoves ==
  ASSUME AgentTypeInv, PlaceInv, Drains
  PROVE  Waits \/ \E record \in journal.draining : Drops(record)
<1>1. CASE Local
  BY <1>1 DEF Waits, Local, QuietStep
<1>2. ASSUME NEW record \in journal.draining, Oldest(record)
      PROVE  /\ active # NoRecord /\ Terminal(record)
             /\ record.rejected /\ journal' = Dropped(record) /\ UNCHANGED vars /\ Saved
                  => Drops(record)
             /\ ReportDrain(record) => Waits \/ Drops(record)
  <2> DEFINE forced == retired[RevOf(record)] = "forced"
  <2>1. active # NoRecord /\ Terminal(record)
    BY <1>2 DEF Oldest, NoRecord
  <2>2. record.rejected /\ journal' = Dropped(record) /\ UNCHANGED vars /\ Saved
          => Drops(record)
    BY <2>1 DEF Drops, Saved
  <2>3. ASSUME \/ CompleteDrain(active.lease, record.lease, forced)
               \/ DrainedBefore(active.lease, record.lease) /\ UNCHANGED vars,
               journal' = Dropped(record), Saved
        PROVE  Drops(record)
    BY <2>1, <2>3 DEF Drops, Saved
  <2>4. GivesUp(<<"drained", active.lease, record.lease, forced>>) => Waits
    <3>1. /\ active.lease \in LeaseIds /\ record.lease \in LeaseIds
          /\ forced \in BOOLEAN
      BY <2>1, RecordTypes DEF Records, AgentTypeInv, Issued
    <3> HIDE DEF forced
    <3>2. <<"drained", active.lease, record.lease, forced>> \in LateCalls
      BY <3>1 DEF LateCalls
    <3> QED
      BY <2>1, <3>1, <3>2 DEF Waits, GivesUp, QuietStep, NewCall
  <2>5. Local => Waits
    BY DEF Waits, Local, QuietStep
  <2> HIDE DEF forced
  <2>6. ReportDrain(record) =>
          \/ /\ \/ CompleteDrain(active.lease, record.lease, forced)
                \/ DrainedBefore(active.lease, record.lease) /\ UNCHANGED vars
             /\ journal' = Dropped(record) /\ Saved
          \/ Local
          \/ GivesUp(<<"drained", active.lease, record.lease, forced>>)
    BY DEF ReportDrain, forced
  <2> QED
    BY <2>1, <2>2, <2>3, <2>4, <2>5, <2>6
<1> QED
  BY <1>1, <1>2 DEF Drains

\* A late call arrives.
LEMMA LateMoves ==
  ASSUME AgentTypeInv, NEW call \in late, LateArrives(call)
  PROVE  \/ Waits
         \/ \E l \in LeaseIds : AppliesLate(l)
         \/ DrainsLate(call)
<1>1. /\ late' \subseteq late
      /\ UNCHANGED <<journal, snapshot, runtime, retired, held>>
  BY DEF LateArrives
<1>2. QuietStep => Waits
  BY <1>1 DEF Waits
<1>3. CASE call[1] = "pull"
  BY <1>2, <1>3 DEF LateArrives, QuietStep
<1>4. CASE call[1] = "start"
  BY <1>2, <1>4, CallTypes DEF LateArrives, QuietStep
<1>5. CASE call[1] = "failed"
  BY <1>2, <1>5, CallTypes DEF LateArrives, QuietStep
<1>6. CASE call[1] = "applied"
  BY <1>1, <1>6, CallTypes DEF LateArrives, AppliesLate
<1>7. CASE call[1] = "drained"
  BY <1>1, <1>7 DEF LateArrives, DrainsLate
<1> QED
  BY <1>3, <1>4, <1>5, <1>6, <1>7, CallTypes

\* Every step of a sync, of the panel, of the runtime and of the clocks, and every
\* failure, is one of these.
LEMMA SyncMoves ==
  ASSUME AgentTypeInv, PlaceInv, [SyncNext]_allVars PROVE Moves
<1>1. UNCHANGED vars => QuietStep
  BY DEF QuietStep
<1>2. CASE UNCHANGED allVars
  BY <1>1, <1>2 DEF allVars, agentVars, Moves, Waits
<1>3. ASSUME Recover \/ Repeat \/ Report PROVE Moves
  <2>1. active # NoRecord \/ Local
    <3>1. CASE Recover
      BY <3>1 DEF Recover, Unresolved, NoRecord
    <3>2. CASE Repeat \/ Report
      BY <3>2 DEF Repeat, Report, PlaceInv
    <3> QED
      BY <1>3, <3>1, <3>2
  <2>2. Local \/ \E acked, rejected, errored : ReportApplied(acked, rejected, errored)
    BY <1>3 DEF Recover, Repeat, Report
  <2>3. Local => Waits
    BY <1>1 DEF Local, Waits
  <2> QED
    BY <2>1, <2>2, <2>3, ReportMoves DEF Moves
<1>4. ASSUME BeginSync PROVE Runs
  BY <1>4 DEF BeginSync, Runs
<1>5. ASSUME ApplySucceeds PROVE Runs
  <2>1. candidate # NoRecord
    BY <1>5 DEF ApplySucceeds, PlaceInv, NoRecord
  <2> QED
    BY <1>5, <2>1 DEF ApplySucceeds, Runs
<1>6. ASSUME Heartbeat \/ SkipApply PROVE Waits
  BY <1>1, <1>6 DEF Heartbeat, SkipApply, Local, Waits
<1>7. ASSUME SaveAppliedSnapshot PROVE Saves
  BY <1>7 DEF SaveAppliedSnapshot, Saves, PlaceInv, NoRecord
<1>8. ASSUME Finish PROVE Waits \/ Finishes
  <2>1. candidate # NoRecord
    BY <1>8 DEF Finish, PlaceInv, NoRecord
  <2> QED
    BY <1>1, <1>8, <2>1 DEF Finish, Waits, Finishes, Saved, PlaceInv
<1>9. ASSUME Crash PROVE Runs
  BY <1>9 DEF Crash, Runs
<1>10. ASSUME SyncFails PROVE Waits
  BY <1>1, <1>10 DEF SyncFails, Waits
<1>11. ASSUME NEW r \in Revisions, NEW outcome \in {"drained", "forced"},
              RuntimeDrainEnds(r, outcome)
       PROVE  Runs
  BY <1>11 DEF RuntimeDrainEnds, Runs
<1>12. ASSUME NEW k \in Rows, LeaseRunsOut(k) PROVE Waits
  BY <1>12 DEF LeaseRunsOut, Waits, QuietStep
<1>13. ASSUME PanelStep PROVE Waits
  BY <1>13 DEF PanelStep, agentVars, Waits, QuietStep
<1> QED
  BY <1>2, <1>3, <1>4, <1>5, <1>6, <1>7, <1>8, <1>9, <1>10, <1>11, <1>12, <1>13, PullMoves,
     AdoptMoves, CandidateMoves, DrainsMoves, LateMoves DEF SyncNext, SyncStep, Moves

\* And each is a step of the ledger, which keeps the leases.
LEMMA MovesKeepLeases ==
  ASSUME LedgerInv, AgentTypeInv, Moves
  PROVE  /\ LedgerStep
         /\ \A l : Issued(l) =>
              /\ Issued(l)' /\ row'[l] = row[l] /\ RevisionOf(l) \in Revisions
              /\ Dead(l) => Dead(l)'
              /\ Spent(l) => Spent(l)'
              /\ Begun(l) => Begun(l)'
<1>1. active # NoRecord => active.lease \in LeaseIds
  BY RecordTypes DEF Records
<1>2. \A record \in journal.draining : record.lease \in LeaseIds
  BY DEF AgentTypeInv, Issued
<1>3. ASSUME NEW record \in journal.draining, Drops(record) PROVE LedgerStep
  <2> DEFINE forced == retired[RevOf(record)] = "forced"
  <2>1. \/ UNCHANGED vars
        \/ CompleteDrain(active.lease, record.lease, forced)
    BY <1>3 DEF Drops
  <2>2. active.lease \in LeaseIds /\ record.lease \in LeaseIds /\ forced \in BOOLEAN
    BY <1>1, <1>2, <1>3 DEF Drops
  <2> HIDE DEF forced
  <2> QED
    BY <2>1, <2>2 DEF LedgerStep, DrainStep, QuietStep
<1>4. ASSUME NEW call \in late, DrainsLate(call) PROVE LedgerStep
  <2>1. call[2] \in LeaseIds /\ call[3] \in LeaseIds /\ call[4] \in BOOLEAN
    BY <1>4, CallTypes DEF DrainsLate
  <2> QED
    BY <1>4, <2>1 DEF DrainsLate, LedgerStep, DrainStep
<1>5. ASSUME Acknowledges PROVE LedgerStep
  BY <1>1, <1>5 DEF Acknowledges, LedgerStep, QuietStep
<1>6. ASSUME Waits \/ Carries \/ Rejects \/ Runs \/ Saves \/ Finishes PROVE LedgerStep
  BY <1>6 DEF Waits, Carries, Rejects, Runs, Saves, Finishes, LedgerStep, QuietStep
<1>7. ASSUME NEW l \in LeaseIds, AppliesLate(l) PROVE LedgerStep
  BY <1>7 DEF AppliesLate, LedgerStep
<1>8. LedgerStep
  BY <1>3, <1>4, <1>5, <1>6, <1>7 DEF Moves
<1>9. \A l : Issued(l) => row'[l] = row[l]
  BY <1>8, LeasesStay DEF Issued, KeptLease
<1> QED
  BY <1>8, <1>9, DesiredGrows, LeaseFacts

\* The revision of a record or lease the agent has is the same after a step.
LEMMA MovesKeepRevisions ==
  ASSUME LedgerInv, AgentTypeInv, Moves, NEW record, record = NoRecord \/ Issued(record.lease)
  PROVE  /\ RevOf(record)' = RevOf(record) /\ RevOf(record) \in 0 .. MaxRevision
         /\ record # NoRecord => /\ RevOf(record) = RevisionOf(record.lease)
                                 /\ RevOf(record) \in Revisions
         /\ record = NoRecord => RevOf(record) = 0
BY MovesKeepLeases, DesiredGrows, RecordFacts

----------------------------------------------------------------------------
(* Types and places *)

\* The fields of the journal after a change of one of them.
LEMMA JournalFields ==
  ASSUME AgentTypeInv
  PROVE  /\ journal = [active |-> active, candidate |-> candidate,
                       draining |-> journal.draining]
         /\ \A c : [journal EXCEPT !.candidate = c] =
                     [active |-> active, candidate |-> c, draining |-> journal.draining]
         /\ \A d : [journal EXCEPT !.draining = d] =
                     [active |-> active, candidate |-> candidate, draining |-> d]
         /\ [journal EXCEPT !.active.acknowledged = TRUE] =
              [active |-> [active EXCEPT !.acknowledged = TRUE], candidate |-> candidate,
               draining |-> journal.draining]
         /\ [journal EXCEPT !.active.rejected = TRUE] =
              [active |-> [active EXCEPT !.rejected = TRUE], candidate |-> candidate,
               draining |-> journal.draining]
<1>1. journal \in [active : Record, candidate : Record, draining : SUBSET Record]
  BY DEF AgentTypeInv
<1>2. /\ \A c : [journal EXCEPT !.candidate = c] =
                   [active |-> active, candidate |-> c, draining |-> journal.draining]
      /\ \A c : [journal EXCEPT !.active = c] =
                   [active |-> c, candidate |-> candidate, draining |-> journal.draining]
  BY <1>1
<1>3. /\ \A d : [journal EXCEPT !.draining = d] =
                   [active |-> active, candidate |-> candidate, draining |-> d]
      /\ journal = [active |-> active, candidate |-> candidate, draining |-> journal.draining]
  BY <1>1
<1> QED
  BY <1>2, <1>3

\* What a step makes of the journal's records: the active record keeps its lease
\* unless a candidate takes its place, and no drain is new but the active one's.
LEMMA JournalMoves ==
  ASSUME AgentTypeInv, Moves
  PROVE  /\ ~Finishes => /\ active'.lease = active.lease
                         /\ active' = NoRecord <=> active = NoRecord
                         /\ journal'.draining \subseteq journal.draining
         /\ ~Finishes /\ ~Carries => candidate' = candidate
         /\ Finishes => /\ active'.lease = candidate.lease /\ active' # NoRecord
                        /\ active'.acknowledged = candidate.acknowledged
                        /\ active'.rejected = candidate.rejected
                        /\ candidate' = NoRecord
                        /\ journal'.draining \subseteq journal.draining \union {active}
         /\ journal' \in [active : Record, candidate : Record, draining : SUBSET Record]
<1>0. /\ active \in Record /\ candidate \in Record /\ journal.draining \subseteq Record
      /\ NoRecord \in Record /\ NoRecord.lease = None
      /\ journal \in [active : Record, candidate : Record, draining : SUBSET Record]
      /\ active # NoRecord <=> active.lease # None
      /\ candidate # NoRecord <=> candidate.lease # None
  BY RecordTypes DEF AgentTypeInv, NoRecord, Record, Records
<1>1. CASE UNCHANGED journal
  BY <1>0, <1>1 DEF Finishes
<1>2. CASE Carries
  <2>1. /\ journal' = [active |-> active, candidate |-> candidate',
                       draining |-> journal.draining]
        /\ candidate' \in Record
    BY <1>2, JournalFields DEF Carries
  <2> HIDE DEF candidate
  <2>2. active' = active /\ journal'.draining = journal.draining
    BY <2>1
  <2>3. journal' \in [active : Record, candidate : Record, draining : SUBSET Record]
    BY <1>0, <2>1
  <2>4. ~Finishes
    <3>1. ASSUME Finishes PROVE candidate' = NoRecord
      BY <3>1 DEF Finishes, candidate
    <3>2. NoRecord.phase \notin Underway
      BY DEF NoRecord, Underway
    <3> QED
      BY <1>2, <3>1, <3>2 DEF Carries
  <2> QED
    BY <1>2, <2>2, <2>3, <2>4
<1>3. ASSUME NEW a,
             a \in {[active EXCEPT !.acknowledged = TRUE], [active EXCEPT !.rejected = TRUE]},
             active # NoRecord,
             journal' = [active |-> a, candidate |-> candidate, draining |-> journal.draining]
      PROVE  /\ active'.lease = active.lease /\ active' # NoRecord
             /\ journal'.draining = journal.draining /\ candidate' = candidate
             /\ journal' \in [active : Record, candidate : Record, draining : SUBSET Record]
  <2>1. a \in Record /\ a.lease = active.lease
    BY <1>0, <1>3 DEF Record
  <2>2. active' = a /\ candidate' = candidate /\ journal'.draining = journal.draining
    BY <1>3
  <2> QED
    BY <1>0, <1>3, <2>1, <2>2
<1>4. CASE Acknowledges
  <2>1. active # NoRecord
        /\ journal' = [active |-> [active EXCEPT !.acknowledged = TRUE], candidate |-> candidate,
                       draining |-> journal.draining]
    BY <1>4, JournalFields DEF Acknowledges
  <2> QED
    BY <1>0, <1>3, <2>1 DEF Finishes
<1>5. CASE Rejects
  <2>1. active # NoRecord
        /\ journal' = [active |-> [active EXCEPT !.rejected = TRUE], candidate |-> candidate,
                       draining |-> journal.draining]
    BY <1>5, JournalFields DEF Rejects
  <2> QED
    BY <1>0, <1>3, <2>1 DEF Finishes
<1>6. ASSUME NEW record \in journal.draining, Drops(record)
      PROVE  /\ active' = active /\ candidate' = candidate
             /\ journal'.draining \subseteq journal.draining
             /\ journal' \in [active : Record, candidate : Record, draining : SUBSET Record]
  <2>1. journal' = [active |-> active, candidate |-> candidate,
                    draining |-> journal.draining \ {record}]
    BY <1>6, JournalFields DEF Drops, Dropped
  <2> QED
    BY <1>0, <2>1
<1>7. CASE Finishes
  <2> DEFINE a == [candidate EXCEPT !.phase = "active"]
  <2>1. journal' = [active |-> a, candidate |-> NoRecord, draining |-> Predecessors]
        /\ candidate # NoRecord
    BY <1>7 DEF Finishes
  <2>2. /\ a \in Record /\ a.lease = candidate.lease
        /\ a.acknowledged = candidate.acknowledged /\ a.rejected = candidate.rejected
    BY <1>0 DEF Record
  <2>3. Predecessors \subseteq journal.draining \union {active}
    BY DEF Predecessors
  <2> HIDE DEF a
  <2>4. active' = a /\ candidate' = NoRecord /\ journal'.draining = Predecessors
    BY <2>1
  <2>5. journal' \in [active : Record, candidate : Record, draining : SUBSET Record]
    BY <1>0, <2>1, <2>2, <2>3
  <2>6. a # NoRecord
    BY <1>0, <2>1, <2>2
  <2>7. ~Carries
    <3>1. NoRecord.phase \notin Underway
      BY DEF NoRecord, Underway
    <3> QED
      BY <2>4, <3>1 DEF Carries
  <2> QED
    BY <1>7, <2>2, <2>3, <2>4, <2>5, <2>6, <2>7
<1>8. ASSUME NEW record \in journal.draining, Drops(record) PROVE ~Finishes
  BY <1>6, <1>8 DEF Finishes
<1>9. CASE \E record \in journal.draining : Drops(record)
  BY <1>0, <1>6, <1>8, <1>9
<1>10. \/ UNCHANGED journal \/ Carries \/ Acknowledges \/ Rejects \/ Finishes
       \/ \E record \in journal.draining : Drops(record)
  BY DEF Moves, Waits, Runs, Saves, AppliesLate, DrainsLate
<1> QED
  BY <1>1, <1>2, <1>4, <1>5, <1>7, <1>9, <1>10

\* A step keeps the types, and what it adds to the agent's leases is given out.
LEMMA TypeNext ==
  ASSUME LedgerInv, AgentTypeInv, Moves PROVE AgentTypeInv'
<1>0. /\ \A l : Issued(l) => Issued(l)'
      /\ LedgerInv'
  BY MovesKeepLeases, LedgerStepIsNext, LedgerNext
<1>1. journal' \in [active : Record, candidate : Record, draining : SUBSET Record]
  BY JournalMoves
<1>2. /\ active = NoRecord \/ Issued(active.lease)
      /\ candidate = NoRecord \/ Issued(candidate.lease)
      /\ held # None => Issued(held)
      /\ \A record \in journal.draining : Issued(record.lease)
      /\ RevOf(candidate) \in 0 .. MaxRevision
  BY MovesKeepRevisions DEF AgentTypeInv
<1>3. snapshot' \in 0 .. MaxRevision
  BY <1>2 DEF AgentTypeInv, Moves, Waits, Carries, Acknowledges, Rejects, Drops, Runs, Saves,
              Finishes, AppliesLate, DrainsLate
<1>4. runtime' \in 0 .. MaxRevision
      /\ retired' \in [Revisions -> {"none", "draining", "drained", "forced"}]
  <2>1. CASE Runs
    <3>1. runtime' \in 0 .. MaxRevision
      BY <1>2, <2>1, Numbers DEF Runs, AgentTypeInv
    <3>2. retired \in [Revisions -> {"none", "draining", "drained", "forced"}]
      BY DEF AgentTypeInv
    <3>3. \/ UNCHANGED retired
          \/ retired' = [r \in Revisions |-> "none"]
          \/ retired' = [r \in Revisions |->
               IF r = runtime /\ r # RevOf(candidate) THEN "draining" ELSE retired[r]]
          \/ \E r \in Revisions, outcome \in {"drained", "forced"} :
               retired' = [retired EXCEPT ![r] = outcome]
      BY <2>1 DEF Runs
    <3> QED
      BY <3>1, <3>2, <3>3
  <2>2. CASE UNCHANGED <<runtime, retired>>
    BY <2>2 DEF AgentTypeInv
  <2> QED
    BY <2>1, <2>2 DEF Moves, Waits, Carries, Acknowledges, Rejects, Drops, Saves, Finishes,
                      AppliesLate, DrainsLate
<1>5. held' # None => held' \in LeaseIds /\ Issued(held)'
  <2>1. ASSUME held' \in LeaseIds, CurrentLease(held'), UNCHANGED vars PROVE Issued(held)'
    BY <2>1 DEF CurrentLease, Active, Issued, vars
  <2>2. ASSUME held' \in LeaseIds, Claim(held') PROVE Issued(held)'
    <3>1. /\ row' = [row EXCEPT ![held'] = NextRow]
          /\ desired \in Revisions
      BY <2>2 DEF Claim, Claimable, Known
    <3>2. NextRow \in Rows
      <4>1. /\ revision[desired].cycle \in Cycles /\ revision[desired].count \in Nat
            /\ revision[desired].count <= MaxAttempts
        BY <3>1, Fields DEF LedgerInv
      <4>2. revision[desired].count + 1 \in Ordinals
        BY <4>1, Numbers
      <4> QED
        BY <3>1, <4>1, <4>2, Coordinates DEF NextRow
    <3>3. row \in [LeaseIds -> Rows \union {None}]
      BY DEF LedgerInv, TypeOK
    <3> QED
      BY <2>2, <3>1, <3>2, <3>3 DEF Issued
  <2>3. ASSUME held' = held, held # None PROVE held' \in LeaseIds /\ Issued(held)'
    BY <1>0, <1>2, <2>3 DEF Issued
  <2>4. \/ held' \in {held, None}
        \/ held' \in LeaseIds /\ CurrentLease(held') /\ UNCHANGED vars
        \/ held' \in LeaseIds /\ Claim(held')
    BY DEF Moves, Waits, Carries, Acknowledges, Rejects, Drops, Runs, Saves, Finishes,
           AppliesLate, DrainsLate
  <2> QED
    BY <2>1, <2>2, <2>3, <2>4
<1>6. ASSUME NEW call \in late'
      PROVE  /\ call \in LateCalls
             /\ call[1] = "applied" => Issued(call[2])'
             /\ call[1] = "drained" => Issued(call[3])'
  <2>1. call \in late \/ NewCall(call)
    BY <1>6 DEF Moves, Waits, Carries, Acknowledges, Rejects, Drops, Runs, Saves, Finishes,
                AppliesLate, DrainsLate
  <2>2. /\ call \in LateCalls
        /\ call[1] = "applied" => Issued(call[2])
        /\ call[1] = "drained" => Issued(call[3])
    <3>1. CASE call \in late
      BY <3>1 DEF AgentTypeInv
    <3>2. CASE NewCall(call)
      BY <1>2, <3>2 DEF NewCall
    <3> QED
      BY <2>1, <3>1, <3>2
  <2> QED
    BY <1>0, <2>2
<1>7. /\ active' = NoRecord \/ Issued(active.lease)'
      /\ candidate' = NoRecord \/ Issued(candidate.lease)'
      /\ \A record \in journal'.draining : Issued(record.lease)'
  <2>1. CASE Finishes
    <3>1. active # NoRecord \/ journal'.draining \subseteq journal.draining
      BY <2>1, RecordTypes DEF Finishes, Predecessors, Records
    <3>2. /\ active'.lease = candidate.lease /\ candidate' = NoRecord
          /\ journal'.draining \subseteq journal.draining \union {active}
      BY <2>1, JournalMoves
    <3>3. Issued(candidate.lease)
      BY <1>2, <2>1 DEF Finishes
    <3>4. Issued(active.lease)'
      BY <1>0, <3>2, <3>3 DEF Issued
    <3>5. \A record \in journal'.draining : Issued(record.lease)'
      BY <1>0, <1>2, <3>1, <3>2
    <3> QED
      BY <3>2, <3>4, <3>5
  <2>2. ASSUME ~Finishes
        PROVE  /\ active' = NoRecord \/ Issued(active.lease)'
               /\ candidate' = NoRecord \/ Issued(candidate.lease)'
               /\ \A record \in journal'.draining : Issued(record.lease)'
    <3>1. /\ active'.lease = active.lease /\ (active' = NoRecord <=> active = NoRecord)
          /\ journal'.draining \subseteq journal.draining
      BY <2>2, JournalMoves
    <3>2. \/ candidate' = candidate
          \/ candidate'.lease = candidate.lease /\ candidate # NoRecord
          \/ candidate'.lease = held /\ held # None
      BY <2>2, JournalMoves DEF Carries
    <3>3. active' = NoRecord \/ Issued(active.lease)'
      BY <1>0, <1>2, <3>1 DEF Issued
    <3>4. candidate' = NoRecord \/ Issued(candidate.lease)'
      BY <1>0, <1>2, <3>2 DEF Issued
    <3> QED
      BY <1>0, <1>2, <3>1, <3>3, <3>4
  <2> QED
    BY <2>1, <2>2
<1>8. late' \subseteq LateCalls /\ held' \in LeaseIds \union {None}
  BY <1>5, <1>6
<1>9. /\ \A call \in late' : /\ call[1] = "applied" => Issued(call[2])'
                             /\ call[1] = "drained" => Issued(call[3])'
      /\ held' # None => Issued(held)'
  BY <1>5, <1>6
<1> QED
  BY <1>1, <1>3, <1>4, <1>7, <1>8, <1>9 DEF AgentTypeInv, Issued

\* What is left to show of a step that leads to a place where nothing is asked of
\* the candidate's phase.
LEMMA ElsewhereNext ==
  ASSUME PlaceInv, held' = None,
         \/ pc' \in {"idle", "recover", "drains", "heartbeat", "pull", "closing"}
         \/ pc' \in {"report", "repeat"} /\ active' # NoRecord,
         candidate' \in {candidate, NoRecord}
  PROVE  PlaceInv'
<1> HIDE DEF active, candidate
<1>1. /\ candidate' # NoRecord => candidate'.phase \in Underway
      /\ candidate'.acknowledged => candidate'.phase = "failed"
      /\ ~candidate'.rejected
  <2>1. ~NoRecord.acknowledged /\ ~NoRecord.rejected
    BY DEF NoRecord
  <2> QED
    BY <2>1 DEF PlaceInv
<1> QED
  BY <1>1 DEF PlaceInv, Places

\* A report leads elsewhere.
LEMMA ReportPlace ==
  ASSUME AgentTypeInv, PlaceInv, active # NoRecord, pc # "leased",
         NEW acked \in {"drains", "closing", "idle"}, NEW rejected \in {"drains", "idle"},
         NEW errored \in {"heartbeat", "idle"}, ReportApplied(acked, rejected, errored)
  PROVE  PlaceInv'
<1>1. pc' \in {acked, rejected, errored} /\ (Acknowledges \/ Rejects \/ Waits)
  BY ReportMoves
<1>2. candidate' = candidate
  BY <1>1, JournalMoves, JournalFields DEF Moves, Acknowledges, Rejects, Waits
<1>3. held' = None
  BY DEF PlaceInv, ReportApplied, Saved, Local, GivesUp
<1> QED
  BY <1>1, <1>2, <1>3, ElsewhereNext

\* The steps of the panel, the runtime and the clocks leave the sync where it is.
LEMMA StandingPlace ==
  ASSUME LedgerInv, AgentTypeInv, PlaceInv, Moves, UNCHANGED <<journal, snapshot, pc, held>>
  PROVE  PlaceInv'
<1>1. RevOf(candidate)' = RevOf(candidate)
  <2>1. candidate = NoRecord \/ Issued(candidate.lease)
    BY DEF AgentTypeInv
  <2>2. candidate # NoRecord => row'[candidate.lease] = row[candidate.lease]
    BY <2>1, MovesKeepLeases
  <2> QED
    BY <2>1, <2>2 DEF RevOf, RevisionOf, NoRecord
<1> QED
  BY <1>1 DEF PlaceInv

\* The dispatch on the pulled lease (performRevisionSyncPlan).
LEMMA AdoptPlace ==
  ASSUME AgentTypeInv, PlaceInv, Adopt PROVE PlaceInv'
<1>1. held \in LeaseIds /\ held # None /\ held' = None /\ UNCHANGED <<vars, snapshot>>
  BY NoneAssumption DEF Adopt, PlaceInv, AgentTypeInv
<1>2. CASE Goto(IF Stale(held) \/ ~Unresolved THEN "idle" ELSE "repeat") /\ UNCHANGED journal
  <2>1. Unresolved => active # NoRecord
    BY DEF Unresolved, NoRecord
  <2> QED
    BY <1>1, <1>2, <2>1, ElsewhereNext DEF Goto
<1>3. ASSUME candidate.lease = held, Goto(Resume),
             SaveCandidate([candidate EXCEPT !.phase = ResumedPhase])
      PROVE  PlaceInv'
  <2>1. candidate \in Record /\ candidate # NoRecord /\ candidate.phase \in Underway
    BY <1>1, <1>3, RecordTypes DEF Records, PlaceInv
  <2>2. candidate' = [candidate EXCEPT !.phase = ResumedPhase]
    BY <1>3 DEF SaveCandidate, AgentTypeInv
  <2>3. /\ candidate'.lease = candidate.lease /\ candidate'.phase = ResumedPhase
        /\ candidate'.acknowledged = candidate.acknowledged
        /\ candidate'.rejected = candidate.rejected
    BY <2>1, <2>2 DEF Record
  <2>4. RevOf(candidate)' = RevOf(candidate)
    BY <1>1, <2>3 DEF RevOf, RevisionOf, vars
  <2>5. /\ ResumedPhase \in Underway
        /\ ResumedPhase = "failed" <=> candidate.phase = "failed"
    BY <2>1 DEF ResumedPhase, Underway
  <2>6. \/ pc' = "idle"
        \/ pc' = "failing" /\ ResumedPhase = "failed"
        \/ pc' = "prepared" /\ ResumedPhase = "prepared"
        \/ pc' = "started" /\ ResumedPhase \in {"started", "cutover"}
        \/ pc' = "finish" /\ ResumedPhase = "cutover" /\ snapshot = RevOf(candidate)
    BY <1>3, <2>5 DEF Goto, Resume, Underway
  <2> HIDE DEF candidate
  <2> QED
    BY <1>1, <2>1, <2>3, <2>4, <2>5, <2>6 DEF PlaceInv, Places
<1>4. ASSUME SaveCandidate([NoRecord EXCEPT !.lease = held, !.phase = "prepared"]),
             Goto("prepared")
      PROVE  PlaceInv'
  <2>1. candidate' = [NoRecord EXCEPT !.lease = held, !.phase = "prepared"]
    BY <1>4 DEF SaveCandidate, AgentTypeInv
  <2>2. /\ candidate'.phase = "prepared" /\ ~candidate'.acknowledged /\ ~candidate'.rejected
    BY <2>1 DEF NoRecord
  <2> HIDE DEF candidate
  <2> QED
    BY <1>1, <1>4, <2>2 DEF PlaceInv, Places, Goto, Underway
<1> QED
  BY <1>2, <1>3, <1>4 DEF Adopt

\* The steps of a candidate.
LEMMA CandidatePlace ==
  ASSUME AgentTypeInv, PlaceInv,
         \/ BeforeStart \/ StartRevision \/ ApplyFails \/ SaveCutover \/ ReportFailure
  PROVE  PlaceInv'
<1>0. /\ candidate \in Record
      /\ \A c : SaveCandidate(c) => candidate' = c
      /\ pc # "leased" => held = None
  BY RecordTypes DEF Records, SaveCandidate, AgentTypeInv, PlaceInv
<1>1. ASSUME pc' = "idle", UNCHANGED <<journal, held>>, pc # "leased"
      PROVE  PlaceInv'
  BY <1>0, <1>1, ElsewhereNext
<1>2. ASSUME NEW phase \in Underway, candidate' = [candidate EXCEPT !.phase = phase],
             candidate.acknowledged => phase = "failed",
             \/ pc' = "start" /\ phase = "starting"
             \/ pc' = "started" /\ phase = "started"
             \/ pc' = "cutover" /\ phase = "cutover"
             \/ pc' = "failing" /\ phase = "failed",
             UNCHANGED held, pc # "leased"
      PROVE  PlaceInv'
  <2>1. /\ candidate'.phase = phase
        /\ candidate'.acknowledged = candidate.acknowledged
        /\ candidate'.rejected = candidate.rejected
    BY <1>0, <1>2 DEF Record
  <2> HIDE DEF candidate
  <2> QED
    BY <1>0, <1>2, <2>1 DEF PlaceInv, Places
<1>3. CASE BeforeStart
  <2>1. /\ candidate' = [candidate EXCEPT !.phase = "starting"] /\ ~candidate.acknowledged
        /\ pc = "prepared" /\ pc' = "start" /\ UNCHANGED held
    BY <1>0, <1>3 DEF BeforeStart, PlaceInv, Goto, Saved
  <2> QED
    BY <1>2, <2>1 DEF Underway
<1>4. CASE StartRevision
  <2>1. CASE pc' = "idle" /\ UNCHANGED <<journal, held>>
    BY <1>1, <1>4, <2>1 DEF StartRevision
  <2>2. CASE SaveCandidate([candidate EXCEPT !.phase = "started"]) /\ Goto("started") /\ Saved
    <3>1. /\ candidate' = [candidate EXCEPT !.phase = "started"] /\ ~candidate.acknowledged
          /\ pc = "start" /\ pc' = "started" /\ UNCHANGED held
      BY <1>0, <1>4, <2>2 DEF StartRevision, PlaceInv, Goto, Saved
    <3> QED
      BY <1>2, <3>1 DEF Underway
  <2> QED
    BY <1>4, <2>1, <2>2 DEF StartRevision, Goto, Saved, GivesUp
<1>5. CASE ApplyFails
  <2>1. pc = "started" /\ UNCHANGED held
    BY <1>5 DEF ApplyFails
  <2>2. CASE pc' = "idle" /\ UNCHANGED journal
    BY <1>1, <2>1, <2>2
  <2>3. CASE pc' = "failing" /\ SaveCandidate([candidate EXCEPT !.phase = "failed"])
    <3>1. candidate' = [candidate EXCEPT !.phase = "failed"]
      BY <1>0, <2>3
    <3> QED
      BY <1>2, <2>1, <2>3, <3>1 DEF Underway
  <2> QED
    BY <1>5, <2>2, <2>3 DEF ApplyFails, Goto
<1>6. CASE SaveCutover
  <2>1. /\ candidate' = [candidate EXCEPT !.phase = "cutover"] /\ ~candidate.acknowledged
        /\ pc = "applied" /\ pc' = "cutover" /\ UNCHANGED held
    BY <1>0, <1>6 DEF SaveCutover, PlaceInv, Goto, Saved
  <2> QED
    BY <1>2, <2>1 DEF Underway
<1>7. CASE ReportFailure
  <2>1. pc = "failing" /\ pc' = "idle" /\ UNCHANGED held
    BY <1>7 DEF ReportFailure, ReportFailed, Goto, Saved, Local, GivesUp
  <2>2. CASE UNCHANGED journal
    BY <1>1, <2>1, <2>2
  <2>3. CASE SaveCandidate([candidate EXCEPT !.acknowledged = TRUE])
    <3>1. candidate' = [candidate EXCEPT !.acknowledged = TRUE] /\ candidate.phase = "failed"
          /\ ~candidate.rejected
      BY <1>0, <2>1, <2>3 DEF PlaceInv
    <3>2. candidate'.phase = "failed" /\ ~candidate'.rejected
      BY <1>0, <3>1 DEF Record
    <3> HIDE DEF candidate
    <3> QED
      BY <1>0, <2>1, <3>2 DEF PlaceInv, Places, Underway
  <2> QED
    BY <1>7, <2>2, <2>3 DEF ReportFailure, ReportFailed, Local, GivesUp
<1> QED
  BY <1>3, <1>4, <1>5, <1>6, <1>7

\* Every step leads to a place the journal is fit for.
LEMMA PlaceNext ==
  ASSUME LedgerInv, AgentTypeInv, PlaceInv, [SyncNext]_allVars PROVE PlaceInv'
<1>0. Moves
  BY SyncMoves
<1>1. UNCHANGED <<journal, snapshot, pc, held>> => PlaceInv'
  BY <1>0, StandingPlace
<1>2. ASSUME UNCHANGED journal, held' = None,
             pc' \in {"idle", "recover", "drains", "heartbeat", "pull", "closing"}
      PROVE  PlaceInv'
  BY <1>2, ElsewhereNext
<1>3. pc # "leased" => held = None
  BY DEF PlaceInv
<1>4. ASSUME Recover PROVE PlaceInv'
  <2>1. CASE UNCHANGED journal /\ UNCHANGED held /\ pc' \in {"drains", "heartbeat"}
    BY <1>2, <1>3, <1>4, <2>1 DEF Recover
  <2>2. CASE Unresolved /\ ReportApplied("drains", "drains", "heartbeat")
    BY <1>4, <2>2, ReportPlace DEF Recover, Unresolved, NoRecord
  <2> QED
    BY <1>4, <2>1, <2>2 DEF Recover, Goto, Local
<1>5. ASSUME Repeat PROVE PlaceInv'
  <2>1. CASE pc' = "idle" /\ UNCHANGED <<journal, held>>
    BY <1>2, <1>3, <1>5, <2>1 DEF Repeat
  <2>2. CASE ReportApplied("idle", "idle", "idle")
    BY <1>5, <2>2, ReportPlace DEF Repeat, PlaceInv
  <2> QED
    BY <1>5, <2>1, <2>2 DEF Repeat, Goto, Local
<1>6. ASSUME Report PROVE PlaceInv'
  BY <1>6, ReportPlace DEF Report, PlaceInv
<1>7. ASSUME Drains PROVE PlaceInv'
  <2>1. /\ UNCHANGED held /\ held = None
        /\ pc' \in {"idle", "drains", "heartbeat", "closing"}
    BY <1>3, <1>7 DEF Drains, Goto, AfterDrains, ReportDrain, Local, Saved, GivesUp
  <2>2. candidate' = candidate
    <3>1. UNCHANGED journal \/ \E record : journal' = Dropped(record)
      BY <1>7 DEF Drains, ReportDrain, Local, GivesUp
    <3> QED
      BY <3>1, JournalFields DEF Dropped
  <2> QED
    BY <2>1, <2>2, ElsewhereNext
<1>8. ASSUME Pull PROVE PlaceInv'
  <2>1. UNCHANGED <<journal, snapshot>> /\ pc = "pull" /\ held = None
    BY <1>3, <1>8 DEF Pull, Local, GivesUp, agentVars
  <2>2. CASE pc' = "idle" /\ UNCHANGED held
    BY <1>2, <2>1, <2>2
  <2>3. CASE UNCHANGED agentVars
    BY <1>1, <2>3 DEF agentVars
  <2>4. CASE pc' = "leased" /\ held' \in LeaseIds
    BY <2>1, <2>4, NoneAssumption DEF PlaceInv, Places
  <2> QED
    BY <1>8, <2>2, <2>3, <2>4 DEF Pull, Goto, Local, GivesUp
<1>9. ASSUME BeginSync \/ Heartbeat \/ Crash \/ SyncFails PROVE PlaceInv'
  BY <1>2, <1>3, <1>9 DEF BeginSync, Heartbeat, Crash, SyncFails, Goto, Local
<1>10. ASSUME ApplySucceeds PROVE PlaceInv'
  <2>1. /\ UNCHANGED journal /\ held' = None /\ pc' = "applied"
        /\ candidate.phase \in {"started", "cutover"}
    BY <1>3, <1>10 DEF ApplySucceeds, Goto, PlaceInv
  <2> QED
    BY <2>1 DEF PlaceInv, Places
<1>11. ASSUME SkipApply \/ SaveAppliedSnapshot PROVE PlaceInv'
  <2>1. /\ UNCHANGED <<journal, vars>> /\ held' = None
        /\ candidate.phase \in {"started", "cutover"}
        /\ \/ pc' = "idle"
           \/ pc' = "finish" /\ snapshot' = RevOf(candidate)
    BY <1>3, <1>11 DEF SkipApply, SaveAppliedSnapshot, AlreadyActive, Goto, Local, PlaceInv
  <2>2. RevOf(candidate)' = RevOf(candidate)
    BY <2>1 DEF RevOf, RevisionOf, vars
  <2> QED
    BY <2>1, <2>2 DEF PlaceInv, Places
<1>12. ASSUME Finish PROVE PlaceInv'
  <2>1. CASE UNCHANGED journal /\ pc' = "idle" /\ UNCHANGED held
    BY <1>2, <1>3, <1>12, <2>1 DEF Finish
  <2>2. CASE /\ journal' = [active |-> [candidate EXCEPT !.phase = "active"],
                            candidate |-> NoRecord, draining |-> Predecessors]
             /\ pc' = "report" /\ UNCHANGED held
    <3>1. candidate \in Record /\ candidate # NoRecord
      BY <1>12, RecordTypes DEF Finish, PlaceInv, NoRecord, Records
    <3>2. active' # NoRecord
      BY <2>2, <3>1, RecordTypes DEF Record, NoRecord, Records
    <3> QED
      BY <1>3, <1>12, <2>2, <3>2, ElsewhereNext DEF Finish
  <2> QED
    BY <1>12, <2>1, <2>2 DEF Finish, Goto, Saved
<1>13. ASSUME UNCHANGED allVars \/ PanelStep PROVE PlaceInv'
  BY <1>1, <1>13 DEF PanelStep, allVars, agentVars
<1>14. ASSUME \/ \E call \in late : LateArrives(call)
              \/ \E r \in Revisions, outcome \in {"drained", "forced"} :
                   RuntimeDrainEnds(r, outcome)
              \/ \E k \in Rows : LeaseRunsOut(k)
       PROVE  PlaceInv'
  BY <1>1, <1>14 DEF LateArrives, RuntimeDrainEnds, LeaseRunsOut
<1> QED
  BY <1>4, <1>5, <1>6, <1>7, <1>8, <1>9, <1>10, <1>11, <1>12, <1>13, <1>14, AdoptPlace,
     CandidatePlace DEF SyncNext, SyncStep

----------------------------------------------------------------------------
(* The order of the revisions *)

\* The revisions of the records after a step.
LEMMA RevisionMoves ==
  ASSUME LedgerInv, AgentTypeInv, Moves
  PROVE  /\ RevOf(active)' = IF Finishes THEN RevOf(candidate) ELSE RevOf(active)
         /\ Carries => \/ candidate # NoRecord /\ RevOf(candidate)' = RevOf(candidate)
                       \/ /\ held # None /\ ~Stale(held)
                          /\ RevOf(candidate)' = RevisionOf(held)
         /\ ~Carries /\ ~Finishes => RevOf(candidate)' = RevOf(candidate)
         /\ \A record \in Records : RevOf(record)' = RevOf(record)
         /\ \A record \in Records : RevOf(record) \in Nat
         /\ held # None => RevisionOf(held) \in Nat
<1>0. \A record \in Records : record = NoRecord \/ Issued(record.lease)
  BY RecordTypes
<1>1. \A record \in Records : RevOf(record)' = RevOf(record) /\ RevOf(record) \in Nat
  BY <1>0, MovesKeepRevisions, Numbers
<1>2. held # None => Issued(held) /\ RevisionOf(held) \in Nat /\ row'[held] = row[held]
  BY MovesKeepLeases, Numbers DEF AgentTypeInv
<1>3. /\ active \in Records /\ candidate \in Records
      /\ active # NoRecord => row'[active.lease] = row[active.lease]
      /\ candidate # NoRecord => row'[candidate.lease] = row[candidate.lease]
      /\ active # NoRecord <=> active.lease # None
      /\ candidate # NoRecord <=> candidate.lease # None
  BY MovesKeepLeases, RecordTypes DEF Records
<1>4. RevOf(active)' = IF Finishes THEN RevOf(candidate) ELSE RevOf(active)
  <2>1. CASE Finishes
    <3>1. active'.lease = candidate.lease /\ candidate # NoRecord
      BY <2>1, JournalMoves DEF Finishes
    <3> QED
      BY <1>3, <2>1, <3>1 DEF RevOf, RevisionOf
  <2>2. CASE ~Finishes
    <3>1. active'.lease = active.lease
      BY <2>2, JournalMoves
    <3> QED
      BY <1>3, <2>2, <3>1 DEF RevOf, RevisionOf
  <2> QED
    BY <2>1, <2>2
<1>5. ASSUME Carries
      PROVE  \/ candidate # NoRecord /\ RevOf(candidate)' = RevOf(candidate)
             \/ /\ held # None /\ ~Stale(held)
                /\ RevOf(candidate)' = RevisionOf(held)
  <2>1. CASE candidate # NoRecord /\ candidate'.lease = candidate.lease
    BY <1>3, <2>1 DEF RevOf, RevisionOf
  <2>2. CASE held # None /\ candidate'.lease = held /\ ~Stale(held)
    BY <1>2, <2>2 DEF RevOf, RevisionOf
  <2> QED
    BY <1>5, <2>1, <2>2 DEF Carries
<1>6. ASSUME ~Carries, ~Finishes PROVE RevOf(candidate)' = RevOf(candidate)
  <2>1. candidate' = candidate
    BY <1>6, JournalMoves
  <2> QED
    BY <1>3, <2>1 DEF RevOf, RevisionOf
<1> QED
  BY <1>1, <1>2, <1>4, <1>5, <1>6

\* Only the active lease can be applied, however late the report.
LEMMA OnlyActiveApplies ==
  ASSUME LedgerInv, AgentTypeInv, NewestInv, NEW l \in LeaseIds, AppliesLate(l)
  PROVE  l = active.lease /\ active # NoRecord
<1>1. ~Dead(l)
  BY ApplyMoves DEF AppliesLate, Spent
<1>2. <<"applied", l>>[1] = "applied" /\ <<"applied", l>>[2] = l
  OBVIOUS
<1>3. l = active.lease
  BY <1>1, <1>2 DEF NewestInv, AppliesLate
<1> QED
  BY <1>3, NoneAssumption DEF NoRecord

\* What the ledger calls applied changes to the active revision only.
LEMMA AppliedMoves ==
  ASSUME LedgerInv, AgentTypeInv, NewestInv, Moves
  PROVE  applied' = applied \/ (applied' = RevOf(active) /\ ~Finishes)
<1>1. ASSUME QuietStep PROVE applied' = applied
  BY <1>1, QuietMoves
<1>2. ASSUME active # NoRecord, Apply(active.lease), ~Finishes
      PROVE  applied' = RevOf(active) /\ ~Finishes
  BY <1>2, ApplyMoves, RecordTypes, MovesKeepRevisions DEF Records
<1>3. ASSUME NEW record \in journal.draining, Drops(record) PROVE applied' = applied
  <2> DEFINE forced == retired[RevOf(record)] = "forced"
  <2>1. UNCHANGED vars \/ CompleteDrain(active.lease, record.lease, forced)
    BY <1>3 DEF Drops
  <2>2. active.lease \in LeaseIds /\ record.lease \in LeaseIds /\ forced \in BOOLEAN
    BY <1>3, RecordTypes DEF Drops, Records, AgentTypeInv, Issued
  <2> HIDE DEF forced
  <2> QED
    BY <2>1, <2>2, DrainMoves DEF vars
<1>4. ASSUME NEW call \in late, DrainsLate(call) PROVE applied' = applied
  <2>1. call[2] \in LeaseIds /\ call[3] \in LeaseIds /\ call[4] \in BOOLEAN
    BY <1>4, CallTypes DEF DrainsLate
  <2> QED
    BY <1>4, <2>1, DrainMoves DEF DrainsLate
<1>5. ASSUME NEW l \in LeaseIds, AppliesLate(l) PROVE applied' = RevOf(active) /\ ~Finishes
  <2>1. l = active.lease /\ active # NoRecord
    BY <1>5, OnlyActiveApplies
  <2>2. ~Finishes
    BY <1>5, JournalMoves, RecordTypes DEF AppliesLate, Finishes, Records
  <2> QED
    BY <1>2, <1>5, <2>1, <2>2 DEF AppliesLate
<1>6. ASSUME Acknowledges PROVE applied' = applied \/ (applied' = RevOf(active) /\ ~Finishes)
  <2>1. ~Finishes
    <3>1. candidate' = candidate
      BY <1>6, JournalFields DEF Acknowledges
    <3> QED
      BY <3>1 DEF Finishes
  <2> QED
    BY <1>2, <1>6, <2>1 DEF Acknowledges, vars
<1>7. ASSUME Waits \/ Carries PROVE QuietStep
  BY <1>7 DEF Waits, Carries
<1>8. ASSUME Rejects \/ Runs \/ Saves \/ Finishes PROVE QuietStep
  BY <1>8 DEF Rejects, Runs, Saves, Finishes, QuietStep
<1> QED
  BY <1>1, <1>3, <1>4, <1>5, <1>6, <1>7, <1>8 DEF Moves

\* The revisions stay in order.
LEMMA OrderNext ==
  ASSUME LedgerInv, AgentTypeInv, OrderInv, NewestInv, Moves PROVE OrderInv'
<1>0. /\ \A record \in Records : RevOf(record)' = RevOf(record) /\ RevOf(record) \in Nat
      /\ active \in Records /\ candidate \in Records /\ journal.draining \subseteq Records
      /\ snapshot \in Nat /\ runtime \in Nat /\ applied \in Nat
      /\ active = NoRecord => RevOf(active) = 0
      /\ candidate = NoRecord => RevOf(candidate) = 0
  BY RevisionMoves, Fields, Numbers DEF Records, AgentTypeInv, LedgerInv, RevOf, NoRecord
<1>1. CASE Finishes
  <2>1. /\ RevOf(active)' = RevOf(candidate) /\ candidate' = NoRecord
        /\ snapshot' = snapshot /\ runtime' = runtime /\ candidate # NoRecord
        /\ snapshot = RevOf(candidate) /\ runtime = RevOf(candidate)
        /\ applied' = applied
    BY <1>1, RevisionMoves, JournalMoves DEF Finishes, vars
  <2>2. RevOf(active) <= RevOf(candidate)
    BY <1>0, <2>1 DEF OrderInv
  <2>3. ASSUME NEW record \in journal'.draining PROVE RevOf(record)' < RevOf(candidate)
    <3>1. CASE record \in journal.draining
      BY <1>0, <2>2, <3>1 DEF OrderInv
    <3>2. CASE record = active /\ RevOf(active) < RevOf(candidate)
      BY <1>0, <3>2
    <3>3. journal'.draining = Predecessors
      BY <1>1 DEF Finishes
    <3> QED
      BY <2>3, <3>1, <3>2, <3>3 DEF Predecessors
  <2>4. applied' <= RevOf(candidate)
    BY <1>0, <2>1, <2>2 DEF OrderInv
  <2>5. RevOf(active)' <= snapshot'
    BY <1>0, <2>1
  <2> HIDE DEF active, candidate
  <2> QED
    BY <1>0, <2>1, <2>3, <2>4, <2>5 DEF OrderInv
<1>2. ASSUME ~Finishes PROVE OrderInv'
  <2>1. /\ RevOf(active)' = RevOf(active)
        /\ journal'.draining \subseteq journal.draining
    BY <1>2, RevisionMoves, JournalMoves
  <2>2. applied' <= RevOf(active)
    BY <1>0, AppliedMoves DEF OrderInv
  <2>3. \A record \in journal'.draining : RevOf(record)' < RevOf(active)
    BY <1>0, <2>1 DEF OrderInv
  <2>4. RevOf(active) <= snapshot' /\ (runtime' # 0 => RevOf(active) <= runtime')
    <3>1. candidate # NoRecord => RevOf(active) <= RevOf(candidate)
      BY <1>0 DEF OrderInv
    <3>2. \/ snapshot' = snapshot
          \/ snapshot' = RevOf(candidate) /\ candidate # NoRecord
      BY <1>2 DEF Moves, Waits, Carries, Acknowledges, Rejects, Drops, Runs, Saves, AppliesLate,
                  DrainsLate
    <3>3. \/ runtime' \in {0, runtime, snapshot}
          \/ runtime' = RevOf(candidate) /\ candidate # NoRecord
      BY <1>2 DEF Moves, Waits, Carries, Acknowledges, Rejects, Drops, Runs, Saves, AppliesLate,
                  DrainsLate
    <3> QED
      BY <1>0, <3>1, <3>2, <3>3 DEF OrderInv
  <2>5. /\ candidate' = NoRecord => snapshot' <= RevOf(active)
        /\ candidate' # NoRecord => snapshot' <= RevOf(candidate)'
    <3>1. CASE Carries
      <4>1. snapshot' = snapshot /\ candidate' # NoRecord
        BY <3>1 DEF Carries, Underway, NoRecord
      <4>2. CASE RevOf(candidate)' = RevOf(candidate) /\ candidate # NoRecord
        BY <1>0, <4>1, <4>2 DEF OrderInv
      <4>3. CASE ~Stale(held) /\ RevOf(candidate)' = RevisionOf(held) /\ held # None
        <5>1. /\ ~(RevisionOf(held) < RevOf(active))
              /\ ~(RevisionOf(held) < RevOf(candidate))
          BY <4>3 DEF Stale, Floor
        <5>2. RevisionOf(held) \in Nat
          BY <4>3, RevisionMoves
        <5> QED
          BY <1>0, <4>1, <4>3, <5>1, <5>2 DEF OrderInv
      <4> QED
        BY <3>1, <4>2, <4>3, RevisionMoves
    <3>2. CASE ~Carries
      <4>1. RevOf(candidate)' = RevOf(candidate) /\ candidate' = candidate
        BY <1>2, <3>2, RevisionMoves, JournalMoves
      <4>2. \/ snapshot' = snapshot
            \/ snapshot' = RevOf(candidate) /\ candidate # NoRecord
        BY <1>2 DEF Moves, Waits, Carries, Acknowledges, Rejects, Drops, Runs, Saves,
                    AppliesLate, DrainsLate
      <4> QED
        BY <1>0, <4>1, <4>2 DEF OrderInv
    <3> QED
      BY <3>1, <3>2
  <2> HIDE DEF active, candidate
  <2> QED
    BY <2>1, <2>2, <2>3, <2>4, <2>5 DEF OrderInv
<1> QED
  BY <1>1, <1>2

----------------------------------------------------------------------------
(* The newest lease *)

\* A lease that cannot be applied any more gets no generation.
LEMMA NoneStays ==
  ASSUME LedgerInv, LedgerStep, NEW l \in LeaseIds, Spent(l), generation[l].state = "none"
  PROVE  generation'[l].state = "none"
<1>1. CASE QuietStep
  BY <1>1, QuietMoves DEF QuietChange
<1>2. ASSUME NEW m \in LeaseIds, Apply(m) PROVE generation'[l].state = "none"
  <2>1. m # l
    BY <1>2, ApplyMoves
  <2> QED
    BY <1>2, <2>1, ApplyMoves
<1>3. ASSUME NEW g \in LeaseIds, DrainStep(g) PROVE generation'[l].state = "none"
  <2>1. generation[g].state = "draining" /\ \A q \in LeaseIds : q # g => generation'[q] = generation[q]
    BY <1>3, DrainMoves DEF DrainStep
  <2> QED
    BY <2>1
<1> QED
  BY <1>1, <1>2, <1>3 DEF LedgerStep

\* A lease that has made way stays out of the way.
LEMMA MadeWayStays ==
  ASSUME LedgerInv, AgentTypeInv, Moves, NEW l, NEW m, Issued(l), Issued(m), MadeWay(l, m)
  PROVE  MadeWay(l, m)'
<1>1. /\ Dead(l)' /\ Spent(l) /\ row'[l] = row[l] /\ row'[m] = row[m] /\ l \in LeaseIds
      /\ LedgerStep
  BY MovesKeepLeases DEF MadeWay, Spent, Issued
<1>2. generation[l].state = "none" => generation'[l].state = "none"
  BY <1>1, NoneStays
<1> QED
  BY <1>1, <1>2 DEF MadeWay, RevisionOf

\* A generation belongs to an applied revision.
LEMMA GenerationsAreApplied ==
  ASSUME LedgerInv, CarriedInv, NEW l \in LeaseIds, generation[l].state # "none"
  PROVE  /\ row[l] \in Rows /\ attempt[row[l]].state = "applied" /\ attempt[row[l]].lease = l
         /\ revision[RevisionOf(l)].state = "applied"
         /\ revision[RevisionOf(l)].cycle = row[l][2]
         /\ revision[RevisionOf(l)].count = row[l][3]
BY DEF LedgerInv, GenerationInv, CarriedInv, RevisionOf

\* The panel answers a pull with the current lease only when every other one has
\* made way (currentRemoteLease).
LEMMA CurrentMakesWay ==
  ASSUME LedgerInv, CarriedInv, NEW l \in LeaseIds, CurrentLease(l), NEW a, Issued(a), a # l
  PROVE  MadeWay(a, l)
<1>1. row[l] \in Active /\ attempt[row[l]].lease = l /\ row[l] \in Rows
  BY DEF CurrentLease, Active
<1>2. revision[RevisionOf(l)].state # "applied"
  BY <1>1 DEF LedgerInv, BusyInv, RevisionOf, Active
<1>3. Dead(a)
  <2>1. ASSUME attempt[row[a]].lease = a, attempt[row[a]].state \in {"leased", "started"}
        PROVE  FALSE
    <3>1. row[a] \in Active
      BY <2>1 DEF Active, Issued
    <3>2. row[a] = row[l]
      BY <1>1, <3>1 DEF LedgerInv, BusyInv
    <3> QED
      BY <1>1, <2>1, <3>2
  <2> QED
    BY <2>1 DEF Dead
<1>4. RevisionOf(a) = RevisionOf(l) => generation[a].state = "none"
  BY <1>2, GenerationsAreApplied DEF Issued
<1> QED
  BY <1>3, <1>4 DEF MadeWay

\* And gives out a new lease only when it ends the ones before
\* (ClaimLatestAgentRevision).
LEMMA ClaimMakesWay ==
  ASSUME LedgerInv, CarriedInv, NEW l \in LeaseIds, Claim(l), NEW a, Issued(a), a # l
  PROVE  MadeWay(a, l)'
<1>0. /\ TypeOK /\ row \in [LeaseIds -> Rows \union {None}]
      /\ a \in LeaseIds /\ row[a] \in Rows
  BY DEF LedgerInv, TypeOK, Issued
<1>1. /\ row' = [row EXCEPT ![l] = NextRow] /\ UNCHANGED generation
      /\ attempt' = [AttemptsExpired EXCEPT ![NextRow] =
                       [state |-> "leased", lease |-> l, expired |-> FALSE]]
      /\ revision[desired].state = "pending"
      /\ ClaimAllowed
  BY DEF Claim, Claimable
<1>2. row'[a] = row[a] /\ RevisionOf(l)' = desired
  BY <1>0, <1>1 DEF RevisionOf, NextRow
<1>3. AttemptsExpired = [k \in Rows |-> AttemptsExpired[k]]
  BY DEF AttemptsExpired
<1>4. AttemptsExpired[row[a]].state \notin {"leased", "started"}
  BY <1>0, <1>1, ClaimSweeps
<1>5. Dead(a)'
  <2>1. CASE row[a] = NextRow
    <3>1. attempt'[row[a]].lease = l
      BY <1>0, <1>1, <1>3, <2>1
    <3> QED
      BY <1>2, <3>1 DEF Dead
  <2>2. CASE row[a] # NextRow
    <3>1. attempt'[row[a]] = AttemptsExpired[row[a]]
      BY <1>0, <1>1, <1>3, <2>2
    <3> QED
      BY <1>2, <1>4, <3>1 DEF Dead
  <2> QED
    BY <2>1, <2>2
<1>6. RevisionOf(a) = desired => generation[a].state = "none"
  BY <1>0, <1>1, GenerationsAreApplied
<1> QED
  BY <1>1, <1>2, <1>5, <1>6 DEF MadeWay, RevisionOf

\* The runtime does not begin to drain what is older than the active generation.
LEMMA RetiredMoves ==
  ASSUME LedgerInv, AgentTypeInv, OrderInv, Moves, NEW r \in Revisions, r < RevOf(active),
         retired'[r] = "draining"
  PROVE  retired[r] = "draining"
<1>1. CASE UNCHANGED retired
  BY <1>1
<1>2. CASE retired' = [q \in Revisions |-> "none"]
  BY <1>2
<1>3. ASSUME NEW q \in Revisions, NEW outcome \in {"drained", "forced"},
             retired' = [retired EXCEPT ![q] = outcome]
      PROVE  retired[r] = "draining"
  BY <1>3 DEF AgentTypeInv
<1>4. CASE retired' = [q \in Revisions |->
             IF q = runtime /\ q # RevOf(candidate) THEN "draining" ELSE retired[q]]
  <2>1. r # runtime
    <3>1. RevOf(active) \in Nat /\ r \in Nat /\ runtime \in Nat /\ r # 0
      BY RevisionMoves, Numbers DEF AgentTypeInv, Records
    <3> QED
      BY <3>1 DEF OrderInv
  <2> QED
    BY <1>4, <2>1
<1> QED
  BY <1>1, <1>2, <1>3, <1>4
     DEF Moves, Waits, Carries, Acknowledges, Rejects, Drops, Runs, Saves, Finishes,
         AppliesLate, DrainsLate

\* Of the leases the agent holds, the newest alone may still be applied.
LEMMA NewestNext ==
  ASSUME LedgerInv, CarriedInv, AgentTypeInv, OrderInv, NewestInv, Moves PROVE NewestInv'
<1>0. /\ \A l : Issued(l) => (Dead(l) => Dead(l)') /\ row'[l] = row[l]
                             /\ RevisionOf(l) \in Revisions
      /\ active # NoRecord => Issued(active.lease)
      /\ candidate # NoRecord => Issued(candidate.lease)
      /\ held # None => Issued(held)
      /\ \A record \in journal.draining : Issued(record.lease)
  BY MovesKeepLeases DEF AgentTypeInv
<1>1. ASSUME NEW record \in journal'.draining PROVE Dead(record.lease)'
  <2>1. CASE record \in journal.draining
    BY <1>0, <2>1 DEF NewestInv
  <2>2. CASE record \notin journal.draining
    <3>1. Finishes
      BY <1>1, <2>2, JournalMoves
    <3>2. record = active /\ active # NoRecord /\ candidate # NoRecord
      BY <1>1, <2>2, <3>1 DEF Finishes, Predecessors, NoRecord
    <3>3. Dead(active.lease)
      BY <3>2 DEF NewestInv, MadeWay
    <3> QED
      BY <1>0, <3>2, <3>3
  <2> QED
    BY <2>1, <2>2
<1>2. ASSUME NEW a, NEW c, a = active'.lease, c = candidate'.lease,
             active' # NoRecord, candidate' # NoRecord
      PROVE  MadeWay(a, c)'
  <2>1. ~Finishes
    BY <1>2, JournalMoves
  <2>2. a = active.lease /\ active # NoRecord
    BY <1>2, <2>1, JournalMoves
  <2>3. \/ c = candidate.lease /\ candidate # NoRecord
        \/ c = held /\ held # None /\ a # held
    BY <1>2, <2>1, <2>2, JournalMoves DEF Carries
  <2>4. MadeWay(a, c) /\ Issued(a) /\ Issued(c)
    BY <1>0, <2>2, <2>3 DEF NewestInv
  <2> QED
    BY <2>4, MadeWayStays
<1>3. ASSUME NEW a, NEW h, a = active'.lease, h = held', active' # NoRecord,
             h \notin {None, a}
      PROVE  MadeWay(a, h)'
  <2>1. ~Finishes
    BY <1>3 DEF Finishes
  <2>2. a = active.lease /\ active # NoRecord
    BY <1>3, <2>1, JournalMoves
  <2>3. CASE h = held
    <3>1. MadeWay(a, h) /\ Issued(a) /\ Issued(h)
      BY <1>0, <1>3, <2>2, <2>3 DEF NewestInv
    <3> QED
      BY <3>1, MadeWayStays
  <2>4. CASE h \in LeaseIds /\ CurrentLease(h) /\ UNCHANGED vars
    <3>1. MadeWay(a, h)
      BY <1>0, <1>3, <2>2, <2>4, CurrentMakesWay
    <3> QED
      BY <2>4, <3>1 DEF MadeWay, Dead, RevisionOf, vars
  <2>5. CASE h \in LeaseIds /\ Claim(h)
    BY <1>0, <1>3, <2>2, <2>5, ClaimMakesWay
  <2>6. \/ held' \in {held, None}
        \/ held' \in LeaseIds /\ CurrentLease(held') /\ UNCHANGED vars
        \/ held' \in LeaseIds /\ Claim(held')
    BY DEF Moves, Waits, Carries, Acknowledges, Rejects, Drops, Runs, Saves, Finishes,
           AppliesLate, DrainsLate
  <2> QED
    BY <1>3, <2>3, <2>4, <2>5, <2>6
<1>4. ASSUME NEW call \in late', call[1] = "applied"
      PROVE  call[2] = active'.lease \/ Dead(call[2])'
  <2>1. call \in late \/ (NewCall(call) /\ Waits)
    BY <1>4 DEF Moves, Waits, Carries, Acknowledges, Rejects, Drops, Runs, Saves, Finishes,
                AppliesLate, DrainsLate
  <2>2. CASE call \in late
    <3>1. Issued(call[2]) /\ (call[2] = active.lease \/ Dead(call[2]))
      BY <1>4, <2>2 DEF NewestInv, AgentTypeInv
    <3>2. CASE Finishes
      <4>1. call[2] = active.lease => active # NoRecord
        BY <3>1, NoneAssumption DEF NoRecord, Issued
      <4>2. call[2] = active.lease => Dead(call[2])
        BY <3>2, <4>1 DEF Finishes, NewestInv, MadeWay
      <4> QED
        BY <1>0, <3>1, <4>2
    <3>3. CASE ~Finishes
      BY <1>0, <3>1, <3>3, JournalMoves
    <3> QED
      BY <3>2, <3>3
  <2>3. CASE NewCall(call) /\ Waits
    BY <1>4, <2>3 DEF NewCall, Waits
  <2> QED
    BY <2>1, <2>2, <2>3
<1>5. ASSUME NEW call \in late', call[1] = "drained"
      PROVE  /\ RevisionOf(call[3])' < RevOf(active)'
             /\ retired'[RevisionOf(call[3])'] # "draining"
  <2>1. call \in late \/ (NewCall(call) /\ Waits)
    BY <1>5 DEF Moves, Waits, Carries, Acknowledges, Rejects, Drops, Runs, Saves, Finishes,
                AppliesLate, DrainsLate
  <2>2. /\ Issued(call[3]) /\ RevisionOf(call[3]) < RevOf(active)
        /\ retired[RevisionOf(call[3])] # "draining"
    <3>1. CASE call \in late
      BY <1>5, <3>1 DEF NewestInv, AgentTypeInv
    <3>2. CASE NewCall(call)
      <4>1. PICK record \in journal.draining : call[3] = record.lease /\ Terminal(record)
        BY <1>5, <3>2 DEF NewCall
      <4>2. RevOf(record) < RevOf(active) /\ RevOf(record) = RevisionOf(record.lease)
        BY <1>0, NoneAssumption DEF OrderInv, RevOf, Issued
      <4> QED
        BY <1>0, <4>1, <4>2 DEF Terminal
    <3> QED
      BY <2>1, <3>1, <3>2
  <2>3. RevisionOf(call[3])' = RevisionOf(call[3]) /\ RevisionOf(call[3]) \in Revisions
    BY <1>0, <2>2 DEF RevisionOf
  <2>4. RevOf(active) <= RevOf(active)' /\ RevOf(active) \in Nat /\ RevOf(active)' \in Nat
    <3>1. /\ RevOf(active) \in Nat /\ RevOf(candidate) \in Nat /\ snapshot \in Nat
          /\ RevOf(active)' = IF Finishes THEN RevOf(candidate) ELSE RevOf(active)
      BY RevisionMoves, Numbers DEF Records, AgentTypeInv
    <3> QED
      BY <3>1 DEF OrderInv, Finishes
  <2>5. retired'[RevisionOf(call[3])] # "draining"
    BY <2>2, <2>3, RetiredMoves
  <2> QED
    BY <2>2, <2>3, <2>4, <2>5, Numbers
<1> QED
  BY <1>1, <1>2, <1>3, <1>4, <1>5 DEF NewestInv

----------------------------------------------------------------------------
(* What the ledger says of the agent *)

\* The answers the active record has had.
LEMMA AnswerMoves ==
  ASSUME AgentTypeInv, Moves, ~Finishes
  PROVE  /\ ~Acknowledges => active'.acknowledged = active.acknowledged
         /\ ~Rejects => active'.rejected = active.rejected
<1>0. active \in Record
  BY RecordTypes DEF Records
<1>1. CASE UNCHANGED journal
  BY <1>1
<1>2. CASE Acknowledges
  <2>1. active' = [active EXCEPT !.acknowledged = TRUE]
    BY <1>2, JournalFields DEF Acknowledges
  <2> QED
    BY <1>0, <1>2, <2>1 DEF Record
<1>3. CASE Rejects
  <2>1. active' = [active EXCEPT !.rejected = TRUE]
    BY <1>3, JournalFields DEF Rejects
  <2> QED
    BY <1>0, <1>3, <2>1 DEF Record
<1>4. CASE Carries
  <2>1. active' = active
    BY <1>4, JournalFields DEF Carries
  <2> QED
    BY <2>1
<1>5. ASSUME NEW record \in journal.draining, Drops(record) PROVE active' = active
  BY <1>5, JournalFields DEF Drops, Dropped
<1> QED
  BY <1>1, <1>2, <1>3, <1>4, <1>5 DEF Moves, Waits, Runs, Saves, AppliesLate, DrainsLate

\* What a step does to a generation: the active lease's may become active, one that
\* drains is settled, and the rest is quiet.
LEMMA GenerationMoves ==
  ASSUME LedgerInv, AgentTypeInv, OrderInv, NewestInv, Moves, NEW g \in LeaseIds
  PROVE  \/ QuietChange(generation[g].state, generation'[g].state)
         \/ /\ generation[g].state = "active" /\ generation'[g].state = "draining"
            /\ g # active.lease
         \/ /\ g = active.lease /\ active # NoRecord /\ ~Finishes
            /\ generation'[g].state = "active"
         \/ /\ generation[g].state = "draining" /\ generation'[g].state = "forced"
         \/ /\ generation[g].state = "draining" /\ generation'[g].state = "drained"
            /\ Issued(g) /\ RevisionOf(g) < RevOf(active) /\ ~Finishes
            /\ retired' = retired
            /\ retired[RevisionOf(g)] # "draining"
<1> DEFINE Goal == \/ QuietChange(generation[g].state, generation'[g].state)
                   \/ /\ generation[g].state = "active" /\ generation'[g].state = "draining"
                      /\ g # active.lease
                   \/ /\ g = active.lease /\ active # NoRecord /\ ~Finishes
                      /\ generation'[g].state = "active"
                   \/ /\ generation[g].state = "draining" /\ generation'[g].state = "forced"
                   \/ /\ generation[g].state = "draining" /\ generation'[g].state = "drained"
                      /\ Issued(g) /\ RevisionOf(g) < RevOf(active) /\ ~Finishes
                      /\ retired' = retired
                      /\ retired[RevisionOf(g)] # "draining"
<1>1. QuietStep => Goal
  BY QuietMoves
<1>2. ASSUME active # NoRecord, Apply(active.lease), ~Finishes PROVE Goal
  <2>1. active.lease \in LeaseIds
    BY <1>2, RecordTypes DEF Records
  <2>2. CASE g = active.lease
    BY <1>2, <2>1, <2>2, ApplyMoves
  <2>3. CASE g # active.lease
    <3>1. generation'[g].state = IF generation[g].state = "active" THEN "draining"
                                                                   ELSE generation[g].state
      BY <1>2, <2>1, <2>3, ApplyMoves
    <3> QED
      BY <2>3, <3>1 DEF QuietChange
  <2> QED
    BY <2>2, <2>3
<1>3. ASSUME NEW l \in LeaseIds, AppliesLate(l) PROVE Goal
  <2>1. l = active.lease /\ active # NoRecord
    BY <1>3, OnlyActiveApplies
  <2>2. ~Finishes
    BY <1>3, RecordTypes DEF AppliesLate, Finishes, Records
  <2> HIDE DEF Goal
  <2> QED
    BY <1>2, <1>3, <2>1, <2>2 DEF AppliesLate
<1>4. ASSUME Acknowledges PROVE Goal
  <2>1. ~Finishes
    <3>1. candidate' = candidate
      BY <1>4, JournalFields DEF Acknowledges
    <3> QED
      BY <3>1 DEF Finishes
  <2>2. UNCHANGED vars => QuietStep
    BY DEF QuietStep
  <2> HIDE DEF Goal
  <2> QED
    BY <1>1, <1>2, <1>4, <2>1, <2>2 DEF Acknowledges
<1>5. ASSUME NEW l \in LeaseIds, NEW d \in LeaseIds, NEW forced \in BOOLEAN,
             CompleteDrain(l, d, forced), Issued(d), RevisionOf(d) < RevOf(active),
             ~Finishes, retired' = retired,
             ~forced => retired[RevisionOf(d)] # "draining"
      PROVE  Goal
  <2>1. /\ generation[d].state = "draining" /\ generation'[d].state \in {"drained", "forced"}
        /\ forced => generation'[d].state = "forced"
        /\ \A q \in LeaseIds : q # d => generation'[q] = generation[q]
    BY <1>5, DrainMoves
  <2>2. CASE g # d
    BY <2>1, <2>2 DEF QuietChange
  <2>3. CASE g = d /\ generation'[d].state = "forced"
    BY <2>1, <2>3
  <2>4. CASE g = d /\ generation'[d].state = "drained"
    BY <1>5, <2>1, <2>4
  <2> QED
    BY <2>1, <2>2, <2>3, <2>4
<1>6. ASSUME NEW record \in journal.draining, Drops(record) PROVE Goal
  <2> DEFINE forced == retired[RevOf(record)] = "forced"
  <2>1. UNCHANGED vars \/ CompleteDrain(active.lease, record.lease, forced)
    BY <1>6 DEF Drops
  <2>2. /\ active.lease \in LeaseIds /\ record.lease \in LeaseIds /\ forced \in BOOLEAN
        /\ Issued(record.lease)
    BY <1>6, RecordTypes DEF Drops, Records, AgentTypeInv, Issued
  <2>3. RevOf(record) = RevisionOf(record.lease)
    BY <2>2, NoneAssumption DEF RevOf
  <2>4. RevisionOf(record.lease) < RevOf(active)
    BY <2>3 DEF OrderInv
  <2>5. ~forced => retired[RevisionOf(record.lease)] # "draining"
    BY <1>6, <2>3 DEF Drops, Terminal
  <2>6. ~Finishes /\ retired' = retired
    <3>1. candidate' = candidate
      BY <1>6, JournalFields DEF Drops, Dropped
    <3> QED
      BY <1>6, <3>1 DEF Finishes, Drops
  <2>7. UNCHANGED vars => QuietStep
    BY DEF QuietStep
  <2> HIDE DEF forced, Goal
  <2> QED
    BY <1>1, <1>5, <2>1, <2>2, <2>4, <2>5, <2>6, <2>7
<1>7. ASSUME NEW call \in late, DrainsLate(call) PROVE Goal
  <2>1. /\ call[2] \in LeaseIds /\ call[3] \in LeaseIds /\ call[4] \in BOOLEAN
        /\ call[1] = "drained" /\ CompleteDrain(call[2], call[3], call[4])
    BY <1>7, CallTypes DEF DrainsLate
  <2>2. /\ Issued(call[3]) /\ RevisionOf(call[3]) < RevOf(active)
        /\ retired[RevisionOf(call[3])] # "draining"
    BY <2>1 DEF AgentTypeInv, NewestInv
  <2>3. ~Finishes /\ retired' = retired
    BY <1>7, RecordTypes DEF DrainsLate, Finishes, Records
  <2> HIDE DEF Goal
  <2> QED
    BY <1>5, <2>1, <2>2, <2>3
<1>8. ASSUME Waits \/ Carries PROVE QuietStep
  BY <1>8 DEF Waits, Carries
<1>9. ASSUME Rejects \/ Runs \/ Saves \/ Finishes PROVE QuietStep
  BY <1>9 DEF Rejects, Runs, Saves, Finishes, QuietStep
<1> HIDE DEF Goal
<1>10. Goal
  BY <1>1, <1>3, <1>4, <1>6, <1>7, <1>8, <1>9 DEF Moves
<1> QED
  BY <1>10 DEF Goal

\* The panel rejects a report for good: the lease has no generation and gets none.
LEMMA RejectedIsSpent ==
  ASSUME LedgerInv, CarriedInv, NEW l, Issued(l), Begun(l), LeaseConflict(l)
  PROVE  generation[l].state = "none" /\ Spent(l)
<1> DEFINE k == row[l]
           r == row[l][1]
<1>0. /\ l \in LeaseIds /\ k \in Rows /\ r \in Revisions /\ r \in Nat
      /\ desired \in Nat /\ applied \in Nat /\ applied <= desired
  BY Coordinates, Fields, Numbers DEF Issued, LedgerInv, PointerInv
<1>1. ASSUME generation[l].state # "none" PROVE FALSE
  <2>1. /\ attempt[k].state = "applied" /\ attempt[k].lease = l
        /\ revision[r].state = "applied" /\ revision[r].cycle = k[2]
        /\ revision[r].count = k[3]
    BY <1>0, <1>1, GenerationsAreApplied DEF RevisionOf
  <2>2. LeaseAccepted(l)
    BY <2>1 DEF LeaseAccepted
  <2> QED
    BY <2>1, <2>2 DEF LeaseConflict
<1>2. ASSUME attempt[k].lease = l, attempt[k].state \in {"leased", "started"},
             ~attempt[k].expired, ~(desired > r)
      PROVE  FALSE
  <2>1. attempt[k].state = "started"
    BY <1>2 DEF Begun
  <2>2. k \in Active
    BY <1>0, <2>1 DEF Active
  <2>3. /\ k[2] = revision[r].cycle /\ revision[r].state = "applying"
        /\ revision[r].count = k[3] /\ k[1] = r
    BY <2>1, <2>2 DEF LedgerInv, BusyInv
  <2>4. LeaseAccepted(l)
    BY <1>2, <2>1, <2>3 DEF LeaseAccepted
  <2>5. r \in Open
    BY <1>0, <2>3 DEF Open
  <2>6. r <= desired
    BY <2>5 DEF LedgerInv, PointerInv
  <2>7. desired # r \/ applied > r
    BY <2>4 DEF LeaseConflict, RevisionOf
  <2> QED
    BY <1>0, <1>2, <2>6, <2>7
<1>3. Spent(l)
  BY <1>2 DEF Spent, Dead, RevisionOf
<1> QED
  BY <1>1, <1>3


\* A record leaves the journal's drains only when the ledger drains its generation
\* no more.
LEMMA DropsAreSettled ==
  ASSUME LedgerInv, AgentTypeInv, TruthInv, Moves,
         NEW record \in journal.draining, record \notin journal'.draining
  PROVE  generation'[record.lease].state \notin {"active", "draining"}
<1> DEFINE g == record.lease
<1>1. g \in LeaseIds
  BY DEF AgentTypeInv, Issued
<1>2. Drops(record)
  <2>1. ASSUME NEW other \in journal.draining, Drops(other) PROVE other = record
    <3>1. journal'.draining = journal.draining \ {other}
      BY <2>1, JournalFields DEF Drops, Dropped
    <3> QED
      BY <3>1
  <2>2. ~(Waits \/ Runs \/ Saves \/ (\E l \in LeaseIds : AppliesLate(l))
            \/ \E call \in late : DrainsLate(call))
    BY DEF Waits, Runs, Saves, AppliesLate, DrainsLate
  <2>3. ~(Carries \/ Acknowledges \/ Rejects)
    BY JournalFields DEF Carries, Acknowledges, Rejects
  <2>4. ~Finishes
    BY DEF Finishes, Predecessors
  <2> QED
    BY <2>1, <2>2, <2>3, <2>4 DEF Moves
<1>3. CASE record.rejected /\ UNCHANGED vars
  BY <1>3 DEF TruthInv, LedgerIsTrue, vars
<1>4. CASE CompleteDrain(active.lease, g, retired[RevOf(record)] = "forced")
  <2>1. active.lease \in LeaseIds
    BY <1>2, RecordTypes DEF Drops, Records
  <2>2. generation'[g].state \in {"drained", "forced"}
    BY <1>1, <1>4, <2>1, DrainMoves
  <2> QED
    BY <2>2
<1>5. CASE DrainedBefore(active.lease, g) /\ UNCHANGED vars
  BY <1>5 DEF DrainedBefore, vars
<1> QED
  BY <1>2, <1>3, <1>4, <1>5 DEF Drops

\* The panel waits only for generations the journal has (appendDrainingGeneration).
LEMMA WaitedForNext ==
  ASSUME LedgerInv, AgentTypeInv, OrderInv, NewestInv, TruthInv, Moves,
         NEW g \in LeaseIds, generation'[g].state \in {"active", "draining"}
  PROVE  \/ g = active'.lease
         \/ \E record \in journal'.draining : g = record.lease
<1>1. \/ generation[g].state \in {"active", "draining"}
      \/ g = active.lease /\ ~Finishes
  BY GenerationMoves DEF QuietChange
<1>2. CASE g = active.lease /\ ~Finishes
  BY <1>2, JournalMoves
<1>3. CASE g = active.lease /\ generation[g].state \in {"active", "draining"} /\ Finishes
  <2>1. active # NoRecord /\ candidate # NoRecord
    BY <1>3, RecordTypes, NoneAssumption DEF Records, Finishes
  <2>2. /\ RevOf(active) \in Nat /\ RevOf(candidate) \in Nat
        /\ RevOf(active) = RevisionOf(active.lease)
        /\ RevOf(candidate) = RevisionOf(candidate.lease)
    BY <2>1, RevisionMoves, RecordTypes, NoneAssumption DEF Records, RevOf
  <2>3. RevOf(active) <= RevOf(candidate)
    BY <1>3 DEF OrderInv, Finishes
  <2>4. RevOf(active) # RevOf(candidate)
    BY <1>3, <2>1, <2>2 DEF NewestInv, MadeWay
  <2>5. active \in Predecessors
    BY <1>3, <2>2, <2>3, <2>4, NoneAssumption DEF Predecessors
  <2>6. journal'.draining = Predecessors
    BY <1>3 DEF Finishes
  <2> QED
    BY <1>3, <2>5, <2>6
<1>4. ASSUME NEW record \in journal.draining, g = record.lease
      PROVE  \E other \in journal'.draining : g = other.lease
  BY <1>4, DropsAreSettled
<1>5. generation[g].state \in {"active", "draining"} =>
        g = active.lease \/ \E record \in journal.draining : g = record.lease
  BY DEF TruthInv, LedgerIsTrue, Generations, Draining
<1> QED
  BY <1>1, <1>2, <1>3, <1>4, <1>5

\* An acknowledged generation is the ledger's active one (resolveAppliedRevisionReport).
LEMMA AcknowledgedNext ==
  ASSUME LedgerInv, AgentTypeInv, PlaceInv, OrderInv, NewestInv, TruthInv, Moves,
         active'.acknowledged
  PROVE  generation'[active'.lease].state = "active"
<1>1. ~Finishes
  BY JournalMoves DEF PlaceInv, Finishes
<1>2. active'.lease = active.lease
  BY <1>1, JournalMoves
<1>3. CASE Acknowledges
  <2>1. active.lease \in LeaseIds /\ Issued(active.lease)
    BY <1>3, RecordTypes DEF Acknowledges, Records
  <2>2. CASE Apply(active.lease)
    BY <1>2, <2>1, <2>2, ApplyMoves
  <2>3. CASE AppliedBefore(active.lease) /\ UNCHANGED vars
    <3>1. /\ applied = RevisionOf(active.lease)
          /\ revision[applied].generation = active.lease
      BY <2>3 DEF AppliedBefore
    <3>2. applied > 0
      BY <2>1, <3>1, Coordinates, Numbers DEF Issued, RevisionOf
    <3>3. generation[active.lease].state = "active"
      BY <2>1, <3>1, <3>2 DEF LedgerInv, GenerationInv
    <3> QED
      BY <1>2, <2>3, <3>3 DEF vars
  <2> QED
    BY <1>3, <2>2, <2>3 DEF Acknowledges
<1>4. CASE ~Acknowledges
  <2>1. active.acknowledged
    BY <1>1, <1>4, AnswerMoves
  <2>2. active.lease \in LeaseIds
    BY <2>1, RecordTypes DEF Records, NoRecord
  <2>3. generation[active.lease].state = "active"
    BY <2>1 DEF TruthInv, LedgerIsTrue
  <2>4. generation'[active.lease].state = "active"
    BY <2>2, <2>3, GenerationMoves DEF QuietChange
  <2> QED
    BY <1>2, <2>4
<1> QED
  BY <1>3, <1>4

\* A rejected generation never gets a row, for its lease cannot be applied any more.
LEMMA RejectedNext ==
  ASSUME LedgerInv, CarriedInv, AgentTypeInv, PlaceInv, TruthInv, Moves,
         NEW record, record \in {active'} \union journal'.draining, record.rejected
  PROVE  generation'[record.lease].state = "none" /\ Spent(record.lease)'
<1>1. ASSUME NEW old \in {active} \union journal.draining, old.rejected
      PROVE  generation'[old.lease].state = "none" /\ Spent(old.lease)'
  <2>1. Issued(old.lease) /\ old.lease \in LeaseIds
    BY <1>1, RecordTypes DEF Records, NoRecord
  <2>2. generation[old.lease].state = "none" /\ Spent(old.lease)
    BY <1>1 DEF TruthInv, LedgerIsTrue
  <2> QED
    BY <2>1, <2>2, MovesKeepLeases, NoneStays
<1>2. CASE record \in {active} \union journal.draining
  BY <1>1, <1>2
<1>3. CASE record = active' /\ Finishes
  BY <1>3, JournalMoves DEF PlaceInv
<1>4. CASE record = active' /\ ~Finishes /\ ~Rejects
  <2>1. active.rejected /\ active'.lease = active.lease
    BY <1>4, AnswerMoves, JournalMoves
  <2> QED
    BY <1>1, <1>4, <2>1
<1>5. CASE record = active' /\ ~Finishes /\ Rejects
  <2>1. /\ Issued(active.lease) /\ Begun(active.lease) /\ LeaseConflict(active.lease)
        /\ active'.lease = active.lease /\ UNCHANGED vars
    BY <1>5, RecordTypes, JournalMoves DEF Rejects, Records, TruthInv
  <2>2. generation[active.lease].state = "none" /\ Spent(active.lease)
    BY <2>1, RejectedIsSpent
  <2> QED
    BY <1>5, <2>1, <2>2 DEF Spent, Dead, RevisionOf, vars
<1>6. record \in journal'.draining => record \in {active} \union journal.draining
  BY JournalMoves
<1> QED
  BY <1>2, <1>3, <1>4, <1>5, <1>6

\* The agent applies only what the panel has counted as started (StartRevision).
LEMMA BegunNext ==
  ASSUME LedgerInv, AgentTypeInv, TruthInv, Moves, NEW l,
         \/ l = candidate'.lease /\ candidate'.phase \in {"started", "cutover"}
         \/ l = active'.lease /\ active' # NoRecord
  PROVE  Begun(l)'
<1>1. ASSUME l \in LeaseIds, Start(l) PROVE Begun(l)'
  <2>1. row[l] \in Rows /\ row' = row
    BY <1>1 DEF Start, Startable, Holds
  <2>2. attempt'[row[l]].state = "started"
    <3>1. /\ attempt' = [attempt EXCEPT ![row[l]].state = "started"]
          /\ attempt \in [Rows -> AttemptRow]
      BY <1>1 DEF Start, LedgerInv, TypeOK
    <3> QED
      BY <2>1, <3>1 DEF AttemptRow
  <2> QED
    BY <2>1, <2>2 DEF Begun
<1>2. /\ candidate.phase \in {"started", "cutover"} =>
           candidate # NoRecord /\ Begun(candidate.lease)
      /\ active # NoRecord => Begun(active.lease)
  BY DEF NoRecord, TruthInv, LedgerIsTrue, Begun
<1>3. /\ candidate # NoRecord => Issued(candidate.lease) /\ candidate.lease \in LeaseIds
      /\ active # NoRecord => Issued(active.lease)
  BY RecordTypes DEF Records
<1>4. ASSUME Issued(l), Begun(l) PROVE Begun(l)'
  BY <1>4, MovesKeepLeases
<1>5. CASE l = candidate'.lease /\ candidate'.phase \in {"started", "cutover"}
  <2>1. ~Finishes
    BY <1>5, JournalMoves DEF NoRecord
  <2>2. CASE ~Carries
    <3>1. candidate' = candidate
      BY <2>1, <2>2, JournalMoves
    <3> QED
      BY <1>2, <1>3, <1>4, <1>5, <3>1
  <2>3. CASE Carries
    <3>1. /\ candidate'.lease = candidate.lease /\ candidate # NoRecord
          /\ candidate.phase \in {"started", "cutover"} \/ Start(candidate.lease)
      BY <1>5, <2>3 DEF Carries
    <3> QED
      BY <1>1, <1>2, <1>3, <1>4, <1>5, <3>1
  <2> QED
    BY <2>2, <2>3
<1>6. CASE l = active'.lease /\ active' # NoRecord
  <2>1. CASE Finishes
    <3>1. active'.lease = candidate.lease /\ Begun(candidate.lease) /\ Issued(candidate.lease)
      BY <1>2, <1>3, <2>1, JournalMoves DEF Finishes
    <3> QED
      BY <1>4, <1>6, <3>1
  <2>2. CASE ~Finishes
    <3>1. active'.lease = active.lease /\ active # NoRecord
      BY <1>6, <2>2, JournalMoves
    <3> QED
      BY <1>2, <1>3, <1>4, <1>6, <3>1
  <2> QED
    BY <2>1, <2>2
<1> QED
  BY <1>5, <1>6

\* What the ledger calls drained is below the active generation, and has no sessions
\* left on it (completedRuntimeDrain).
LEMMA DrainedNext ==
  ASSUME LedgerInv, CarriedInv, AgentTypeInv, OrderInv, OrderInv', NewestInv, TruthInv, Moves,
         NEW g \in LeaseIds, generation'[g].state = "drained"
  PROVE  /\ RevisionOf(g)' < RevOf(active)'
         /\ runtime' # RevisionOf(g)'
         /\ retired'[RevisionOf(g)'] # "draining"
<1>1. \/ generation[g].state = "drained"
      \/ /\ Issued(g) /\ RevisionOf(g) < RevOf(active) /\ retired' = retired
         /\ retired[RevisionOf(g)] # "draining"
  BY GenerationMoves DEF QuietChange
<1>2. Issued(g) /\ RevisionOf(g) < RevOf(active) /\ retired[RevisionOf(g)] # "draining"
  BY <1>1, GenerationsAreApplied DEF TruthInv, LedgerIsTrue, Generations, Issued
<1>3. RevisionOf(g)' = RevisionOf(g) /\ RevisionOf(g) \in Revisions /\ RevisionOf(g) \in Nat \ {0}
  BY <1>2, MovesKeepLeases, Numbers DEF RevisionOf
<1>4. RevOf(active) <= RevOf(active)' /\ RevOf(active) \in Nat /\ RevOf(active)' \in Nat
  <2>1. /\ RevOf(active) \in Nat /\ RevOf(candidate) \in Nat
        /\ RevOf(active)' = IF Finishes THEN RevOf(candidate) ELSE RevOf(active)
    BY RevisionMoves, Numbers DEF Records
  <2> QED
    BY <2>1 DEF OrderInv, Finishes
<1>5. runtime' \in Nat
  BY TypeNext, Numbers DEF AgentTypeInv
<1>6. runtime' # RevisionOf(g)
  <2>1. runtime' # 0 => RevOf(active)' <= runtime'
    BY DEF OrderInv
  <2> QED
    BY <1>2, <1>3, <1>4, <1>5, <2>1
<1>7. retired'[RevisionOf(g)] # "draining"
  BY <1>2, <1>3, RetiredMoves
<1> QED
  BY <1>2, <1>3, <1>4, <1>6, <1>7

\* The ledger stays right about the agent.
LEMMA TruthNext ==
  ASSUME LedgerInv, CarriedInv, AgentTypeInv, PlaceInv, OrderInv, OrderInv', NewestInv,
         TruthInv, Moves
  PROVE  TruthInv'
<1>1. \A l \in (Generations("active") \union Draining)' :
        l \in {active'.lease} \union {record.lease : record \in journal'.draining}
  BY WaitedForNext DEF Generations, Draining
<1>2. active'.acknowledged => generation'[active'.lease].state = "active"
  BY AcknowledgedNext
<1>3. \A record : record \in {active'} \union journal'.draining /\ record.rejected
                    => generation'[record.lease].state = "none" /\ Spent(record.lease)'
  BY RejectedNext
<1>4. \A l : (\/ l = candidate'.lease /\ candidate'.phase \in {"started", "cutover"}
              \/ l = active'.lease /\ active' # NoRecord)
            => Begun(l)'
  BY BegunNext
<1>5. \A g \in LeaseIds : generation'[g].state = "drained" =>
        /\ RevisionOf(g)' < RevOf(active)'
        /\ runtime' # RevisionOf(g)'
        /\ retired'[RevisionOf(g)'] # "draining"
  BY DrainedNext
<1>6. LedgerIsTrue'
  <2>1. \A record \in ({active} \union journal.draining)' :
          record.rejected => generation'[record.lease].state = "none"
    BY <1>3
  <2>2. candidate'.phase \in {"started", "cutover"} =>
          (LET k == row[candidate.lease]
           IN  attempt[k].lease = candidate.lease =>
                 attempt[k].state \notin {"leased", "expired_unstarted"})'
    BY <1>4 DEF Begun
  <2>3. \A g \in Generations("drained")' :
          runtime' # RevisionOf(g)' /\ retired'[RevisionOf(g)'] # "draining"
    BY <1>5 DEF Generations
  <2> QED
    BY <1>1, <1>2, <2>1, <2>2, <2>3 DEF LedgerIsTrue
<1> QED
  BY <1>3, <1>4, <1>5, <1>6 DEF TruthInv, Generations

----------------------------------------------------------------------------
(* The theorems *)

\* Nothing has been given out yet.
LEMMA SyncInitInv == ASSUME SyncInit PROVE LedgerInv /\ CarriedInv /\ AgentInv
<1>0. /\ journal = [active |-> NoRecord, candidate |-> NoRecord, draining |-> {}]
      /\ active = NoRecord /\ candidate = NoRecord /\ journal.draining = {}
      /\ snapshot = 0 /\ runtime = 0 /\ held = None /\ late = {} /\ pc = "idle"
      /\ retired = [r \in Revisions |-> "none"]
  BY DEF SyncInit, AgentInit
<1>1. LedgerInv
  BY LedgerInit DEF SyncInit
<1>2. /\ \A k \in Rows : attempt[k].state # "applied"
      /\ \A l \in LeaseIds : generation[l].state = "none"
      /\ applied = 0
  BY DEF SyncInit, Init, NoAttempt, NoGeneration, NoPointer
<1>3. NoRecord \in Record
  BY DEF NoRecord, Record
<1>4. CarriedInv
  BY <1>2 DEF CarriedInv
<1>5. AgentTypeInv
  BY <1>0, <1>3, Numbers DEF AgentTypeInv
<1>6. PlaceInv
  BY <1>0 DEF PlaceInv, Places, NoRecord
<1>7. OrderInv
  <2>1. RevOf(NoRecord) = 0
    BY DEF RevOf, NoRecord
  <2> QED
    BY <1>0, <1>2, <2>1 DEF OrderInv
<1>8. NewestInv
  BY <1>0 DEF NewestInv
<1>9. TruthInv
  BY <1>0, <1>2 DEF TruthInv, LedgerIsTrue, Generations, Draining, NoRecord
<1> QED
  BY <1>1, <1>4, <1>5, <1>6, <1>7, <1>8, <1>9 DEF AgentInv

\* Every step keeps the invariant, and is a step of the ledger or leaves it alone.
LEMMA SyncNextInv ==
  ASSUME LedgerInv, CarriedInv, AgentInv, [SyncNext]_allVars
  PROVE  LedgerInv' /\ CarriedInv' /\ AgentInv' /\ [Next]_vars
<1>1. AgentTypeInv /\ PlaceInv /\ OrderInv /\ NewestInv /\ TruthInv
  BY DEF AgentInv
<1>2. Moves
  BY <1>1, SyncMoves
<1>3. LedgerStep /\ [Next]_vars
  BY <1>1, <1>2, MovesKeepLeases, LedgerStepIsNext
<1>4. LedgerInv' /\ CarriedInv'
  BY <1>3, LedgerNext, CarriedNext
<1>5. AgentTypeInv' /\ PlaceInv' /\ OrderInv'
  BY <1>1, <1>2, TypeNext, PlaceNext, OrderNext
<1>6. NewestInv' /\ TruthInv'
  BY <1>1, <1>2, <1>5, NewestNext, TruthNext
<1> QED
  BY <1>3, <1>4, <1>5, <1>6 DEF AgentInv

\* The ledger's invariant and the agent's hold throughout the syncs, whatever fails
\* on the way.
THEOREM SyncInvariance == SyncSpec => [](LedgerInv /\ CarriedInv /\ AgentInv)
<1>1. SyncInit => LedgerInv /\ CarriedInv /\ AgentInv
  BY SyncInitInv
<1>2. LedgerInv /\ CarriedInv /\ AgentInv /\ [SyncNext]_allVars
        => LedgerInv' /\ CarriedInv' /\ AgentInv'
  BY SyncNextInv
<1> QED
  BY <1>1, <1>2, PTL DEF SyncSpec

\* The agent's calls, timely, late or lost, are operations of the panel's ledger:
\* whatever is proved of the ledger holds with these agents.
THEOREM SyncImplementsLedger == SyncSpec => Spec
<1>1. SyncInit => Init
  BY DEF SyncInit
<1>2. LedgerInv /\ CarriedInv /\ AgentInv /\ [SyncNext]_allVars => [Next]_vars
  BY SyncNextInv
<1> QED
  BY <1>1, <1>2, SyncInvariance, PTL DEF SyncSpec, Spec

\* What the panel calls applied is on the agent's disk (saveAppliedSnapshot before
\* the report), so that a restart of the agent does not take it back.
THEOREM DurableSafety == SyncSpec => []AppliedIsDurable
<1>1. LedgerInv /\ AgentInv => AppliedIsDurable
  <2> SUFFICES ASSUME LedgerInv, AgentInv PROVE AppliedIsDurable
    OBVIOUS
  <2>1. applied <= RevOf(active) /\ RevOf(active) <= snapshot
    BY DEF AgentInv, OrderInv
  <2>2. applied \in Nat /\ snapshot \in Nat
    BY Fields, Numbers DEF LedgerInv, AgentInv, AgentTypeInv
  <2>3. RevOf(active) \in Nat
    BY Coordinates, Numbers DEF AgentInv, AgentTypeInv, RevOf, RevisionOf, NoRecord, Issued
  <2> QED
    BY <2>1, <2>2, <2>3 DEF AppliedIsDurable
<1> QED
  BY <1>1, SyncInvariance, PTL

\* What the ledger says of the agent's generations is true: it waits for those the
\* agent will report, and calls drained only what the agent is done with.
THEOREM TruthSafety == SyncSpec => []LedgerIsTrue
<1>1. AgentInv => LedgerIsTrue
  BY DEF AgentInv, TruthInv
<1> QED
  BY <1>1, SyncInvariance, PTL

=============================================================================
