---------------------- MODULE MarketplaceRefreshProofs -----------------------
(***************************************************************************)
(* Proofs about the refresh of a marketplace source, for any number of     *)
(* sources, operations, packages and cleaners.                             *)
(*                                                                         *)
(* RefreshInv is the inductive invariant.  LedgerInv is about the rows of  *)
(* sources and operations: what a lease, a snapshot row and a staging row  *)
(* say of the operation they name.  DirectoryInv is about the directories: *)
(* a cleaner works only on directories of operations without a lease and   *)
(* without a snapshot row, so that a worker that may still promote has its *)
(* directory, although claims run out and are handed out again.            *)
(***************************************************************************)
EXTENDS MarketplaceRefresh, TLAPS

Kinds == {"staging", "snapshot"}

SourceRow == [st : {"live", "deleting", "gone"}, rev : Nat, signer : Signers,
              snap : Ops \cup {NoOp}, lease : Ops \cup {NoOp}]
OperationRow == [src : Sources, rev : Nat, signer : Signers,
                 status : {"none", "running", "failed", "succeeded"}]
CleanupRow == [state : {"none", "provisional", "retired"},
               claim : Cleaners \cup {"none"}, stale : BOOLEAN]
WorkerState == [pc : Pcs, content : SUBSET Digests, todo : SUBSET Digests]

LedgerType ==
  /\ setting \in Setting
  /\ src \in [Sources -> SourceRow]
  /\ op \in [Ops -> OperationRow]
  /\ snaps \subseteq Ops
  /\ catalog \in [Sources -> SUBSET [digest : Digests, signer : Signers]]
  /\ worker \in [Ops -> WorkerState]

DirectoryType ==
  /\ rows \in [Paths -> CleanupRow]
  /\ disk \subseteq Paths
  /\ cleaner \in [Cleaners -> [path : Paths \cup {NoPath}, removed : BOOLEAN]]

\* An operation that is read, or not even that, has no row.
New(o) == worker[o].pc \in {"idle", "acquire"}

LeaseInv ==
  /\ \A o \in Ops : New(o) => op[o].status = "none"
  /\ \A s \in Sources : src[s].st # "gone" /\ src[s].lease # NoOp =>
       op[src[s].lease].src = s /\ Running(src[s].lease) /\ Bound(src[s].lease)

\* A snapshot row is one of an operation that has ended, and the one that a live
\* source names is of its configuration and has the packages of its catalog.
SnapInv ==
  /\ \A o \in snaps : worker[o].pc \in {"sweep", "done"} /\ ~Running(o)
  /\ \A s \in Sources : src[s].st = "live" /\ src[s].snap # NoOp =>
       LET o == src[s].snap
       IN /\ o \in snaps /\ op[o].src = s /\ Bound(o)
          /\ catalog[s] = {[digest |-> d, signer |-> src[s].signer] : d \in worker[o].content}

\* A staging row has a live source: its deletion drops the row.
StagedInv ==
  \A x \in staged : x[1] \in Ops /\ ~New(x[1]) /\ src[op[x[1]].src].st = "live"

LedgerInv == LedgerType /\ LeaseInv /\ SnapInv /\ StagedInv

\* Before its directories are registered an operation has neither rows nor
\* directories.
Unregistered(o) == worker[o].pc \in {"idle", "acquire", "register"}

CleanupInv ==
  /\ \A o \in Ops, k \in Kinds :
       /\ Unregistered(o) => rows[<<o, k>>].state = "none" /\ <<o, k>> \notin disk
       /\ rows[<<o, k>>].state = "retired" => ~Running(o)
  /\ \A o \in snaps : rows[<<o, "snapshot">>].state = "none" /\ <<o, "snapshot">> \in disk
  /\ \A o \in Ops : worker[o].pc = "promote" /\ Leased(o) => <<o, "snapshot">> \in disk

CleanerInv ==
  \A c \in Cleaners :
    /\ cleaner[c].removed => cleaner[c].path # NoPath
    /\ \A o \in Ops, k \in Kinds : cleaner[c].path = <<o, k>> =>
         ~Leased(o) /\ ~Unregistered(o) /\ (k = "snapshot" => o \notin snaps)

\* Its worker is there to remove the directory.
Tended(o, k) == IF k = "snapshot" THEN worker[o].pc \in {"promote", "unlink"} ELSE Alive(o)

\* As long as the process does not end, somebody knows of every directory, also
\* of one that its worker made after a cleaner had removed it.
OwnerInv ==
  "crash" \notin Calls =>
    \A o \in Ops, k \in Kinds : <<o, k>> \in disk =>
      /\ Tended(o, k) \/ rows[<<o, k>>].state # "none" \/ (k = "snapshot" /\ o \in snaps)
      /\ \A c \in Cleaners : cleaner[c].removed /\ cleaner[c].path = <<o, k>> => Tended(o, k)

DirectoryInv == DirectoryType /\ CleanupInv /\ CleanerInv /\ OwnerInv

RefreshInv == LedgerInv /\ DirectoryInv

----------------------------------------------------------------------------
(* What the steps have in common *)

LEMMA PathFacts ==
  /\ \A o \in Ops, k \in Kinds : <<o, k>> \in Paths /\ <<o, k>> # NoPath
  /\ \A p \in Paths : p # NoPath /\ \E o \in Ops, k \in Kinds : p = <<o, k>>
  /\ \A o, q, k, l : <<o, k>> = <<q, l>> => o = q /\ k = l
  /\ \A p \in Paths : p[1] \in Ops /\ p[2] \in Kinds /\ p = <<p[1], p[2]>>
<1>1. NoOp \notin Ops
  BY DEF NoOp, Ops
<1> QED BY <1>1 DEF Paths, Kinds, NoPath

\* The goroutine of o moves on.
LEMMA GoFields ==
  ASSUME worker \in [Ops -> WorkerState], NEW o \in Ops, NEW pc \in Pcs, Go(o, pc)
  PROVE  /\ worker' \in [Ops -> WorkerState]
         /\ \A p \in Ops : /\ worker'[p].pc = IF p = o THEN pc ELSE worker[p].pc
                           /\ worker'[p].content = worker[p].content
<1> DEFINE row == [worker[o] EXCEPT !.pc = pc]
<1>1. /\ row \in WorkerState /\ row.pc = pc /\ row.content = worker[o].content
  BY DEF WorkerState
<1>2. worker' = [worker EXCEPT ![o] = row]
  BY DEF Go
<1> QED BY <1>1, <1>2

\* An update of one row of a source, or of one operation.
LEMMA SourceFields ==
  /\ \A r \in SourceRow, l \in Ops \cup {NoOp} :
       /\ [r EXCEPT !.lease = l] \in SourceRow
       /\ [r EXCEPT !.lease = l].lease = l
       /\ [r EXCEPT !.lease = l].st = r.st /\ [r EXCEPT !.lease = l].snap = r.snap
       /\ [r EXCEPT !.lease = l].rev = r.rev /\ [r EXCEPT !.lease = l].signer = r.signer
  /\ \A r \in SourceRow, t \in {"live", "deleting", "gone"} :
       /\ [r EXCEPT !.st = t] \in SourceRow
       /\ [r EXCEPT !.st = t].st = t
       /\ [r EXCEPT !.st = t].lease = r.lease /\ [r EXCEPT !.st = t].snap = r.snap
       /\ [r EXCEPT !.st = t].rev = r.rev /\ [r EXCEPT !.st = t].signer = r.signer
  /\ \A r \in SourceRow, l \in Ops \cup {NoOp} :
       /\ [r EXCEPT !.snap = l] \in SourceRow
       /\ [r EXCEPT !.snap = l].snap = l
       /\ [r EXCEPT !.snap = l].st = r.st /\ [r EXCEPT !.snap = l].lease = r.lease
       /\ [r EXCEPT !.snap = l].rev = r.rev /\ [r EXCEPT !.snap = l].signer = r.signer
<1>1. ASSUME NEW r \in SourceRow, NEW l \in Ops \cup {NoOp}
      PROVE  /\ [r EXCEPT !.lease = l] \in SourceRow
             /\ [r EXCEPT !.lease = l].lease = l
             /\ [r EXCEPT !.lease = l].st = r.st /\ [r EXCEPT !.lease = l].snap = r.snap
             /\ [r EXCEPT !.lease = l].rev = r.rev /\ [r EXCEPT !.lease = l].signer = r.signer
  BY DEF SourceRow
<1>2. ASSUME NEW r \in SourceRow, NEW t \in {"live", "deleting", "gone"}
      PROVE  /\ [r EXCEPT !.st = t] \in SourceRow
             /\ [r EXCEPT !.st = t].st = t
             /\ [r EXCEPT !.st = t].lease = r.lease /\ [r EXCEPT !.st = t].snap = r.snap
             /\ [r EXCEPT !.st = t].rev = r.rev /\ [r EXCEPT !.st = t].signer = r.signer
  BY DEF SourceRow
<1>3. ASSUME NEW r \in SourceRow, NEW l \in Ops \cup {NoOp}
      PROVE  /\ [r EXCEPT !.snap = l] \in SourceRow
             /\ [r EXCEPT !.snap = l].snap = l
             /\ [r EXCEPT !.snap = l].st = r.st /\ [r EXCEPT !.snap = l].lease = r.lease
             /\ [r EXCEPT !.snap = l].rev = r.rev /\ [r EXCEPT !.snap = l].signer = r.signer
  BY DEF SourceRow
<1> QED BY <1>1, <1>2, <1>3

LEMMA OperationFields ==
  \A r \in OperationRow, t \in {"none", "running", "failed", "succeeded"} :
    /\ [r EXCEPT !.status = t] \in OperationRow
    /\ [r EXCEPT !.status = t].status = t /\ [r EXCEPT !.status = t].src = r.src
    /\ [r EXCEPT !.status = t].rev = r.rev /\ [r EXCEPT !.status = t].signer = r.signer
BY DEF OperationRow

LEMMA StatusFields ==
  ASSUME op \in [Ops -> OperationRow], NEW o \in Ops,
         NEW t \in {"none", "running", "failed", "succeeded"},
         op' = [op EXCEPT ![o].status = t]
  PROVE  /\ op' \in [Ops -> OperationRow]
         /\ \A p \in Ops : /\ op'[p].status = IF p = o THEN t ELSE op[p].status
                           /\ op'[p].src = op[p].src /\ op'[p].rev = op[p].rev
                           /\ op'[p].signer = op[p].signer
<1> DEFINE row == [op[o] EXCEPT !.status = t]
<1>1. /\ row \in OperationRow /\ row.status = t /\ row.src = op[o].src
      /\ row.rev = op[o].rev /\ row.signer = op[o].signer
  BY OperationFields
<1>2. op' = [op EXCEPT ![o] = row]
  OBVIOUS
<1> HIDE DEF row
<1> QED BY <1>1, <1>2

LEMMA LeaseFields ==
  ASSUME src \in [Sources -> SourceRow], NEW s \in Sources, NEW l \in Ops \cup {NoOp},
         src' = [src EXCEPT ![s].lease = l]
  PROVE  /\ src' \in [Sources -> SourceRow]
         /\ \A r \in Sources : /\ src'[r].lease = IF r = s THEN l ELSE src[r].lease
                               /\ src'[r].st = src[r].st /\ src'[r].snap = src[r].snap
                               /\ src'[r].rev = src[r].rev /\ src'[r].signer = src[r].signer
<1> DEFINE row == [src[s] EXCEPT !.lease = l]
<1>1. /\ row \in SourceRow /\ row.lease = l
      /\ row.st = src[s].st /\ row.snap = src[s].snap
      /\ row.rev = src[s].rev /\ row.signer = src[s].signer
  BY SourceFields
<1>2. src' = [src EXCEPT ![s] = row]
  OBVIOUS
<1> HIDE DEF row
<1> QED BY <1>1, <1>2

\* What a reservation needs.
Backed(x) == x[1] \in Ops /\ ~New(x[1]) /\ src[op[x[1]].src].st = "live"

\* A step of goroutines and reservations alone.
LEMMA LedgerFrame ==
  ASSUME LedgerInv, UNCHANGED <<setting, src, op, snaps, catalog>>,
         worker' \in [Ops -> WorkerState],
         \A o \in Ops : New(o)' => New(o),
         \A o \in snaps : worker'[o].pc \in {"sweep", "done"}
                            /\ worker'[o].content = worker[o].content,
         \A x \in staged' : x \in staged \/ Backed(x)
  PROVE  LedgerInv'
<1>1. LedgerType'
  BY DEF LedgerInv, LedgerType
<1>2. LeaseInv'
  BY DEF LedgerInv, LeaseInv, Running, Bound
<1>3. SnapInv'
  BY DEF LedgerInv, LedgerType, SnapInv, Running, Bound
<1>4. StagedInv'
  BY DEF LedgerInv, StagedInv, Backed
<1> QED BY <1>1, <1>2, <1>3, <1>4 DEF LedgerInv

\* What the ledger says, row by row.
LeaseOf(s, o) == /\ op[o].src = s /\ op[o].status = "running"
                 /\ op[o].rev = src[s].rev /\ op[o].signer = src[s].signer

SnapOf(s, o) == /\ op[o].src = s
                /\ op[o].rev = src[s].rev /\ op[o].signer = src[s].signer
                /\ catalog[s] = {[digest |-> d, signer |-> src[s].signer] :
                                    d \in worker[o].content}

LEMMA LedgerFacts ==
  ASSUME LedgerInv
  PROVE  /\ \A o \in Ops : /\ op[o] \in OperationRow /\ op[o].src \in Sources
                           /\ New(o) => op[o].status = "none" /\ o \notin snaps
         /\ \A s \in Sources : src[s] \in SourceRow
         /\ \A s \in Sources : src[s].st # "gone" /\ src[s].lease # NoOp =>
              \E o \in Ops : o = src[s].lease /\ LeaseOf(s, o) /\ ~New(o)
         /\ \A o \in snaps : o \in Ops /\ worker[o].pc \in {"sweep", "done"} /\ ~New(o)
                            /\ op[o].status # "running"
         /\ \A s \in Sources : src[s].st = "live" /\ src[s].snap # NoOp =>
              \E o \in snaps : o = src[s].snap /\ SnapOf(s, o)
         /\ \A x \in staged : /\ x[1] \in Ops /\ ~New(x[1])
                              /\ src[op[x[1]].src].st = "live"
<1>1. \A o \in Ops : /\ op[o] \in OperationRow /\ op[o].src \in Sources
                     /\ New(o) => op[o].status = "none" /\ o \notin snaps
  BY DEF LedgerInv, LedgerType, OperationRow, LeaseInv, SnapInv, New
<1>2. \A s \in Sources : src[s] \in SourceRow
  BY DEF LedgerInv, LedgerType
<1>3. ASSUME NEW s \in Sources, src[s].st # "gone", src[s].lease # NoOp
      PROVE  \E o \in Ops : o = src[s].lease /\ LeaseOf(s, o) /\ ~New(o)
  <2>1. PICK o \in Ops : o = src[s].lease
    BY <1>2, <1>3 DEF SourceRow
  <2>2. LeaseOf(s, o)
    BY <1>3, <2>1 DEF LedgerInv, LeaseInv, Running, Bound, LeaseOf
  <2>3. ~New(o)
    <3>1. New(o) => op[o].status = "none"
      BY <1>1
    <3> QED BY <3>1, <2>2 DEF LeaseOf
  <2> QED BY <2>1, <2>2, <2>3
<1>4. \A o \in snaps : o \in Ops /\ worker[o].pc \in {"sweep", "done"} /\ ~New(o)
                     /\ op[o].status # "running"
  BY DEF LedgerInv, LedgerType, SnapInv, Running, New
<1>5. ASSUME NEW s \in Sources, src[s].st = "live", src[s].snap # NoOp
      PROVE  \E o \in snaps : o = src[s].snap /\ SnapOf(s, o)
  BY <1>5 DEF LedgerInv, SnapInv, Bound, SnapOf
<1>6. \A x \in staged : x[1] \in Ops /\ ~New(x[1]) /\ src[op[x[1]].src].st = "live"
  BY DEF LedgerInv, StagedInv
<1> QED BY <1>1, <1>2, <1>3, <1>4, <1>5, <1>6

LEMMA LedgerNext ==
  ASSUME LedgerType',
         \A o \in Ops : New(o)' => op'[o].status = "none",
         \A s \in Sources : src'[s].st # "gone" /\ src'[s].lease # NoOp =>
           \E o \in Ops : o = src'[s].lease /\ LeaseOf(s, o)',
         \A o \in snaps' : worker'[o].pc \in {"sweep", "done"} /\ op'[o].status # "running",
         \A s \in Sources : src'[s].st = "live" /\ src'[s].snap # NoOp =>
           \E o \in snaps' : o = src'[s].snap /\ SnapOf(s, o)',
         \A x \in staged' : x[1] \in Ops /\ ~New(x[1])' /\ src'[op'[x[1]].src].st = "live"
  PROVE  LedgerInv'
<1>1. LeaseInv'
  BY DEF LeaseInv, LeaseOf, Running, Bound
<1>2. SnapInv'
  BY DEF SnapInv, SnapOf, Running, Bound
<1>3. StagedInv'
  BY DEF StagedInv
<1> QED BY <1>1, <1>2, <1>3 DEF LedgerInv

\* A step that leaves the directories and their rows alone.
LEMMA DirectoryFrame ==
  ASSUME DirectoryInv, UNCHANGED <<setting, rows, disk, cleaner, snaps>>,
         \A o \in Ops : /\ Running(o)' => Running(o) \/ New(o)
                        /\ Leased(o)' => Leased(o) \/ New(o)
                        /\ Unregistered(o)' => Unregistered(o)
                        /\ worker'[o].pc = "promote" => worker[o].pc = "promote",
         "crash" \notin Calls => \A o \in Ops, k \in Kinds :
           <<o, k>> \in disk /\ Tended(o, k) => Tended(o, k)'
  PROVE  DirectoryInv'
<1>1. DirectoryType'
  BY DEF DirectoryInv, DirectoryType
<1>2. CleanupInv'
  BY DEF DirectoryInv, CleanupInv, New, Unregistered, Kinds
<1>3. CleanerInv'
  BY DEF DirectoryInv, CleanerInv, New, Unregistered
<1>4. OwnerInv'
  BY DEF DirectoryInv, OwnerInv, Calls
<1> QED BY <1>1, <1>2, <1>3, <1>4 DEF DirectoryInv

\* The goroutine of o is at another place.
Steps(o, pc) == /\ worker' \in [Ops -> WorkerState] /\ worker'[o].pc = pc
                /\ \A p \in Ops \ {o} : worker'[p] = worker[p]

LEMMA GoSteps ==
  ASSUME RefreshInv, NEW o \in Ops, NEW pc \in Pcs, Go(o, pc)
  PROVE  Steps(o, pc)
<1>1. worker \in [Ops -> WorkerState]
  BY DEF RefreshInv, LedgerInv, LedgerType
<1>2. worker' \in [Ops -> WorkerState] /\ worker'[o].pc = pc
  BY <1>1, GoFields
<1>3. \A p \in Ops \ {o} : worker'[p] = worker[p]
  BY <1>1 DEF Go
<1> QED BY <1>2, <1>3 DEF Steps

LEMMA LedgerSteps ==
  ASSUME LedgerInv, NEW o \in Ops, NEW pc, Steps(o, pc), ~New(o) \/ worker[o].pc = "acquire",
         UNCHANGED <<setting, src, op, snaps, catalog>>,
         \A x \in staged' : x \in staged \/ Backed(x),
         worker[o].pc \notin {"sweep", "done"}, pc \notin {"idle", "acquire"}
  PROVE  LedgerInv'
<1>1. \A p \in Ops : New(p)' => New(p)
  <2> SUFFICES ASSUME NEW p \in Ops, New(p)' PROVE New(p)
    OBVIOUS
  <2>1. p # o
    BY DEF Steps, New
  <2> QED BY <2>1 DEF Steps, New
<1>2. \A p \in snaps : p \in Ops /\ worker[p].pc \in {"sweep", "done"} /\ p # o
  BY LedgerFacts
<1>3. \A p \in snaps : worker'[p].pc \in {"sweep", "done"}
                         /\ worker'[p].content = worker[p].content
  BY <1>2 DEF Steps
<1> QED BY <1>1, <1>3, LedgerFrame DEF Steps

\* The goroutine of o moves between places that own the same directories.
LEMMA Stepped ==
  ASSUME RefreshInv, NEW o \in Ops, NEW pc, Steps(o, pc),
         UNCHANGED <<setting, src, op, snaps, catalog, expired, rows, disk, cleaner>>,
         \A x \in staged' : x \in staged \/ Backed(x),
         worker[o].pc \notin {"idle", "sweep", "done"},
         pc \notin {"idle", "acquire", "promote"},
         pc = "register" => Unregistered(o),
         worker[o].pc \in {"promote", "unlink"} => pc \in {"promote", "unlink"},
         pc = "done" => Unregistered(o)
  PROVE  RefreshInv'
<1>1. \A p \in Ops : worker'[p].pc = IF p = o THEN pc ELSE worker[p].pc
  BY DEF Steps
<1>2. LedgerInv'
  BY LedgerSteps DEF RefreshInv, New
<1>3. DirectoryInv'
  <2>1. \A p \in Ops : /\ Running(p)' => Running(p)
                       /\ Leased(p)' => Leased(p)
                       /\ Unregistered(p)' => Unregistered(p)
                       /\ worker'[p].pc = "promote" => worker[p].pc = "promote"
    BY <1>1 DEF Running, Leased, Unregistered
  <2>2. \A p \in Ops, k \in Kinds : <<p, k>> \in disk /\ Tended(p, k) => Tended(p, k)'
    <3> SUFFICES ASSUME NEW p \in Ops, NEW k \in Kinds, <<p, k>> \in disk, Tended(p, k)
                 PROVE  Tended(p, k)'
      OBVIOUS
    <3>1. ~Unregistered(p)
      BY DEF RefreshInv, DirectoryInv, CleanupInv
    <3> QED BY <3>1, <1>1 DEF Tended, Alive, Unregistered
  <2> QED BY <2>1, <2>2, DirectoryFrame DEF RefreshInv
<1> QED BY <1>2, <1>3 DEF RefreshInv

LEMMA Moved ==
  ASSUME RefreshInv, NEW o \in Ops, NEW pc \in Pcs, Go(o, pc),
         UNCHANGED <<setting, src, op, snaps, catalog, expired, rows, disk, cleaner>>,
         \A x \in staged' : x \in staged \/ Backed(x),
         worker[o].pc \notin {"idle", "sweep", "done"},
         pc \notin {"idle", "acquire", "promote"},
         pc = "register" => Unregistered(o),
         worker[o].pc \in {"promote", "unlink"} => pc \in {"promote", "unlink"},
         pc = "done" => Unregistered(o)
  PROVE  RefreshInv'
BY GoSteps, Stepped

----------------------------------------------------------------------------
(* The worker of a refresh *)

LEMMA ReadNext ==
  ASSUME RefreshInv, NEW o \in Ops, NEW s \in Sources, Read(o, s)
  PROVE  RefreshInv'
<1> DEFINE row == [src |-> s, rev |-> src[s].rev, signer |-> src[s].signer, status |-> "none"]
<1>e. /\ worker[o].pc = "idle" /\ op' = [op EXCEPT ![o] = row] /\ Go(o, "acquire")
      /\ UNCHANGED <<src, expired, snaps, rows, disk, cleaner, staged, catalog, setting>>
  BY DEF Read, dirVars, pkgVars
<1>w. /\ worker' \in [Ops -> WorkerState]
      /\ \A p \in Ops : /\ worker'[p].pc = IF p = o THEN "acquire" ELSE worker[p].pc
                        /\ worker'[p].content = worker[p].content
  BY <1>e, GoFields DEF RefreshInv, LedgerInv, LedgerType, Pcs
<1>o. /\ op' \in [Ops -> OperationRow]
      /\ \A p \in Ops : p # o => op'[p] = op[p]
      /\ op'[o].status = "none"
  <2>1. row \in OperationRow
    BY DEF RefreshInv, LedgerInv, LedgerType, SourceRow, OperationRow
  <2> QED BY <1>e, <2>1 DEF RefreshInv, LedgerInv, LedgerType
<1>n. New(o) /\ op[o].status = "none" /\ o \notin snaps
  BY <1>e DEF New, RefreshInv, LedgerInv, LeaseInv, SnapInv
<1>1. LedgerType'
  BY <1>e, <1>w, <1>o DEF RefreshInv, LedgerInv, LedgerType
<1>2. LedgerInv'
  <2>1. \A p \in Ops : New(p)' => op'[p].status = "none"
    <3> SUFFICES ASSUME NEW p \in Ops, New(p)' PROVE op'[p].status = "none"
      OBVIOUS
    <3>1. p # o => New(p)
      BY <1>w DEF New
    <3>2. p # o => op[p].status = "none"
      BY <3>1, LedgerFacts DEF RefreshInv, New
    <3> QED BY <3>2, <1>o
  <2>2. ASSUME NEW r \in Sources, src'[r].st # "gone", src'[r].lease # NoOp
        PROVE  \E l \in Ops : l = src'[r].lease /\ LeaseOf(r, l)'
    <3>1. PICK l \in Ops : l = src[r].lease /\ LeaseOf(r, l) /\ ~New(l)
      BY <2>2, <1>e, LedgerFacts DEF RefreshInv
    <3> QED BY <3>1, <1>e, <1>n, <1>o DEF LeaseOf
  <2>3. \A p \in snaps' : worker'[p].pc \in {"sweep", "done"} /\ op'[p].status # "running"
    BY <1>e, <1>w, <1>o, <1>n, LedgerFacts DEF RefreshInv
  <2>4. ASSUME NEW r \in Sources, src'[r].st = "live", src'[r].snap # NoOp
        PROVE  \E p \in snaps' : p = src'[r].snap /\ SnapOf(r, p)'
    <3>1. PICK p \in snaps : p = src[r].snap /\ SnapOf(r, p)
      BY <2>4, <1>e, LedgerFacts DEF RefreshInv
    <3>2. p \in Ops /\ p # o
      BY <3>1, <1>n, LedgerFacts DEF RefreshInv
    <3> QED BY <3>1, <3>2, <1>e, <1>o, <1>w DEF SnapOf
  <2>5. ASSUME NEW x \in staged'
        PROVE  x[1] \in Ops /\ ~New(x[1])' /\ src'[op'[x[1]].src].st = "live"
    <3>1. x[1] \in Ops /\ ~New(x[1]) /\ src[op[x[1]].src].st = "live" /\ x[1] # o
      BY <1>e, <1>n, LedgerFacts DEF RefreshInv
    <3> QED BY <3>1, <1>e, <1>o, <1>w DEF New
  <2> QED BY <1>1, <2>1, <2>2, <2>3, <2>4, <2>5, LedgerNext
<1>5. DirectoryInv'
  <2>1. \A p \in Ops : /\ Running(p)' => Running(p)
                       /\ Leased(p)' => Leased(p)
                       /\ Unregistered(p)' => Unregistered(p)
                       /\ worker'[p].pc = "promote" => worker[p].pc = "promote"
    BY <1>e, <1>w, <1>o DEF Running, Leased, Unregistered
  <2>2. \A p \in Ops, k \in Kinds : <<p, k>> \in disk /\ Tended(p, k) => Tended(p, k)'
    BY <1>e, <1>w DEF Tended, Alive
  <2> QED BY <1>e, <2>1, <2>2, DirectoryFrame DEF RefreshInv
<1> QED BY <1>2, <1>5 DEF RefreshInv

\* The lease goes to o; the operations whose lease ran out, all of this source,
\* are failed.
LEMMA AcquireNext ==
  ASSUME RefreshInv, NEW o \in Ops, AcquireRefreshLease(o)
  PROVE  RefreshInv'
<1> DEFINE s == op[o].src
           interrupted == {p \in Ops : op[p].src = s /\ Running(p) /\ p \in expired}
           statuses == [p \in Ops |-> IF p = o THEN [op[p] EXCEPT !.status = "running"]
                                      ELSE IF p \in interrupted
                                      THEN [op[p] EXCEPT !.status = "failed"] ELSE op[p]]
<1>e. /\ worker[o].pc = "acquire"
      /\ UNCHANGED <<expired, catalog, snaps, rows, disk, cleaner, setting>>
  BY DEF AcquireRefreshLease, dirVars
<1>c. \/ Go(o, "done") /\ UNCHANGED <<src, op, staged>>
      \/ /\ src[s].st = "live" /\ Bound(o)
         /\ src[s].lease # NoOp => src[s].lease \in expired
         /\ src' = [src EXCEPT ![s].lease = o] /\ op' = statuses
         /\ staged' = Unstaged(interrupted) /\ Go(o, "register")
  BY DEF AcquireRefreshLease
<1>1. CASE Go(o, "done") /\ UNCHANGED <<src, op, staged>>
  BY <1>1, <1>e, Moved DEF Pcs, Unregistered
<1>2. CASE /\ src[s].st = "live" /\ Bound(o)
           /\ src[s].lease # NoOp => src[s].lease \in expired
           /\ src' = [src EXCEPT ![s].lease = o] /\ op' = statuses
           /\ staged' = Unstaged(interrupted) /\ Go(o, "register")
  <2>t. op \in [Ops -> OperationRow] /\ src \in [Sources -> SourceRow] /\ s \in Sources
    BY DEF RefreshInv, LedgerInv, LedgerType, OperationRow
  <2>w. /\ worker' \in [Ops -> WorkerState]
        /\ \A p \in Ops : /\ worker'[p].pc = IF p = o THEN "register" ELSE worker[p].pc
                          /\ worker'[p].content = worker[p].content
    BY <1>2, GoFields DEF RefreshInv, LedgerInv, LedgerType, Pcs
  <2>s. /\ src' \in [Sources -> SourceRow]
        /\ \A r \in Sources : /\ src'[r].lease = IF r = s THEN o ELSE src[r].lease
                              /\ src'[r].st = src[r].st /\ src'[r].snap = src[r].snap
                              /\ src'[r].rev = src[r].rev /\ src'[r].signer = src[r].signer
    <3> HIDE DEF s
    <3> QED BY <1>2, <2>t, LeaseFields
  <2>o. /\ op' \in [Ops -> OperationRow]
        /\ \A p \in Ops : /\ op'[p].src = op[p].src /\ op'[p].rev = op[p].rev
                          /\ op'[p].signer = op[p].signer
                          /\ op'[p].status = IF p = o THEN "running"
                                             ELSE IF p \in interrupted THEN "failed"
                                             ELSE op[p].status
    <3>1. ASSUME NEW p \in Ops
          PROVE  /\ op'[p] \in OperationRow
                 /\ op'[p].src = op[p].src /\ op'[p].rev = op[p].rev
                 /\ op'[p].signer = op[p].signer
                 /\ op'[p].status = IF p = o THEN "running"
                                    ELSE IF p \in interrupted THEN "failed" ELSE op[p].status
      <4> HIDE DEF interrupted
      <4>1. op'[p] = IF p = o THEN [op[p] EXCEPT !.status = "running"]
                     ELSE IF p \in interrupted
                     THEN [op[p] EXCEPT !.status = "failed"] ELSE op[p]
        BY <1>2
      <4>2. op[p] \in OperationRow
        BY <2>t
      <4>3. CASE p = o
        <5>1. op'[p] = [op[p] EXCEPT !.status = "running"]
          BY <4>1, <4>3
        <5> QED BY <4>2, <4>3, <5>1 DEF OperationRow
      <4>4. CASE p # o /\ p \in interrupted
        <5>1. op'[p] = [op[p] EXCEPT !.status = "failed"]
          BY <4>1, <4>4
        <5> QED BY <4>2, <4>4, <5>1 DEF OperationRow
      <4>5. CASE p # o /\ p \notin interrupted
        BY <4>1, <4>2, <4>5
      <4> QED BY <4>3, <4>4, <4>5
    <3>2. op' = [p \in Ops |-> op'[p]]
      BY <1>2
    <3> QED BY <3>1, <3>2
  <2>n. New(o) /\ op[o].status = "none" /\ o \notin snaps
    BY <1>e DEF New, RefreshInv, LedgerInv, LeaseInv, SnapInv
  <2>b. \A p \in Ops : Bound(p)' = Bound(p)
    BY <2>s, <2>o, <2>t DEF Bound, OperationRow
  <2>1. LedgerType'
    BY <1>e, <2>w, <2>s, <2>o DEF RefreshInv, LedgerInv, LedgerType
  <2>2. LedgerInv'
    <3> HIDE DEF s, interrupted
    <3>1. \A p \in Ops : New(p)' => op'[p].status = "none"
      <4> SUFFICES ASSUME NEW p \in Ops, New(p)' PROVE op'[p].status = "none"
        OBVIOUS
      <4>1. p # o /\ New(p)
        BY <2>w DEF New
      <4>2. op[p].status = "none"
        BY <4>1, LedgerFacts DEF RefreshInv, New
      <4> QED BY <4>1, <4>2, <2>o DEF interrupted, Running
    <3>2. ASSUME NEW r \in Sources, src'[r].st # "gone", src'[r].lease # NoOp
          PROVE  \E l \in Ops : l = src'[r].lease /\ LeaseOf(r, l)'
      <4>1. CASE r = s
        <5>1. src'[r].lease = o /\ op'[o].src = r
          BY <4>1, <2>s, <2>o DEF s
        <5> QED BY <5>1, <4>1, <2>s, <2>o, <1>2 DEF LeaseOf, Bound, s
      <4>2. CASE r # s
        <5>1. PICK l \in Ops : l = src[r].lease /\ LeaseOf(r, l) /\ ~New(l)
          BY <3>2, <4>2, <2>s, LedgerFacts DEF RefreshInv
        <5>2. l # o /\ l \notin interrupted
          BY <5>1, <4>2, <2>n DEF LeaseOf, interrupted
        <5> QED BY <5>1, <5>2, <4>2, <2>s, <2>o DEF LeaseOf
      <4> QED BY <4>1, <4>2
    <3>3. \A p \in snaps' : worker'[p].pc \in {"sweep", "done"} /\ op'[p].status # "running"
      BY <1>e, <2>w, <2>o, <2>n, LedgerFacts DEF RefreshInv
    <3>4. ASSUME NEW r \in Sources, src'[r].st = "live", src'[r].snap # NoOp
          PROVE  \E p \in snaps' : p = src'[r].snap /\ SnapOf(r, p)'
      <4>1. PICK p \in snaps : p = src[r].snap /\ SnapOf(r, p)
        BY <3>4, <2>s, LedgerFacts DEF RefreshInv
      <4>2. p \in Ops
        BY LedgerFacts DEF RefreshInv
      <4> QED BY <4>1, <4>2, <1>e, <2>o, <2>w, <2>s DEF SnapOf
    <3>5. ASSUME NEW x \in staged'
          PROVE  x[1] \in Ops /\ ~New(x[1])' /\ src'[op'[x[1]].src].st = "live"
      <4>1. x \in staged
        BY <1>2 DEF Unstaged
      <4>2. x[1] \in Ops /\ ~New(x[1]) /\ src[op[x[1]].src].st = "live"
            /\ op[x[1]].src \in Sources
        BY <4>1, LedgerFacts DEF RefreshInv, New
      <4> QED BY <4>2, <2>o, <2>w, <2>s DEF New
    <3> QED BY <2>1, <3>1, <3>2, <3>3, <3>4, <3>5, LedgerNext
  <2>5. DirectoryInv'
    <3>1. \A p \in Ops : /\ Running(p)' => Running(p) \/ New(p)
                         /\ Leased(p)' => Leased(p) \/ New(p)
                         /\ Unregistered(p)' => Unregistered(p)
                         /\ worker'[p].pc = "promote" => worker[p].pc = "promote"
      BY <1>e, <2>w, <2>o, <2>n DEF Running, Leased, Unregistered
    <3>2. \A p \in Ops, k \in Kinds : <<p, k>> \in disk /\ Tended(p, k) => Tended(p, k)'
      BY <1>e, <2>w DEF Tended, Alive
    <3> QED BY <1>e, <3>1, <3>2, DirectoryFrame DEF RefreshInv
  <2> QED BY <2>2, <2>5 DEF RefreshInv
<1> QED BY <1>c, <1>1, <1>2


\* An operation fails and gives its lease up.
LEMMA FailedNext ==
  ASSUME LedgerInv, NEW o \in Ops, ~New(o), op' = [op EXCEPT ![o].status = "failed"],
         src' = src \/ src' = [src EXCEPT ![op[o].src].lease = NoOp],
         src' = src => ~(src[op[o].src].st # "gone" /\ src[op[o].src].lease = o),
         UNCHANGED <<setting, snaps, catalog>>,
         worker' \in [Ops -> WorkerState],
         \A p \in Ops : New(p)' => New(p),
         \A p \in snaps : worker'[p].pc \in {"sweep", "done"}
                            /\ worker'[p].content = worker[p].content,
         \A x \in staged' : x \in staged
  PROVE  LedgerInv'
<1>t. op \in [Ops -> OperationRow] /\ src \in [Sources -> SourceRow] /\ op[o].src \in Sources
  BY DEF LedgerInv, LedgerType, OperationRow
<1>o. /\ op' \in [Ops -> OperationRow]
      /\ \A p \in Ops : /\ op'[p].status = IF p = o THEN "failed" ELSE op[p].status
                        /\ op'[p].src = op[p].src /\ op'[p].rev = op[p].rev
                        /\ op'[p].signer = op[p].signer
  BY <1>t, StatusFields
<1>s. /\ src' \in [Sources -> SourceRow]
      /\ \A r \in Sources : /\ src'[r].lease = src[r].lease
                                 \/ (r = op[o].src /\ src'[r].lease = NoOp)
                            /\ src'[r].st = src[r].st /\ src'[r].snap = src[r].snap
                            /\ src'[r].rev = src[r].rev /\ src'[r].signer = src[r].signer
  <2>1. CASE src' = src
    BY <2>1, <1>t
  <2>2. CASE src' = [src EXCEPT ![op[o].src].lease = NoOp]
    <3> DEFINE s == op[o].src
    <3>1. s \in Sources /\ NoOp \in Ops \cup {NoOp} /\ src' = [src EXCEPT ![s].lease = NoOp]
      BY <2>2, <1>t
    <3> HIDE DEF s
    <3>2. /\ src' \in [Sources -> SourceRow]
          /\ \A r \in Sources : /\ src'[r].lease = IF r = s THEN NoOp ELSE src[r].lease
                                /\ src'[r].st = src[r].st /\ src'[r].snap = src[r].snap
                                /\ src'[r].rev = src[r].rev /\ src'[r].signer = src[r].signer
      BY <3>1, <1>t, LeaseFields
    <3> QED BY <3>2 DEF s
  <2> QED BY <2>1, <2>2
<1>l. \A r \in Sources : src'[r].st # "gone" /\ src'[r].lease = o /\ o # NoOp => op[o].src # r
  <2>1. CASE src' = src
    BY <2>1
  <2>2. CASE src' = [src EXCEPT ![op[o].src].lease = NoOp]
    <3> DEFINE s == op[o].src
    <3>1. s \in Sources /\ NoOp \in Ops \cup {NoOp} /\ src' = [src EXCEPT ![s].lease = NoOp]
      BY <2>2, <1>t
    <3> HIDE DEF s
    <3>2. src'[s].lease = NoOp
      BY <3>1, <1>t, LeaseFields
    <3> QED BY <3>2 DEF s
  <2> QED BY <2>1, <2>2
<1>1. LedgerType'
  BY <1>o, <1>s DEF LedgerInv, LedgerType
<1>2. \A p \in Ops : New(p)' => op'[p].status = "none"
  <2> SUFFICES ASSUME NEW p \in Ops, New(p)' PROVE op'[p].status = "none"
    OBVIOUS
  <2>1. New(p) /\ p # o
    OBVIOUS
  <2>2. op[p].status = "none"
    BY <2>1, LedgerFacts
  <2> QED BY <2>1, <2>2, <1>o
<1>3. ASSUME NEW r \in Sources, src'[r].st # "gone", src'[r].lease # NoOp
      PROVE  \E l \in Ops : l = src'[r].lease /\ LeaseOf(r, l)'
  <2>1. src[r].st # "gone" /\ src[r].lease # NoOp /\ src'[r].lease = src[r].lease
    BY <1>3, <1>s
  <2>2. PICK l \in Ops : l = src[r].lease /\ LeaseOf(r, l)
    BY <2>1, LedgerFacts
  <2>3. l # o
    BY <1>3, <1>l, <2>1, <2>2 DEF LeaseOf
  <2> QED BY <2>1, <2>2, <2>3, <1>o, <1>s DEF LeaseOf
<1>4. \A p \in snaps' : worker'[p].pc \in {"sweep", "done"} /\ op'[p].status # "running"
  BY <1>o, LedgerFacts
<1>5. ASSUME NEW r \in Sources, src'[r].st = "live", src'[r].snap # NoOp
      PROVE  \E p \in snaps' : p = src'[r].snap /\ SnapOf(r, p)'
  <2>1. PICK p \in snaps : p = src[r].snap /\ SnapOf(r, p)
    BY <1>5, <1>s, LedgerFacts
  <2>2. p \in Ops
    BY LedgerFacts
  <2> QED BY <2>1, <2>2, <1>o, <1>s DEF SnapOf
<1>6. ASSUME NEW x \in staged'
      PROVE  x[1] \in Ops /\ ~New(x[1])' /\ src'[op'[x[1]].src].st = "live"
  <2>1. x[1] \in Ops /\ ~New(x[1]) /\ src[op[x[1]].src].st = "live" /\ op[x[1]].src \in Sources
    BY LedgerFacts
  <2> QED BY <2>1, <1>o, <1>s
<1> QED BY <1>1, <1>2, <1>3, <1>4, <1>5, <1>6, LedgerNext

\* The two cleanup rows of o.
LEMMA RegisterNext ==
  ASSUME RefreshInv, NEW o \in Ops, RegisterMarketplaceDirectoryCleanup(o)
  PROVE  RefreshInv'
<1>e. /\ worker[o].pc = "register" /\ Go(o, "fetch")
      /\ rows' = [rows EXCEPT ![<<o, "staging">>] = ProvisionalRow,
                              ![<<o, "snapshot">>] = ProvisionalRow]
      /\ UNCHANGED <<src, op, expired, snaps, disk, cleaner, staged, catalog, setting>>
  BY DEF RegisterMarketplaceDirectoryCleanup, pkgVars
<1>w. /\ worker' \in [Ops -> WorkerState]
      /\ \A p \in Ops : /\ worker'[p].pc = IF p = o THEN "fetch" ELSE worker[p].pc
                        /\ worker'[p].content = worker[p].content
  BY <1>e, GoFields DEF RefreshInv, LedgerInv, LedgerType, Pcs
<1>r. /\ rows' \in [Paths -> CleanupRow]
      /\ \A p \in Ops, k \in Kinds : p # o => rows'[<<p, k>>] = rows[<<p, k>>]
      /\ \A k \in Kinds : rows'[<<o, k>>].state = "provisional"
  <2>1. ProvisionalRow \in CleanupRow /\ ProvisionalRow.state = "provisional"
    BY DEF ProvisionalRow, NoRow, CleanupRow
  <2>2. rows \in [Paths -> CleanupRow]
    BY DEF RefreshInv, DirectoryInv, DirectoryType
  <2>3. rows' \in [Paths -> CleanupRow]
    BY <1>e, <2>1, <2>2
  <2>4. ASSUME NEW p \in Ops, NEW k \in Kinds
        PROVE  rows'[<<p, k>>] = IF p = o THEN ProvisionalRow ELSE rows[<<p, k>>]
    BY <1>e, <2>2, PathFacts DEF Kinds
  <2> QED BY <2>1, <2>3, <2>4
<1>1. LedgerInv'
  <2>1. \A p \in Ops : New(p)' => New(p)
    BY <1>w DEF New
  <2>2. \A p \in snaps : worker'[p].pc \in {"sweep", "done"}
                           /\ worker'[p].content = worker[p].content
    BY <1>e, <1>w, LedgerFacts DEF RefreshInv
  <2> QED BY <1>e, <1>w, <2>1, <2>2, LedgerFrame DEF RefreshInv
<1>s. o \notin snaps /\ Unregistered(o)
  BY <1>e, LedgerFacts DEF RefreshInv, Unregistered
<1>2. DirectoryType'
  BY <1>e, <1>r DEF RefreshInv, DirectoryInv, DirectoryType
<1>3. CleanupInv'
  <2>1. ASSUME NEW p \in Ops, NEW k \in Kinds
        PROVE  /\ Unregistered(p)' => rows'[<<p, k>>].state = "none" /\ <<p, k>> \notin disk'
               /\ rows'[<<p, k>>].state = "retired" => ~Running(p)'
    <3>1. CASE p = o
      BY <3>1, <1>e, <1>w, <1>r DEF Unregistered
    <3>2. CASE p # o
      <4>1. rows'[<<p, k>>] = rows[<<p, k>>] /\ (Unregistered(p)' => Unregistered(p))
        BY <3>2, <1>w, <1>r DEF Unregistered
      <4> QED BY <4>1, <1>e DEF RefreshInv, DirectoryInv, CleanupInv, Running
    <3> QED BY <3>1, <3>2
  <2>2. \A p \in snaps : rows'[<<p, "snapshot">>].state = "none" /\ <<p, "snapshot">> \in disk
    BY <1>r, <1>s, LedgerFacts DEF RefreshInv, DirectoryInv, CleanupInv, Kinds
  <2>3. \A p \in Ops : worker'[p].pc = "promote" /\ Leased(p)' => <<p, "snapshot">> \in disk
    BY <1>e, <1>w DEF RefreshInv, DirectoryInv, CleanupInv, Leased, Running
  <2> QED BY <1>e, <2>1, <2>2, <2>3 DEF CleanupInv
<1>4. CleanerInv'
  BY <1>e, <1>w DEF RefreshInv, DirectoryInv, CleanerInv, Leased, Running, Unregistered
<1>5. OwnerInv'
  <2> SUFFICES ASSUME "crash" \notin Calls, NEW p \in Ops, NEW k \in Kinds, <<p, k>> \in disk
               PROVE  /\ \/ Tended(p, k)' \/ rows'[<<p, k>>].state # "none"
                         \/ (k = "snapshot" /\ p \in snaps')
                      /\ \A c \in Cleaners :
                           cleaner[c].removed /\ cleaner[c].path = <<p, k>> => Tended(p, k)'
    BY <1>e DEF OwnerInv, Calls
  <2>1. p # o
    BY <1>s DEF RefreshInv, DirectoryInv, CleanupInv
  <2>2. Tended(p, k)' = Tended(p, k)
    BY <2>1, <1>w DEF Tended, Alive
  <2> QED BY <1>e, <1>r, <2>1, <2>2 DEF RefreshInv, DirectoryInv, OwnerInv
<1> QED BY <1>1, <1>2, <1>3, <1>4, <1>5 DEF RefreshInv, DirectoryInv

\* A step that takes at most leases and reservations away.
LEMMA Quiet ==
  ASSUME RefreshInv,
         UNCHANGED <<setting, src, op, snaps, catalog, worker, rows, disk, cleaner>>,
         \A o \in expired : o \in expired', \A x \in staged' : x \in staged
  PROVE  RefreshInv'
<1>1. LedgerInv'
  <2>1. \A o \in Ops : New(o)' => New(o)
    BY DEF New
  <2>2. \A o \in snaps : worker'[o].pc \in {"sweep", "done"}
                           /\ worker'[o].content = worker[o].content
    BY LedgerFacts DEF RefreshInv
  <2> QED BY <2>1, <2>2, LedgerFrame DEF RefreshInv, LedgerInv, LedgerType
<1>2. DirectoryInv'
  <2>1. \A o \in Ops : /\ Running(o)' => Running(o) \/ New(o)
                       /\ Leased(o)' => Leased(o) \/ New(o)
                       /\ Unregistered(o)' => Unregistered(o)
                       /\ worker'[o].pc = "promote" => worker[o].pc = "promote"
    BY DEF Running, Leased, Unregistered
  <2>2. \A o \in Ops, k \in Kinds : <<o, k>> \in disk /\ Tended(o, k) => Tended(o, k)'
    BY DEF Tended, Alive
  <2> QED BY <2>1, <2>2, DirectoryFrame DEF RefreshInv
<1> QED BY <1>1, <1>2 DEF RefreshInv

LEMMA GCNext == ASSUME RefreshInv, NEW i, RunPackageGC(i) PROVE RefreshInv'
BY Quiet DEF RunPackageGC, dirVars

LEMMA ExpireNext == ASSUME RefreshInv, NEW o, Expire(o) PROVE RefreshInv'
BY Quiet DEF Expire, dirVars, pkgVars

\* A failure is recorded; the worker goes on, or somebody else recorded it.
LEMMA FailureNext ==
  ASSUME RefreshInv, NEW o \in Ops, ~New(o), op' = [op EXCEPT ![o].status = "failed"],
         src' = src \/ src' = [src EXCEPT ![op[o].src].lease = NoOp],
         src' = src => ~(src[op[o].src].st # "gone" /\ src[op[o].src].lease = o),
         UNCHANGED <<setting, snaps, catalog, rows, disk, cleaner>>,
         \A p \in expired : p \in expired', \A x \in staged' : x \in staged,
         worker' = worker \/ (worker[o].pc = "save" /\ Go(o, "sweep"))
  PROVE  RefreshInv'
<1>w. /\ worker' \in [Ops -> WorkerState]
      /\ \A p \in Ops : /\ worker'[p].pc = worker[p].pc
                             \/ (p = o /\ worker[p].pc = "save" /\ worker'[p].pc = "sweep")
                        /\ worker'[p].content = worker[p].content
  <2>1. worker \in [Ops -> WorkerState] /\ "sweep" \in Pcs
    BY DEF RefreshInv, LedgerInv, LedgerType, Pcs
  <2>2. CASE worker' = worker
    BY <2>1, <2>2
  <2>3. CASE worker[o].pc = "save" /\ Go(o, "sweep")
    BY <2>1, <2>3, GoFields
  <2> QED BY <2>2, <2>3
<1>1. LedgerInv'
  <2>1. \A p \in Ops : New(p)' => New(p)
    BY <1>w DEF New
  <2>2. \A p \in snaps : worker'[p].pc \in {"sweep", "done"}
                           /\ worker'[p].content = worker[p].content
    BY <1>w, LedgerFacts DEF RefreshInv
  <2> QED BY <1>w, <2>1, <2>2, FailedNext DEF RefreshInv
<1>2. DirectoryInv'
  <2>1. \A p \in Ops : Running(p)' => Running(p)
    BY StatusFields DEF RefreshInv, LedgerInv, LedgerType, Running
  <2>2. \A p \in Ops : /\ Running(p)' => Running(p) \/ New(p)
                       /\ Leased(p)' => Leased(p) \/ New(p)
                       /\ Unregistered(p)' => Unregistered(p)
                       /\ worker'[p].pc = "promote" => worker[p].pc = "promote"
    BY <1>w, <2>1 DEF Leased, Unregistered
  <2>3. \A p \in Ops, k \in Kinds : <<p, k>> \in disk /\ Tended(p, k) => Tended(p, k)'
    BY <1>w DEF Tended, Alive
  <2> QED BY <2>2, <2>3, DirectoryFrame DEF RefreshInv
<1> QED BY <1>1, <1>2 DEF RefreshInv

LEMMA SaveNext ==
  ASSUME RefreshInv, NEW o \in Ops, SaveRefreshOperation(o)
  PROVE  RefreshInv'
<1>1. /\ worker[o].pc = "save" /\ Go(o, "sweep")
      /\ UNCHANGED <<setting, snaps, catalog, expired, staged, rows, disk, cleaner>>
  BY DEF SaveRefreshOperation, dirVars, pkgVars
<1>2. \/ /\ op' = [op EXCEPT ![o].status = "failed"]
         /\ \/ src' = [src EXCEPT ![op[o].src].lease = NoOp]
            \/ src[op[o].src].st = "gone" /\ src' = src
      \/ UNCHANGED <<op, src>>
  BY DEF SaveRefreshOperation
<1>3. CASE UNCHANGED <<op, src>>
  BY <1>1, <1>3, Moved DEF Pcs
<1>4. CASE /\ op' = [op EXCEPT ![o].status = "failed"]
           /\ \/ src' = [src EXCEPT ![op[o].src].lease = NoOp]
              \/ src[op[o].src].st = "gone" /\ src' = src
  <2>1. ~New(o)
    BY <1>1 DEF New
  <2>2. src' = src => ~(src[op[o].src].st # "gone" /\ src[op[o].src].lease = o)
    <3>1. CASE src[op[o].src].st = "gone"
      BY <3>1
    <3>2. CASE src' = [src EXCEPT ![op[o].src].lease = NoOp]
      <4>1. src \in [Sources -> SourceRow] /\ op[o].src \in Sources /\ o # NoOp
        BY PathFacts, LedgerFacts DEF RefreshInv, LedgerInv, LedgerType, Ops, NoOp
      <4>2. src'[op[o].src].lease = NoOp
        BY <3>2, <4>1 DEF SourceRow
      <4> QED BY <4>1, <4>2
    <3> QED BY <1>4, <3>1, <3>2
  <2> QED BY <1>1, <1>4, <2>1, <2>2, FailureNext
<1> QED BY <1>2, <1>3, <1>4

LEMMA AbandonNext ==
  ASSUME RefreshInv, NEW o \in Ops, AbandonMarketplaceRefresh(o)
  PROVE  RefreshInv'
<1>1. /\ ~New(o) /\ src[op[o].src].st # "gone"
      /\ \A x \in staged' : x \in staged
      /\ UNCHANGED <<setting, snaps, catalog, worker, rows, disk, cleaner>>
  BY DEF AbandonMarketplaceRefresh, CleanStaging, Unstaged, dirVars, New
<1>2. \/ UNCHANGED <<op, src, expired>>
      \/ /\ src[op[o].src].lease = o
         /\ op' = [op EXCEPT ![o].status = "failed"]
         /\ src' = [src EXCEPT ![op[o].src].lease = NoOp]
         /\ expired' = expired \cup {o}
  BY DEF AbandonMarketplaceRefresh
<1>3. CASE UNCHANGED <<op, src, expired>>
  BY <1>1, <1>3, Quiet
<1>4. CASE /\ src[op[o].src].lease = o
           /\ op' = [op EXCEPT ![o].status = "failed"]
           /\ src' = [src EXCEPT ![op[o].src].lease = NoOp]
           /\ expired' = expired \cup {o}
  <2>1. src \in [Sources -> SourceRow] /\ op[o].src \in Sources /\ o # NoOp
    BY LedgerFacts DEF RefreshInv, LedgerInv, LedgerType, Ops, NoOp
  <2>2. src' # src
    <3>1. src'[op[o].src].lease = NoOp
      BY <1>4, <2>1 DEF SourceRow
    <3> QED BY <1>4, <2>1, <3>1
  <2> QED BY <1>1, <1>4, <2>2, FailureNext
<1> QED BY <1>2, <1>3, <1>4

LEMMA StageNext ==
  ASSUME RefreshInv, NEW o \in Ops, StagePackageAcquisition(o)
  PROVE  RefreshInv'
<1>1. /\ worker[o].pc = "stage"
      /\ UNCHANGED <<setting, src, op, snaps, catalog, expired, rows, disk, cleaner>>
  BY DEF StagePackageAcquisition, dirVars
<1>2. \/ /\ src[op[o].src].st = "live" /\ Go(o, "publish")
         /\ staged' = staged \cup {<<o, NextDigest(o)>>}
      \/ Go(o, "abort") /\ UNCHANGED staged
  BY DEF StagePackageAcquisition, MayReserve
<1>3. CASE /\ src[op[o].src].st = "live" /\ Go(o, "publish")
           /\ staged' = staged \cup {<<o, NextDigest(o)>>}
  <2>1. \A x \in staged' : x \in staged \/ Backed(x)
    BY <1>1, <1>3 DEF Backed, New
  <2> QED BY <1>1, <1>3, <2>1, Moved DEF Pcs
<1>4. CASE Go(o, "abort") /\ UNCHANGED staged
  BY <1>1, <1>4, Moved DEF Pcs
<1> QED BY <1>2, <1>3, <1>4

LEMMA PublishNext ==
  ASSUME RefreshInv, NEW o \in Ops, PublishPackageAcquisition(o)
  PROVE  RefreshInv'
<1>1. /\ worker[o].pc = "publish"
      /\ UNCHANGED <<setting, src, op, snaps, catalog, expired, staged, rows, disk, cleaner>>
  BY DEF PublishPackageAcquisition, dirVars
<1>2. CASE Go(o, "abort")
  BY <1>1, <1>2, Moved DEF Pcs
<1>3. ASSUME NEW d, NEW pc \in {"rename", "stage"},
             worker' = [worker EXCEPT ![o].todo = @ \ {d}, ![o].pc = pc]
      PROVE  RefreshInv'
  <2> DEFINE row == [worker[o] EXCEPT !.todo = @ \ {d}, !.pc = pc]
  <2>1. worker \in [Ops -> WorkerState]
    BY DEF RefreshInv, LedgerInv, LedgerType
  <2>2. row \in WorkerState /\ row.pc = pc
    BY <2>1 DEF WorkerState, Pcs
  <2>3. worker' = [worker EXCEPT ![o] = row]
    BY <1>3, <2>1
  <2> HIDE DEF row
  <2>4. Steps(o, pc)
    BY <2>1, <2>2, <2>3 DEF Steps
  <2> QED BY <1>1, <2>4, Stepped
<1>4. \/ Go(o, "abort")
      \/ \E d : \E pc \in {"rename", "stage"} :
           worker' = [worker EXCEPT ![o].todo = @ \ {d}, ![o].pc = pc]
  BY DEF PublishPackageAcquisition
<1> QED BY <1>2, <1>3, <1>4

LEMMA FailNext == ASSUME RefreshInv, NEW o \in Ops, Fail(o) PROVE RefreshInv'
BY Moved DEF Fail, Pcs, dirVars, pkgVars

LEMMA CompleteNext ==
  ASSUME RefreshInv, NEW o \in Ops, CompletePackageAcquisitions(o)
  PROVE  RefreshInv'
<1>1. \A x \in staged' : x \in staged
  BY DEF CompletePackageAcquisitions, CleanStaging, Unstaged
<1> QED BY <1>1, Moved DEF CompletePackageAcquisitions, Pcs, dirVars

\* The worker of o makes, moves or removes a directory of o.
LEMMA DiskSteps ==
  ASSUME RefreshInv, NEW o \in Ops, NEW pc, Steps(o, pc),
         UNCHANGED <<setting, op, snaps, expired, rows, cleaner>>,
         ~Unregistered(o), pc \notin {"idle", "acquire", "register"},
         disk' \subseteq Paths,
         \A p \in Ops, k \in Kinds : p # o => (<<p, k>> \in disk' <=> <<p, k>> \in disk),
         o \in snaps => <<o, "snapshot">> \in disk',
         pc = "promote" => <<o, "snapshot">> \in disk',
         \A k \in Kinds : <<o, k>> \in disk' =>
           Tended(o, k)' \/ (<<o, k>> \in disk /\ (Tended(o, k) => Tended(o, k)'))
  PROVE  DirectoryInv'
<1>w. \A p \in Ops : worker'[p].pc = IF p = o THEN pc ELSE worker[p].pc
  BY DEF Steps
<1>u. \A p \in Ops : /\ Unregistered(p)' = Unregistered(p) /\ Leased(p)' = Leased(p)
                     /\ Running(p)' = Running(p)
  BY <1>w DEF Unregistered, Leased, Running
<1>1. DirectoryType'
  BY DEF RefreshInv, DirectoryInv, DirectoryType
<1>2. CleanupInv'
  <2>1. ASSUME NEW p \in Ops, NEW k \in Kinds
        PROVE  /\ Unregistered(p)' => rows'[<<p, k>>].state = "none" /\ <<p, k>> \notin disk'
               /\ rows'[<<p, k>>].state = "retired" => ~Running(p)'
    BY <1>u DEF RefreshInv, DirectoryInv, CleanupInv
  <2>2. ASSUME NEW p \in snaps, p \in Ops
        PROVE  rows'[<<p, "snapshot">>].state = "none" /\ <<p, "snapshot">> \in disk'
    BY <2>2 DEF RefreshInv, DirectoryInv, CleanupInv, Kinds
  <2>3. ASSUME NEW p \in Ops, worker'[p].pc = "promote", Leased(p)'
        PROVE  <<p, "snapshot">> \in disk'
    BY <2>3, <1>w, <1>u DEF RefreshInv, DirectoryInv, CleanupInv, Kinds
  <2>4. \A p \in snaps' : p \in snaps /\ p \in Ops
    BY LedgerFacts DEF RefreshInv
  <2> QED BY <2>1, <2>2, <2>3, <2>4 DEF CleanupInv
<1>3. CleanerInv'
  BY <1>u DEF RefreshInv, DirectoryInv, CleanerInv
<1>4. OwnerInv'
  <2> SUFFICES ASSUME "crash" \notin Calls, NEW p \in Ops, NEW k \in Kinds, <<p, k>> \in disk'
               PROVE  /\ \/ Tended(p, k)' \/ rows[<<p, k>>].state # "none"
                         \/ (k = "snapshot" /\ p \in snaps)
                      /\ \A c \in Cleaners :
                           cleaner[c].removed /\ cleaner[c].path = <<p, k>> => Tended(p, k)'
    BY DEF OwnerInv, Calls
  <2>1. Tended(p, k)' \/ (<<p, k>> \in disk /\ (Tended(p, k) => Tended(p, k)'))
    <3>1. p # o => Tended(p, k)' = Tended(p, k)
      BY <1>w DEF Tended, Alive
    <3> QED BY <3>1
  <2> QED BY <2>1 DEF RefreshInv, DirectoryInv, OwnerInv
<1> QED BY <1>1, <1>2, <1>3, <1>4 DEF DirectoryInv

\* Fetch, Rename and Unlink, whose operation is still open.
LEMMA DiskStepped ==
  ASSUME RefreshInv, NEW o \in Ops, NEW pc, Steps(o, pc),
         UNCHANGED <<setting, src, op, snaps, catalog, expired, staged, rows, cleaner>>,
         ~Unregistered(o), worker[o].pc \notin {"sweep", "done"},
         pc \notin {"idle", "acquire", "register"},
         disk' \subseteq Paths,
         \A p \in Ops, k \in Kinds : p # o => (<<p, k>> \in disk' <=> <<p, k>> \in disk),
         pc = "promote" => <<o, "snapshot">> \in disk',
         \A k \in Kinds : <<o, k>> \in disk' =>
           Tended(o, k)' \/ (<<o, k>> \in disk /\ (Tended(o, k) => Tended(o, k)'))
  PROVE  RefreshInv'
<1>1. o \notin snaps /\ ~New(o)
  BY LedgerFacts DEF RefreshInv, Unregistered, New
<1>2. LedgerInv'
  BY <1>1, LedgerSteps DEF RefreshInv
<1>3. DirectoryInv'
  BY <1>1, DiskSteps
<1> QED BY <1>2, <1>3 DEF RefreshInv

LEMMA FetchNext ==
  ASSUME RefreshInv, NEW o \in Ops, Fetch(o)
  PROVE  RefreshInv'
<1>1. /\ worker[o].pc = "fetch" /\ disk' = disk \cup {<<o, "staging">>}
      /\ UNCHANGED <<setting, src, op, snaps, catalog, expired, staged, rows, cleaner>>
  BY DEF Fetch, pkgVars
<1>2. PICK content \in SUBSET setting.digests :
        worker' = [worker EXCEPT ![o] = [pc |-> IF content = {} THEN "rename" ELSE "stage",
                                         content |-> content, todo |-> content]]
  BY DEF Fetch
<1> DEFINE row == [pc |-> IF content = {} THEN "rename" ELSE "stage",
                   content |-> content, todo |-> content]
<1>3. PICK pc \in {"rename", "stage"} : row.pc = pc
  OBVIOUS
<1>4. worker \in [Ops -> WorkerState] /\ setting.digests \subseteq Digests /\ disk \subseteq Paths
  BY DEF RefreshInv, LedgerInv, LedgerType, DirectoryInv, DirectoryType, Setting
<1>5. row \in WorkerState
  BY <1>4 DEF WorkerState, Pcs
<1> HIDE DEF row
<1>6. Steps(o, pc)
  BY <1>2, <1>3, <1>4, <1>5 DEF Steps, row
<1>7. disk' \subseteq Paths
  BY <1>1, <1>4, PathFacts, ZenonT(30) DEF Kinds
<1>8. \A p \in Ops, k \in Kinds : p # o => (<<p, k>> \in disk' <=> <<p, k>> \in disk)
  BY <1>1, PathFacts
<1>9. ASSUME NEW k \in Kinds, <<o, k>> \in disk'
      PROVE  Tended(o, k)' \/ (<<o, k>> \in disk /\ (Tended(o, k) => Tended(o, k)'))
  <2>1. CASE k = "staging"
    BY <2>1, <1>6 DEF Tended, Alive, Steps
  <2>2. CASE k = "snapshot"
    BY <2>2, <1>1, <1>9, PathFacts DEF Tended
  <2> QED BY <2>1, <2>2 DEF Kinds
<1> QED BY <1>1, <1>6, <1>7, <1>8, <1>9, DiskStepped DEF Unregistered

LEMMA RenameNext ==
  ASSUME RefreshInv, NEW o \in Ops, Rename(o)
  PROVE  RefreshInv'
<1>1. /\ worker[o].pc = "rename"
      /\ UNCHANGED <<setting, src, op, snaps, catalog, expired, staged, rows, cleaner>>
  BY DEF Rename, pkgVars
<1>2. CASE Go(o, "abort") /\ UNCHANGED disk
  BY <1>1, <1>2, Moved DEF Pcs
<1>3. CASE /\ disk' = (disk \ {<<o, "staging">>}) \cup {<<o, "snapshot">>}
           /\ Go(o, "promote")
  <2>1. Steps(o, "promote")
    BY <1>3, GoSteps DEF Pcs
  <2>2. disk' \subseteq Paths
    <3>1. disk \subseteq Paths /\ <<o, "snapshot">> \in Paths
      BY PathFacts DEF Kinds, RefreshInv, DirectoryInv, DirectoryType
    <3> QED BY <1>3, <3>1
  <2>3. \A p \in Ops, k \in Kinds : p # o => (<<p, k>> \in disk' <=> <<p, k>> \in disk)
    BY <1>3, PathFacts
  <2>4. \A k \in Kinds : Tended(o, k)'
    BY <2>1 DEF Tended, Alive, Steps
  <2>5. <<o, "snapshot">> \in disk'
    BY <1>3
  <2> QED BY <1>1, <2>1, <2>2, <2>3, <2>4, <2>5, DiskStepped DEF Unregistered
<1> QED BY <1>2, <1>3 DEF Rename

LEMMA UnlinkNext ==
  ASSUME RefreshInv, NEW o \in Ops, Unlink(o)
  PROVE  RefreshInv'
<1>1. /\ worker[o].pc = "unlink" /\ disk' = disk \ {<<o, "snapshot">>} /\ Go(o, "abort")
      /\ UNCHANGED <<setting, src, op, snaps, catalog, expired, staged, rows, cleaner>>
  BY DEF Unlink, pkgVars
<1>2. Steps(o, "abort")
  BY <1>1, GoSteps DEF Pcs
<1>3. disk' \subseteq Paths
  BY <1>1 DEF RefreshInv, DirectoryInv, DirectoryType
<1>4. \A p \in Ops, k \in Kinds : p # o => (<<p, k>> \in disk' <=> <<p, k>> \in disk)
  BY <1>1, PathFacts
<1>5. ASSUME NEW k \in Kinds, <<o, k>> \in disk' PROVE Tended(o, k)'
  BY <1>1, <1>2, <1>5 DEF Tended, Alive, Steps, Kinds
<1> QED BY <1>1, <1>2, <1>3, <1>4, <1>5, DiskStepped DEF Unregistered

LEMMA SweepNext ==
  ASSUME RefreshInv, NEW o \in Ops, Sweep(o)
  PROVE  RefreshInv'
<1>1. /\ worker[o].pc = "sweep" /\ disk' = disk \ {<<o, "staging">>} /\ Go(o, "done")
      /\ UNCHANGED <<setting, src, op, snaps, catalog, expired, staged, rows, cleaner>>
  BY DEF Sweep, pkgVars
<1>2. Steps(o, "done")
  BY <1>1, GoSteps DEF Pcs
<1>3. LedgerInv'
  <2>1. /\ worker' \in [Ops -> WorkerState]
        /\ \A p \in Ops : /\ worker'[p].pc = IF p = o THEN "done" ELSE worker[p].pc
                          /\ worker'[p].content = worker[p].content
    BY <1>1, GoFields DEF Pcs, RefreshInv, LedgerInv, LedgerType
  <2>2. \A p \in Ops : New(p)' => New(p)
    BY <2>1 DEF New
  <2>3. \A p \in snaps : worker'[p].pc \in {"sweep", "done"}
                           /\ worker'[p].content = worker[p].content
    BY <2>1, LedgerFacts DEF RefreshInv
  <2> QED BY <1>1, <2>1, <2>2, <2>3, LedgerFrame DEF RefreshInv
<1>4. DirectoryInv'
  <2>1. disk' \subseteq Paths
    BY <1>1 DEF RefreshInv, DirectoryInv, DirectoryType
  <2>2. \A p \in Ops, k \in Kinds : p # o => (<<p, k>> \in disk' <=> <<p, k>> \in disk)
    BY <1>1, PathFacts
  <2>3. o \in snaps => <<o, "snapshot">> \in disk'
    BY <1>1, PathFacts DEF RefreshInv, DirectoryInv, CleanupInv
  <2>4. ASSUME NEW k \in Kinds, <<o, k>> \in disk'
        PROVE  <<o, k>> \in disk /\ ~Tended(o, k)
    BY <1>1, <2>4 DEF Kinds, Tended
  <2> QED BY <1>1, <1>2, <2>1, <2>2, <2>3, <2>4, DiskSteps DEF Unregistered
<1> QED BY <1>3, <1>4 DEF RefreshInv

----------------------------------------------------------------------------
(* Edits and deletions *)

\* The row of s is replaced, and the refresh it named fails or keeps its lease.
LEMMA SourceReplaced ==
  ASSUME RefreshInv, NEW s \in Sources, NEW row \in SourceRow, src' = [src EXCEPT ![s] = row],
         UNCHANGED <<setting, worker>>,
         op' \in [Ops -> OperationRow],
         \A p \in Ops : /\ op'[p].src = op[p].src /\ op'[p].rev = op[p].rev
                        /\ op'[p].signer = op[p].signer
                        /\ op'[p].status = op[p].status
                             \/ (op[p].src = s /\ ~New(p) /\ op'[p].status = "failed"),
         row.st # "gone" /\ row.lease # NoOp =>
           /\ src[s].st # "gone" /\ op' = op /\ row.lease = src[s].lease
           /\ row.rev = src[s].rev /\ row.signer = src[s].signer,
         row.st = "live" => row.snap = NoOp,
         catalog' \in [Sources -> SUBSET [digest : Digests, signer : Signers]],
         \A r \in Sources \ {s} : catalog'[r] = catalog[r],
         \A p \in snaps' : p \in snaps,
         \A p \in snaps : p \in snaps' \/ op[p].src = s,
         \A x \in staged' : x \in staged /\ (op[x[1]].src = s => row.st = "live")
  PROVE  LedgerInv'
<1>s. \A r \in Sources : src'[r] = IF r = s THEN row ELSE src[r]
  BY DEF RefreshInv, LedgerInv, LedgerType
<1>1. LedgerType'
  BY DEF RefreshInv, LedgerInv, LedgerType
<1>2. \A p \in Ops : New(p)' => op'[p].status = "none"
  BY LedgerFacts DEF RefreshInv, New
<1>3. ASSUME NEW r \in Sources, src'[r].st # "gone", src'[r].lease # NoOp
      PROVE  \E l \in Ops : l = src'[r].lease /\ LeaseOf(r, l)'
  <2>1. CASE r = s
    <3>1. src[s].st # "gone" /\ op' = op /\ src'[s].lease = src[s].lease
          /\ src'[s].rev = src[s].rev /\ src'[s].signer = src[s].signer
      BY <1>3, <2>1, <1>s
    <3>2. PICK l \in Ops : l = src[s].lease /\ LeaseOf(s, l)
      BY <1>3, <2>1, <3>1, LedgerFacts DEF RefreshInv
    <3> QED BY <2>1, <3>1, <3>2 DEF LeaseOf
  <2>2. CASE r # s
    <3>1. src'[r] = src[r]
      BY <2>2, <1>s
    <3>2. PICK l \in Ops : l = src[r].lease /\ LeaseOf(r, l)
      BY <1>3, <3>1, LedgerFacts DEF RefreshInv
    <3>3. op'[l].status = op[l].status
      BY <2>2, <3>2 DEF LeaseOf
    <3> QED BY <3>1, <3>2, <3>3 DEF LeaseOf
  <2> QED BY <2>1, <2>2
<1>4. \A p \in snaps' : worker'[p].pc \in {"sweep", "done"} /\ op'[p].status # "running"
  BY LedgerFacts DEF RefreshInv
<1>5. ASSUME NEW r \in Sources, src'[r].st = "live", src'[r].snap # NoOp
      PROVE  \E p \in snaps' : p = src'[r].snap /\ SnapOf(r, p)'
  <2>1. r # s /\ src'[r] = src[r]
    BY <1>5, <1>s
  <2>2. PICK p \in snaps : p = src[r].snap /\ SnapOf(r, p)
    BY <1>5, <2>1, LedgerFacts DEF RefreshInv
  <2>3. p \in Ops /\ p \in snaps'
    BY <2>1, <2>2, LedgerFacts DEF RefreshInv, SnapOf
  <2> QED BY <2>1, <2>2, <2>3 DEF SnapOf
<1>6. ASSUME NEW x \in staged'
      PROVE  x[1] \in Ops /\ ~New(x[1])' /\ src'[op'[x[1]].src].st = "live"
  <2>1. x[1] \in Ops /\ ~New(x[1]) /\ src[op[x[1]].src].st = "live" /\ op[x[1]].src \in Sources
    BY LedgerFacts DEF RefreshInv
  <2> QED BY <2>1, <1>s DEF New
<1> QED BY <1>1, <1>2, <1>3, <1>4, <1>5, <1>6, LedgerNext

LEMMA UpdateNext ==
  ASSUME RefreshInv, NEW s \in Sources, NEW g \in Signers, UpdateMarketplaceSource(s, g)
  PROVE  RefreshInv'
<1> DEFINE row == [st |-> "live", rev |-> src[s].rev + 1, signer |-> g,
                   snap |-> NoOp, lease |-> NoOp]
<1>t. src \in [Sources -> SourceRow] /\ op \in [Ops -> OperationRow]
  BY DEF RefreshInv, LedgerInv, LedgerType
<1>1. /\ src[s].st = "live" /\ src' = [src EXCEPT ![s] = row]
      /\ UNCHANGED <<setting, staged, catalog, snaps, worker, rows, disk, cleaner>>
  BY DEF UpdateMarketplaceSource, dirVars
<1>2. \/ src[s].lease = NoOp /\ UNCHANGED <<op, expired>>
      \/ /\ src[s].lease # NoOp /\ op' = [op EXCEPT ![src[s].lease].status = "failed"]
         /\ expired' = expired \cup {src[s].lease}
  BY DEF UpdateMarketplaceSource
<1>3. row \in SourceRow /\ row.st = "live" /\ row.snap = NoOp /\ row.lease = NoOp
  BY <1>t DEF SourceRow
<1> HIDE DEF row
<1>4. /\ op' \in [Ops -> OperationRow]
      /\ \A p \in Ops : /\ op'[p].src = op[p].src /\ op'[p].rev = op[p].rev
                        /\ op'[p].signer = op[p].signer
                        /\ op'[p].status = op[p].status
                             \/ (op[p].src = s /\ ~New(p) /\ op'[p].status = "failed")
      /\ \A p \in expired : p \in expired'
  <2>1. CASE src[s].lease = NoOp /\ UNCHANGED <<op, expired>>
    BY <2>1, <1>t
  <2>2. CASE /\ src[s].lease # NoOp /\ op' = [op EXCEPT ![src[s].lease].status = "failed"]
             /\ expired' = expired \cup {src[s].lease}
    <3>1. PICK l \in Ops : l = src[s].lease /\ LeaseOf(s, l) /\ ~New(l)
      BY <2>2, <1>1, LedgerFacts DEF RefreshInv
    <3>2. op' = [op EXCEPT ![l].status = "failed"]
      BY <2>2, <3>1
    <3>3. /\ op' \in [Ops -> OperationRow]
          /\ \A p \in Ops : /\ op'[p].status = IF p = l THEN "failed" ELSE op[p].status
                            /\ op'[p].src = op[p].src /\ op'[p].rev = op[p].rev
                            /\ op'[p].signer = op[p].signer
      BY <3>2, <1>t, StatusFields
    <3> QED BY <3>1, <3>3, <2>2 DEF LeaseOf
  <2> QED BY <1>2, <2>1, <2>2
<1>5. LedgerInv'
  <2>1. catalog' \in [Sources -> SUBSET [digest : Digests, signer : Signers]]
    BY <1>1 DEF RefreshInv, LedgerInv, LedgerType
  <2> QED BY <1>1, <1>3, <1>4, <2>1, SourceReplaced
<1>6. DirectoryInv'
  <2>1. \A p \in Ops : /\ Running(p)' => Running(p) \/ New(p)
                       /\ Leased(p)' => Leased(p) \/ New(p)
                       /\ Unregistered(p)' => Unregistered(p)
                       /\ worker'[p].pc = "promote" => worker[p].pc = "promote"
    BY <1>1, <1>4 DEF Running, Leased, Unregistered
  <2>2. \A p \in Ops, k \in Kinds : <<p, k>> \in disk /\ Tended(p, k) => Tended(p, k)'
    BY <1>1 DEF Tended, Alive
  <2> QED BY <1>1, <2>1, <2>2, DirectoryFrame DEF RefreshInv
<1> QED BY <1>5, <1>6 DEF RefreshInv

LEMMA DeletionNext ==
  ASSUME RefreshInv, NEW s \in Sources, CompleteMarketplaceSourceDeletion(s)
  PROVE  RefreshInv'
<1> DEFINE row == [src[s] EXCEPT !.st = "gone"]
<1>t. src \in [Sources -> SourceRow] /\ op \in [Ops -> OperationRow]
      /\ catalog \in [Sources -> SUBSET [digest : Digests, signer : Signers]]
  BY DEF RefreshInv, LedgerInv, LedgerType
<1>1. /\ src[s].st = "deleting" /\ src' = [src EXCEPT ![s] = row]
      /\ UNCHANGED <<setting, op, expired, staged, catalog, snaps, worker, rows, disk, cleaner>>
  BY <1>t DEF CompleteMarketplaceSourceDeletion, dirVars, pkgVars
<1>2. row \in SourceRow /\ row.st = "gone"
  BY <1>t DEF SourceRow
<1> HIDE DEF row
<1>3. \A x \in staged' : x \in staged /\ (op[x[1]].src = s => row.st = "live")
  BY <1>1, LedgerFacts DEF RefreshInv
<1>4. LedgerInv'
  <2>1. /\ op' \in [Ops -> OperationRow]
        /\ catalog' \in [Sources -> SUBSET [digest : Digests, signer : Signers]]
    BY <1>t, <1>1
  <2> QED BY <1>1, <1>2, <1>3, <2>1, SourceReplaced
<1>5. DirectoryInv'
  <2>1. \A p \in Ops : /\ Running(p)' => Running(p) \/ New(p)
                       /\ Leased(p)' => Leased(p) \/ New(p)
                       /\ Unregistered(p)' => Unregistered(p)
                       /\ worker'[p].pc = "promote" => worker[p].pc = "promote"
    BY <1>1 DEF Running, Leased, Unregistered
  <2>2. \A p \in Ops, k \in Kinds : <<p, k>> \in disk /\ Tended(p, k) => Tended(p, k)'
    BY <1>1 DEF Tended, Alive
  <2> QED BY <1>1, <2>1, <2>2, DirectoryFrame DEF RefreshInv
<1> QED BY <1>4, <1>5 DEF RefreshInv

\* The cleanup rows after the retirement of directories.
LEMMA RetiredFacts ==
  ASSUME rows \in [Paths -> CleanupRow], NEW paths, NEW new, new = Retired(paths)
  PROVE  /\ new \in [Paths -> CleanupRow]
         /\ \A p \in Paths :
              /\ p \in paths => new[p].state # "none"
              /\ p \notin paths => new[p] = rows[p]
              /\ new[p] = rows[p] \/ (new[p].state = "retired" /\ rows[p].state = "none")
<1>1. RetiredRow \in CleanupRow /\ RetiredRow.state = "retired"
  BY DEF RetiredRow, NoRow, CleanupRow
<1>2. /\ new \in [Paths -> CleanupRow]
      /\ \A p \in Paths : new[p] = IF p \in paths /\ rows[p].state = "none"
                                   THEN RetiredRow ELSE rows[p]
  BY <1>1 DEF Retired
<1> QED BY <1>1, <1>2

LEMMA DeleteNext ==
  ASSUME RefreshInv, NEW s \in Sources, DeleteMarketplaceSource(s)
  PROVE  RefreshInv'
<1> DEFINE row == [src[s] EXCEPT !.st = "deleting", !.snap = NoOp]
           mine == {p \in Ops : op[p].src = s}
           gone == snaps \cap mine
           paths == {<<p, "snapshot">> : p \in gone}
<1>t. src \in [Sources -> SourceRow] /\ op \in [Ops -> OperationRow]
      /\ catalog \in [Sources -> SUBSET [digest : Digests, signer : Signers]]
      /\ rows \in [Paths -> CleanupRow]
  BY DEF RefreshInv, LedgerInv, LedgerType, DirectoryInv, DirectoryType
<1>1. /\ src[s].st = "live" /\ rows' = Retired(paths) /\ snaps' = snaps \ gone
      /\ staged' = Unstaged(mine) /\ catalog' = [catalog EXCEPT ![s] = {}]
      /\ UNCHANGED <<setting, op, expired, disk, worker, cleaner>>
  BY DEF DeleteMarketplaceSource
<1>2. src' = [src EXCEPT ![s] = row]
  BY <1>t DEF DeleteMarketplaceSource
<1>3. /\ row \in SourceRow /\ row.st = "deleting" /\ row.snap = NoOp
      /\ row.lease = src[s].lease /\ row.rev = src[s].rev /\ row.signer = src[s].signer
  BY <1>t DEF SourceRow
<1>g. \A p \in snaps : p \in Ops /\ (p \in gone <=> op[p].src = s)
  BY LedgerFacts DEF RefreshInv
<1>r. /\ rows' \in [Paths -> CleanupRow]
      /\ \A p \in Ops, k \in Kinds :
           /\ k = "snapshot" /\ p \in gone => rows'[<<p, k>>].state # "none"
           /\ ~(k = "snapshot" /\ p \in gone) => rows'[<<p, k>>] = rows[<<p, k>>]
           /\ \/ rows'[<<p, k>>] = rows[<<p, k>>]
              \/ rows'[<<p, k>>].state = "retired" /\ rows[<<p, k>>].state = "none"
  <2> HIDE DEF gone
  <2>1. /\ rows' \in [Paths -> CleanupRow]
        /\ \A p \in Paths :
             /\ p \in paths => rows'[p].state # "none"
             /\ p \notin paths => rows'[p] = rows[p]
             /\ rows'[p] = rows[p] \/ (rows'[p].state = "retired" /\ rows[p].state = "none")
    <3> HIDE DEF paths
    <3> QED BY <1>t, <1>1, RetiredFacts
  <2>2. \A p \in Ops, k \in Kinds : <<p, k>> \in Paths
                                    /\ (<<p, k>> \in paths <=> k = "snapshot" /\ p \in gone)
    BY PathFacts
  <2> HIDE DEF paths
  <2> QED BY <2>1, <2>2
<1> HIDE DEF row, paths, gone
<1>4. LedgerInv'
  <2>1. \A x \in staged' : x \in staged /\ op[x[1]].src # s
    BY <1>1, LedgerFacts DEF Unstaged, RefreshInv
  <2>2. /\ catalog' \in [Sources -> SUBSET [digest : Digests, signer : Signers]]
        /\ \A r \in Sources \ {s} : catalog'[r] = catalog[r]
    BY <1>t, <1>1
  <2>3. op' \in [Ops -> OperationRow]
    BY <1>t, <1>1
  <2>4. /\ \A p \in snaps' : p \in snaps
        /\ \A p \in snaps : p \in snaps' \/ op[p].src = s
    BY <1>1, <1>g
  <2> HIDE DEF mine
  <2> QED BY <1>1, <1>2, <1>3, <2>1, <2>2, <2>3, <2>4, SourceReplaced
<1>5. \A p \in Ops : /\ Running(p)' = Running(p) /\ Leased(p)' = Leased(p)
                     /\ Unregistered(p)' = Unregistered(p)
  BY <1>1 DEF Running, Leased, Unregistered
<1>s. \A p \in snaps : p \in Ops /\ ~Running(p) /\ ~Unregistered(p)
  BY LedgerFacts DEF RefreshInv, Running, Unregistered
<1>6. DirectoryType'
  BY <1>1, <1>r DEF RefreshInv, DirectoryInv, DirectoryType
<1>7. CleanupInv'
  <2>1. ASSUME NEW p \in Ops, NEW k \in Kinds
        PROVE  /\ Unregistered(p)' => rows'[<<p, k>>].state = "none" /\ <<p, k>> \notin disk'
               /\ rows'[<<p, k>>].state = "retired" => ~Running(p)'
    <3>1. CASE p \in gone
      BY <3>1, <1>5, <1>s DEF gone
    <3>2. CASE p \notin gone
      BY <3>2, <1>1, <1>5, <1>r DEF RefreshInv, DirectoryInv, CleanupInv
    <3> QED BY <3>1, <3>2
  <2>2. \A p \in snaps' : rows'[<<p, "snapshot">>].state = "none" /\ <<p, "snapshot">> \in disk'
    <3> SUFFICES ASSUME NEW p \in snaps'
                 PROVE  rows'[<<p, "snapshot">>].state = "none" /\ <<p, "snapshot">> \in disk'
      OBVIOUS
    <3>1. p \in snaps /\ p \in Ops /\ p \notin gone
      BY <1>1, <1>s
    <3> QED BY <3>1, <1>1, <1>r DEF RefreshInv, DirectoryInv, CleanupInv, Kinds
  <2>3. \A p \in Ops : worker'[p].pc = "promote" /\ Leased(p)' => <<p, "snapshot">> \in disk'
    BY <1>1, <1>5 DEF RefreshInv, DirectoryInv, CleanupInv
  <2> QED BY <2>1, <2>2, <2>3 DEF CleanupInv
<1>8. CleanerInv'
  BY <1>1, <1>5 DEF RefreshInv, DirectoryInv, CleanerInv
<1>9. OwnerInv'
  <2> SUFFICES ASSUME "crash" \notin Calls, NEW p \in Ops, NEW k \in Kinds, <<p, k>> \in disk
               PROVE  /\ \/ Tended(p, k)' \/ rows'[<<p, k>>].state # "none"
                         \/ (k = "snapshot" /\ p \in snaps')
                      /\ \A c \in Cleaners :
                           cleaner[c].removed /\ cleaner[c].path = <<p, k>> => Tended(p, k)'
    BY <1>1 DEF OwnerInv, Calls
  <2>1. Tended(p, k)' = Tended(p, k)
    BY <1>1 DEF Tended, Alive
  <2>2. /\ Tended(p, k) \/ rows[<<p, k>>].state # "none" \/ (k = "snapshot" /\ p \in snaps)
        /\ \A c \in Cleaners :
             cleaner[c].removed /\ cleaner[c].path = <<p, k>> => Tended(p, k)
    BY DEF RefreshInv, DirectoryInv, OwnerInv
  <2>3. rows[<<p, k>>].state # "none" => rows'[<<p, k>>].state # "none"
    BY <1>r
  <2>4. k = "snapshot" /\ p \in snaps => p \in snaps' \/ rows'[<<p, k>>].state # "none"
    BY <1>1, <1>r
  <2> QED BY <2>1, <2>2, <2>3, <2>4
<1> QED BY <1>4, <1>6, <1>7, <1>8, <1>9 DEF RefreshInv, DirectoryInv

----------------------------------------------------------------------------
(* The cleaners and the end of the process *)

\* What a cleaner may work on.
Idle(o, k) == ~Leased(o) /\ ~Unregistered(o) /\ (k = "snapshot" => o \notin snaps)

LEMMA CleanerSteps ==
  ASSUME RefreshInv, UNCHANGED <<setting, src, op, snaps, catalog, expired, staged, worker>>,
         rows' \in [Paths -> CleanupRow], disk' \subseteq disk,
         cleaner' \in [Cleaners -> [path : Paths \cup {NoPath}, removed : BOOLEAN]],
         \A o \in Ops, k \in Kinds :
           /\ \/ rows'[<<o, k>>].state = rows[<<o, k>>].state
              \/ /\ rows'[<<o, k>>].state = "none"
                 /\ ("crash" \notin Calls /\ <<o, k>> \in disk => Tended(o, k))
           /\ <<o, k>> \in disk /\ <<o, k>> \notin disk' => Idle(o, k),
         \A c \in Cleaners :
           /\ cleaner'[c].removed => cleaner'[c].path # NoPath
           /\ \A o \in Ops, k \in Kinds : cleaner'[c].path = <<o, k>> =>
                /\ Idle(o, k)
                /\ cleaner'[c].removed /\ <<o, k>> \in disk' =>
                     cleaner[c].removed /\ cleaner[c].path = <<o, k>>
  PROVE  RefreshInv'
<1>u. \A o \in Ops : /\ Unregistered(o)' = Unregistered(o) /\ Leased(o)' = Leased(o)
                     /\ Running(o)' = Running(o)
  BY DEF Unregistered, Leased, Running
<1>v. \A o \in Ops, k \in Kinds : Tended(o, k)' = Tended(o, k)
  BY DEF Tended, Alive
<1>1. LedgerInv'
  <2>1. \A o \in Ops : New(o)' => New(o)
    BY DEF New
  <2>2. \A o \in snaps : worker'[o].pc \in {"sweep", "done"}
                           /\ worker'[o].content = worker[o].content
    BY LedgerFacts DEF RefreshInv
  <2> QED BY <2>1, <2>2, LedgerFrame DEF RefreshInv, LedgerInv, LedgerType
<1>2. DirectoryType'
  BY DEF RefreshInv, DirectoryInv, DirectoryType
<1>s. \A o \in snaps : o \in Ops
  BY LedgerFacts DEF RefreshInv
<1>3. CleanupInv'
  <2>1. ASSUME NEW o \in Ops, NEW k \in Kinds
        PROVE  /\ Unregistered(o)' => rows'[<<o, k>>].state = "none" /\ <<o, k>> \notin disk'
               /\ rows'[<<o, k>>].state = "retired" => ~Running(o)'
    BY <1>u DEF RefreshInv, DirectoryInv, CleanupInv
  <2>2. ASSUME NEW o \in snaps
        PROVE  rows'[<<o, "snapshot">>].state = "none" /\ <<o, "snapshot">> \in disk'
    <3>1. "snapshot" \in Kinds /\ o \in Ops
      BY <1>s DEF Kinds
    <3>2. rows[<<o, "snapshot">>].state = "none" /\ <<o, "snapshot">> \in disk
      BY DEF RefreshInv, DirectoryInv, CleanupInv
    <3> QED BY <3>1, <3>2 DEF Idle
  <2>3. ASSUME NEW o \in Ops, worker'[o].pc = "promote", Leased(o)'
        PROVE  <<o, "snapshot">> \in disk'
    <3>1. "snapshot" \in Kinds /\ Leased(o)
      BY <2>3, <1>u DEF Kinds
    <3>2. <<o, "snapshot">> \in disk
      BY <2>3, <3>1 DEF RefreshInv, DirectoryInv, CleanupInv
    <3> QED BY <3>1, <3>2 DEF Idle
  <2> QED BY <2>1, <2>2, <2>3 DEF CleanupInv
<1>4. CleanerInv'
  BY <1>u DEF Idle, CleanerInv
<1>5. OwnerInv'
  <2> SUFFICES ASSUME "crash" \notin Calls, NEW o \in Ops, NEW k \in Kinds, <<o, k>> \in disk'
               PROVE  /\ \/ Tended(o, k)' \/ rows'[<<o, k>>].state # "none"
                         \/ (k = "snapshot" /\ o \in snaps)
                      /\ \A c \in Cleaners :
                           cleaner'[c].removed /\ cleaner'[c].path = <<o, k>> => Tended(o, k)'
    BY DEF OwnerInv, Calls
  <2>1. <<o, k>> \in disk
    OBVIOUS
  <2>2. /\ Tended(o, k) \/ rows[<<o, k>>].state # "none" \/ (k = "snapshot" /\ o \in snaps)
        /\ \A c \in Cleaners :
             cleaner[c].removed /\ cleaner[c].path = <<o, k>> => Tended(o, k)
    BY <2>1 DEF RefreshInv, DirectoryInv, OwnerInv
  <2> QED BY <2>1, <2>2, <1>v
<1> QED BY <1>1, <1>2, <1>3, <1>4, <1>5 DEF RefreshInv, DirectoryInv

\* A cleaner's place, and the row of a path, are replaced.
LEMMA CleanerFields ==
  ASSUME RefreshInv, NEW c \in Cleaners, NEW p \in Paths \cup {NoPath}, NEW b \in BOOLEAN,
         cleaner' = [cleaner EXCEPT ![c] = [path |-> p, removed |-> b]]
  PROVE  /\ cleaner' \in [Cleaners -> [path : Paths \cup {NoPath}, removed : BOOLEAN]]
         /\ cleaner'[c].path = p /\ cleaner'[c].removed = b
         /\ \A a \in Cleaners \ {c} : cleaner'[a] = cleaner[a]
BY DEF RefreshInv, DirectoryInv, DirectoryType

LEMMA RowFields ==
  ASSUME RefreshInv, NEW p \in Paths, NEW row \in CleanupRow,
         rows' = [rows EXCEPT ![p] = row]
  PROVE  /\ rows' \in [Paths -> CleanupRow] /\ rows'[p] = row
         /\ \A q \in Paths \ {p} : rows'[q] = rows[q]
BY DEF RefreshInv, DirectoryInv, DirectoryType

LEMMA CleanerFacts ==
  ASSUME RefreshInv
  PROVE  /\ \A c \in Cleaners :
              /\ cleaner[c].path \in Paths \cup {NoPath} /\ cleaner[c].removed \in BOOLEAN
              /\ cleaner[c].removed => cleaner[c].path # NoPath
              /\ \A o \in Ops, k \in Kinds : cleaner[c].path = <<o, k>> => Idle(o, k)
         /\ \A p \in Paths : rows[p] \in CleanupRow
         /\ rows \in [Paths -> CleanupRow]
         /\ cleaner \in [Cleaners -> [path : Paths \cup {NoPath}, removed : BOOLEAN]]
BY DEF RefreshInv, DirectoryInv, DirectoryType, CleanerInv, Idle

LEMMA ClaimNext ==
  ASSUME RefreshInv, NEW c \in Cleaners, NEW p \in Paths, ClaimMarketplaceDirectoryCleanup(c, p)
  PROVE  RefreshInv'
<1> DEFINE row == [rows[p] EXCEPT !.claim = c, !.stale = FALSE]
<1>t. rows \in [Paths -> CleanupRow]
  BY CleanerFacts
<1>1. /\ Claimable(p) /\ cleaner' = [cleaner EXCEPT ![c] = [path |-> p, removed |-> FALSE]]
      /\ UNCHANGED <<setting, src, op, snaps, catalog, expired, staged, worker, disk>>
  BY DEF ClaimMarketplaceDirectoryCleanup, pkgVars
<1>2. rows' = [rows EXCEPT ![p] = row]
  BY <1>t DEF ClaimMarketplaceDirectoryCleanup
<1>3. row \in CleanupRow /\ row.state = rows[p].state
  BY <1>t DEF CleanupRow
<1> HIDE DEF row
<1>4. /\ rows' \in [Paths -> CleanupRow]
      /\ \A q \in Paths : rows'[q].state = rows[q].state
  <2>1. /\ rows' \in [Paths -> CleanupRow] /\ rows'[p] = row
        /\ \A q \in Paths \ {p} : rows'[q] = rows[q]
    BY <1>2, <1>3, RowFields
  <2> QED BY <1>3, <2>1
<1>5. ASSUME NEW o \in Ops, NEW k \in Kinds, p = <<o, k>> PROVE Idle(o, k)
  <2>1. rows[<<o, k>>].state # "none" /\ ~(rows[<<o, k>>].state = "provisional" /\ Leased(o))
    BY <1>1, <1>5 DEF Claimable
  <2>2. ~Unregistered(o) /\ (rows[<<o, k>>].state = "retired" => ~Running(o))
    BY <2>1 DEF RefreshInv, DirectoryInv, CleanupInv
  <2>3. ~Leased(o)
    <3>1. rows[<<o, k>>].state \in {"none", "provisional", "retired"}
      BY <1>t, <1>5 DEF CleanupRow
    <3> QED BY <2>1, <2>2, <3>1 DEF Leased
  <2>4. k = "snapshot" => o \notin snaps
    BY <2>1 DEF RefreshInv, DirectoryInv, CleanupInv
  <2> QED BY <2>2, <2>3, <2>4 DEF Idle
<1>6. /\ cleaner' \in [Cleaners -> [path : Paths \cup {NoPath}, removed : BOOLEAN]]
      /\ cleaner'[c].path = p /\ cleaner'[c].removed = FALSE
      /\ \A a \in Cleaners \ {c} : cleaner'[a] = cleaner[a]
  BY <1>1, CleanerFields
<1>7. ASSUME NEW a \in Cleaners
      PROVE  /\ cleaner'[a].removed => cleaner'[a].path # NoPath
             /\ \A o \in Ops, k \in Kinds : cleaner'[a].path = <<o, k>> =>
                  /\ Idle(o, k)
                  /\ cleaner'[a].removed /\ <<o, k>> \in disk' =>
                       cleaner[a].removed /\ cleaner[a].path = <<o, k>>
  BY <1>5, <1>6, CleanerFacts
<1>8. \A o \in Ops, k \in Kinds : rows'[<<o, k>>].state = rows[<<o, k>>].state
  BY <1>4, PathFacts
<1> QED BY <1>1, <1>4, <1>6, <1>7, <1>8, CleanerSteps

LEMMA RemoveNext ==
  ASSUME RefreshInv, NEW c \in Cleaners, RemoveDirectory(c)
  PROVE  RefreshInv'
<1>1. /\ cleaner[c].path # NoPath /\ disk' = disk \ {cleaner[c].path}
      /\ UNCHANGED <<setting, src, op, snaps, catalog, expired, staged, worker, rows>>
  BY DEF RemoveDirectory, pkgVars
<1>2. /\ cleaner' \in [Cleaners -> [path : Paths \cup {NoPath}, removed : BOOLEAN]]
      /\ cleaner'[c].path = cleaner[c].path /\ cleaner'[c].removed = TRUE
      /\ \A a \in Cleaners \ {c} : cleaner'[a] = cleaner[a]
  <2> DEFINE row == [cleaner[c] EXCEPT !.removed = TRUE]
  <2>1. cleaner \in [Cleaners -> [path : Paths \cup {NoPath}, removed : BOOLEAN]]
    BY CleanerFacts
  <2>2. cleaner' = [cleaner EXCEPT ![c] = row]
    BY DEF RemoveDirectory
  <2>3. /\ row \in [path : Paths \cup {NoPath}, removed : BOOLEAN]
        /\ row.path = cleaner[c].path /\ row.removed = TRUE
    BY <2>1
  <2> HIDE DEF row
  <2> QED BY <2>1, <2>2, <2>3
<1>3. ASSUME NEW a \in Cleaners
      PROVE  /\ cleaner'[a].removed => cleaner'[a].path # NoPath
             /\ \A o \in Ops, k \in Kinds : cleaner'[a].path = <<o, k>> =>
                  /\ Idle(o, k)
                  /\ cleaner'[a].removed /\ <<o, k>> \in disk' =>
                       cleaner[a].removed /\ cleaner[a].path = <<o, k>>
  <2>1. CASE a = c
    BY <2>1, <1>1, <1>2, CleanerFacts
  <2>2. CASE a # c
    BY <2>2, <1>2, CleanerFacts
  <2> QED BY <2>1, <2>2
<1>4. ASSUME NEW o \in Ops, NEW k \in Kinds
      PROVE  /\ rows'[<<o, k>>].state = rows[<<o, k>>].state
             /\ <<o, k>> \in disk /\ <<o, k>> \notin disk' => Idle(o, k)
  BY <1>1, CleanerFacts
<1>5. rows' \in [Paths -> CleanupRow] /\ disk' \subseteq disk
  BY <1>1, CleanerFacts
<1> QED BY <1>1, <1>2, <1>3, <1>4, <1>5, CleanerSteps

\* A cleaner lets go of its path.
LEMMA ReleaseSteps ==
  ASSUME RefreshInv, NEW c \in Cleaners,
         UNCHANGED <<setting, src, op, snaps, catalog, expired, staged, worker, disk>>,
         cleaner' = [cleaner EXCEPT ![c] = [path |-> NoPath, removed |-> FALSE]],
         rows' \in [Paths -> CleanupRow],
         \A o \in Ops, k \in Kinds :
           \/ rows'[<<o, k>>].state = rows[<<o, k>>].state
           \/ /\ rows'[<<o, k>>].state = "none"
              /\ ("crash" \notin Calls /\ <<o, k>> \in disk => Tended(o, k))
  PROVE  RefreshInv'
<1>1. /\ cleaner' \in [Cleaners -> [path : Paths \cup {NoPath}, removed : BOOLEAN]]
      /\ cleaner'[c].path = NoPath /\ cleaner'[c].removed = FALSE
      /\ \A a \in Cleaners \ {c} : cleaner'[a] = cleaner[a]
  BY CleanerFields
<1>2. ASSUME NEW a \in Cleaners
      PROVE  /\ cleaner'[a].removed => cleaner'[a].path # NoPath
             /\ \A o \in Ops, k \in Kinds : cleaner'[a].path = <<o, k>> =>
                  /\ Idle(o, k)
                  /\ cleaner'[a].removed /\ <<o, k>> \in disk' =>
                       cleaner[a].removed /\ cleaner[a].path = <<o, k>>
  <2>1. CASE a = c
    BY <2>1, <1>1, PathFacts
  <2>2. CASE a # c
    BY <2>2, <1>1, CleanerFacts
  <2> QED BY <2>1, <2>2
<1> QED BY <1>1, <1>2, CleanerSteps

LEMMA CompleteCleanupNext ==
  ASSUME RefreshInv, NEW c \in Cleaners, CompleteMarketplaceDirectoryCleanup(c)
  PROVE  RefreshInv'
<1> DEFINE p == cleaner[c].path
<1>1. /\ cleaner[c].removed
      /\ cleaner' = [cleaner EXCEPT ![c] = [path |-> NoPath, removed |-> FALSE]]
      /\ UNCHANGED <<setting, src, op, snaps, catalog, expired, staged, worker, disk>>
      /\ rows' = rows \/ rows' = [rows EXCEPT ![p] = NoRow]
  BY DEF CompleteMarketplaceDirectoryCleanup, pkgVars
<1>2. p \in Paths
  BY <1>1, CleanerFacts
<1>3. NoRow \in CleanupRow /\ NoRow.state = "none"
  BY DEF NoRow, CleanupRow
<1>4. CASE rows' = rows
  BY <1>1, <1>4, CleanerFacts, ReleaseSteps
<1>5. CASE rows' = [rows EXCEPT ![p] = NoRow]
  <2>1. /\ rows' \in [Paths -> CleanupRow] /\ rows'[p] = NoRow
        /\ \A q \in Paths \ {p} : rows'[q] = rows[q]
    <3> HIDE DEF p
    <3> QED BY <1>2, <1>3, <1>5, RowFields
  <2>2. ASSUME NEW o \in Ops, NEW k \in Kinds
        PROVE  \/ rows'[<<o, k>>].state = rows[<<o, k>>].state
               \/ /\ rows'[<<o, k>>].state = "none"
                  /\ ("crash" \notin Calls /\ <<o, k>> \in disk => Tended(o, k))
    <3>1. CASE <<o, k>> = p
      <4>1. "crash" \notin Calls /\ <<o, k>> \in disk => Tended(o, k)
        BY <3>1, <1>1 DEF RefreshInv, DirectoryInv, OwnerInv
      <4> QED BY <3>1, <4>1, <2>1, <1>3
    <3>2. CASE <<o, k>> # p
      BY <3>2, <2>1, PathFacts
    <3> QED BY <3>1, <3>2
  <2> QED BY <1>1, <2>1, <2>2, ReleaseSteps
<1> QED BY <1>1, <1>4, <1>5

LEMMA RemovalFailsNext ==
  ASSUME RefreshInv, NEW c \in Cleaners, RemovalFails(c)
  PROVE  RefreshInv'
<1> DEFINE p == cleaner[c].path
           row == [rows[p] EXCEPT !.claim = "none"]
<1>1. /\ p # NoPath
      /\ cleaner' = [cleaner EXCEPT ![c] = [path |-> NoPath, removed |-> FALSE]]
      /\ UNCHANGED <<setting, src, op, snaps, catalog, expired, staged, worker, disk>>
      /\ rows' = rows \/ rows' = [rows EXCEPT ![p] = row]
  BY DEF RemovalFails, pkgVars
<1>2. p \in Paths /\ rows[p] \in CleanupRow
  BY <1>1, CleanerFacts
<1>3. row \in CleanupRow /\ row.state = rows[p].state
  BY <1>2 DEF CleanupRow
<1>4. CASE rows' = rows
  BY <1>1, <1>4, CleanerFacts, ReleaseSteps
<1>5. CASE rows' = [rows EXCEPT ![p] = row]
  <2>1. /\ rows' \in [Paths -> CleanupRow] /\ rows'[p] = row
        /\ \A q \in Paths \ {p} : rows'[q] = rows[q]
    <3> HIDE DEF p, row
    <3> QED BY <1>2, <1>3, <1>5, RowFields
  <2>2. \A q \in Paths : rows'[q].state = rows[q].state
    <3> HIDE DEF p, row
    <3> QED BY <1>3, <2>1
  <2>3. \A o \in Ops, k \in Kinds : rows'[<<o, k>>].state = rows[<<o, k>>].state
    BY <2>2, PathFacts
  <2>4. rows' \in [Paths -> CleanupRow]
    BY <2>1
  <2> HIDE DEF p, row
  <2> QED BY <1>1, <2>3, <2>4, ReleaseSteps
<1> QED BY <1>1, <1>4, <1>5

LEMMA ClaimExpiresNext ==
  ASSUME RefreshInv, NEW p \in Paths, ClaimExpires(p)
  PROVE  RefreshInv'
<1> DEFINE row == [rows[p] EXCEPT !.stale = TRUE]
<1>1. /\ UNCHANGED <<setting, src, op, snaps, catalog, expired, staged, worker, disk, cleaner>>
      /\ rows' = [rows EXCEPT ![p] = row]
  BY DEF ClaimExpires, pkgVars
<1>2. row \in CleanupRow /\ row.state = rows[p].state
  <2>1. rows[p] \in CleanupRow
    BY CleanerFacts
  <2> QED BY <2>1 DEF CleanupRow
<1> HIDE DEF row
<1>3. /\ rows' \in [Paths -> CleanupRow] /\ rows'[p] = row
      /\ \A q \in Paths \ {p} : rows'[q] = rows[q]
  BY <1>1, <1>2, RowFields
<1>4. \A q \in Paths : rows'[q].state = rows[q].state
  BY <1>2, <1>3
<1>5. \A o \in Ops, k \in Kinds : rows'[<<o, k>>].state = rows[<<o, k>>].state
  BY <1>4, PathFacts
<1>6. ASSUME NEW a \in Cleaners
      PROVE  /\ cleaner'[a].removed => cleaner'[a].path # NoPath
             /\ \A o \in Ops, k \in Kinds : cleaner'[a].path = <<o, k>> =>
                  /\ Idle(o, k)
                  /\ cleaner'[a].removed /\ <<o, k>> \in disk' =>
                       cleaner[a].removed /\ cleaner[a].path = <<o, k>>
  BY <1>1, CleanerFacts
<1>7. cleaner' \in [Cleaners -> [path : Paths \cup {NoPath}, removed : BOOLEAN]]
  BY <1>1, CleanerFacts
<1> QED BY <1>1, <1>3, <1>5, <1>6, <1>7, CleanerSteps

LEMMA CrashNext == ASSUME RefreshInv, Crash PROVE RefreshInv'
<1>1. /\ "crash" \in Calls /\ cleaner' = [c \in Cleaners |-> [path |-> NoPath, removed |-> FALSE]]
      /\ \A x \in staged' : x \in staged
      /\ UNCHANGED <<setting, src, op, expired, catalog, snaps, rows, disk>>
  BY DEF Crash, Unstaged
<1>w. /\ worker' \in [Ops -> WorkerState]
      /\ \A o \in Ops : /\ worker'[o].pc = IF worker[o].pc = "idle" THEN "idle" ELSE "done"
                        /\ worker'[o].content = worker[o].content
  <2>1. worker \in [Ops -> WorkerState]
    BY DEF RefreshInv, LedgerInv, LedgerType
  <2>2. worker' = [o \in Ops |-> IF worker[o].pc = "idle" THEN worker[o]
                                 ELSE [worker[o] EXCEPT !.pc = "done"]]
    BY DEF Crash
  <2>3. \A r \in WorkerState : /\ [r EXCEPT !.pc = "done"] \in WorkerState
                               /\ [r EXCEPT !.pc = "done"].pc = "done"
                               /\ [r EXCEPT !.pc = "done"].content = r.content
    BY DEF WorkerState, Pcs
  <2> QED BY <2>1, <2>2, <2>3
<1>2. LedgerInv'
  <2>1. \A o \in Ops : New(o)' => New(o)
    BY <1>w DEF New
  <2>2. \A o \in snaps : worker'[o].pc \in {"sweep", "done"}
                           /\ worker'[o].content = worker[o].content
    BY <1>w, LedgerFacts DEF RefreshInv
  <2> QED BY <1>1, <1>w, <2>1, <2>2, LedgerFrame DEF RefreshInv
<1>u. \A o \in Ops : /\ Unregistered(o)' => Unregistered(o)
                     /\ Leased(o)' = Leased(o) /\ Running(o)' = Running(o)
  BY <1>1, <1>w DEF Unregistered, Leased, Running
<1>3. DirectoryType'
  BY <1>1 DEF RefreshInv, DirectoryInv, DirectoryType
<1>4. CleanupInv'
  BY <1>1, <1>w, <1>u DEF RefreshInv, DirectoryInv, CleanupInv
<1>5. CleanerInv'
  BY <1>1, PathFacts DEF CleanerInv
<1>6. OwnerInv'
  BY <1>1 DEF OwnerInv, Calls
<1> QED BY <1>2, <1>3, <1>4, <1>5, <1>6 DEF RefreshInv, DirectoryInv

----------------------------------------------------------------------------
(* The promotion *)

LEMMA PromoteNext ==
  ASSUME RefreshInv, NEW o \in Ops, PromoteSnapshotAndCompleteRefresh(o)
  PROVE  RefreshInv'
<1> DEFINE s == op[o].src
           content == worker[o].content
           old == {p \in snaps : op[p].src = s /\ p # o}
           paths == {<<p, "snapshot">> : p \in old}
           entries == {[digest |-> d, signer |-> op[o].signer] : d \in content}
           row == [src[s] EXCEPT !.snap = o, !.lease = NoOp]
<1>e. worker[o].pc = "promote" /\ UNCHANGED <<setting, expired, disk, cleaner>>
  BY DEF PromoteSnapshotAndCompleteRefresh
<1>t. /\ src \in [Sources -> SourceRow] /\ op \in [Ops -> OperationRow] /\ s \in Sources
      /\ catalog \in [Sources -> SUBSET [digest : Digests, signer : Signers]]
      /\ rows \in [Paths -> CleanupRow] /\ worker \in [Ops -> WorkerState]
  BY DEF RefreshInv, LedgerInv, LedgerType, DirectoryInv, DirectoryType, OperationRow
<1>1. CASE Go(o, "unlink") /\ UNCHANGED <<src, op, snaps, rows, staged, catalog>>
  BY <1>1, <1>e, Moved DEF Pcs
<1>2. CASE /\ MayPromote(o)
           /\ src' = [src EXCEPT ![s].snap = o, ![s].lease = NoOp]
           /\ snaps' = (snaps \ old) \cup {o}
           /\ rows' = [Retired(paths) EXCEPT ![<<o, "snapshot">>] = NoRow]
           /\ catalog' = [catalog EXCEPT ![s] = entries]
           /\ staged' = Unstaged({o})
           /\ op' = [op EXCEPT ![o].status = "succeeded"]
           /\ Go(o, "sweep")
  <2>m. /\ src[s].st = "live" /\ src[s].lease = o /\ Leased(o)
        /\ op[o].rev = src[s].rev /\ op[o].signer = src[s].signer
    BY <1>2 DEF MayPromote, Bound
  <2>n. ~New(o) /\ o \notin snaps
    BY <1>e, LedgerFacts DEF RefreshInv, New
  <2>w. /\ worker' \in [Ops -> WorkerState]
        /\ \A p \in Ops : /\ worker'[p].pc = IF p = o THEN "sweep" ELSE worker[p].pc
                          /\ worker'[p].content = worker[p].content
    BY <1>2, <1>t, GoFields DEF Pcs
  <2>o. /\ op' \in [Ops -> OperationRow]
        /\ \A p \in Ops : /\ op'[p].status = IF p = o THEN "succeeded" ELSE op[p].status
                          /\ op'[p].src = op[p].src /\ op'[p].rev = op[p].rev
                          /\ op'[p].signer = op[p].signer
    BY <1>2, <1>t, StatusFields
  <2>s. /\ src' \in [Sources -> SourceRow]
        /\ src'[s].snap = o /\ src'[s].lease = NoOp /\ src'[s].st = "live"
        /\ src'[s].rev = src[s].rev /\ src'[s].signer = src[s].signer
        /\ \A r \in Sources \ {s} : src'[r] = src[r]
    <3>1. src' = [src EXCEPT ![s] = row]
      BY <1>2, <1>t
    <3>2. /\ row \in SourceRow /\ row.snap = o /\ row.lease = NoOp /\ row.st = src[s].st
          /\ row.rev = src[s].rev /\ row.signer = src[s].signer
      BY <1>t DEF SourceRow
    <3> HIDE DEF row, s
    <3> QED BY <3>1, <3>2, <1>t, <2>m
  <2>c. /\ catalog' \in [Sources -> SUBSET [digest : Digests, signer : Signers]]
        /\ catalog'[s] = entries /\ \A r \in Sources \ {s} : catalog'[r] = catalog[r]
    <3>1. content \subseteq Digests /\ op[o].signer \in Signers
      BY <1>t DEF WorkerState, OperationRow
    <3>2. entries \in SUBSET [digest : Digests, signer : Signers]
      BY <3>1
    <3> HIDE DEF entries, s
    <3> QED BY <3>2, <1>2, <1>t
  <2>p. \A p \in snaps : p \in Ops /\ p # o /\ (p \in old <=> op[p].src = s)
                         /\ ~Running(p) /\ ~Unregistered(p)
    BY <2>n, LedgerFacts DEF RefreshInv, Running, Unregistered
  <2>r. /\ rows' \in [Paths -> CleanupRow]
        /\ rows'[<<o, "snapshot">>].state = "none"
        /\ \A p \in Ops, k \in Kinds : p # o \/ k # "snapshot" =>
             /\ k = "snapshot" /\ p \in old => rows'[<<p, k>>].state # "none"
             /\ ~(k = "snapshot" /\ p \in old) => rows'[<<p, k>>] = rows[<<p, k>>]
             /\ \/ rows'[<<p, k>>] = rows[<<p, k>>]
                \/ rows'[<<p, k>>].state = "retired" /\ rows[<<p, k>>].state = "none"
    <3> DEFINE new == Retired(paths)
    <3> HIDE DEF old
    <3>1. /\ new \in [Paths -> CleanupRow]
          /\ \A p \in Paths :
               /\ p \in paths => new[p].state # "none"
               /\ p \notin paths => new[p] = rows[p]
               /\ new[p] = rows[p] \/ (new[p].state = "retired" /\ rows[p].state = "none")
      <4>1. new = Retired(paths)
        OBVIOUS
      <4> HIDE DEF paths, new
      <4> QED BY <4>1, <1>t, RetiredFacts
    <3>2. rows' = [new EXCEPT ![<<o, "snapshot">>] = NoRow] /\ NoRow \in CleanupRow
          /\ NoRow.state = "none"
      BY <1>2 DEF NoRow, CleanupRow
    <3>3. ASSUME NEW p \in Ops, NEW k \in Kinds
          PROVE  <<p, k>> \in Paths /\ (<<p, k>> \in paths <=> k = "snapshot" /\ p \in old)
      <4>1. <<p, k>> \in Paths
        BY PathFacts
      <4>2. \A q : <<p, k>> = <<q, "snapshot">> <=> q = p /\ k = "snapshot"
        BY PathFacts
      <4> QED BY ONLY <4>1, <4>2
    <3> HIDE DEF new, paths
    <3>4. <<o, "snapshot">> \in Paths
      BY PathFacts DEF Kinds
    <3>5. rows' \in [Paths -> CleanupRow] /\ rows'[<<o, "snapshot">>].state = "none"
      BY <3>1, <3>2, <3>4
    <3>6. \A p \in Ops, k \in Kinds : p # o \/ k # "snapshot" =>
            rows'[<<p, k>>] = new[<<p, k>>]
      BY <3>1, <3>2, <3>3, <3>4, PathFacts
    <3> QED BY <3>1, <3>3, <3>5, <3>6
  <2> HIDE DEF s, old, paths, entries, content, row
  <2>1. LedgerInv'
    <3>1. LedgerType'
      BY <1>e, <2>w, <2>o, <2>s, <2>c, <1>2, <2>p DEF RefreshInv, LedgerInv, LedgerType
    <3>2. \A p \in Ops : New(p)' => op'[p].status = "none"
      <4> SUFFICES ASSUME NEW p \in Ops, New(p)' PROVE op'[p].status = "none"
        OBVIOUS
      <4>1. p # o /\ New(p)
        BY <2>w DEF New
      <4> QED BY <4>1, <2>o, LedgerFacts DEF RefreshInv
    <3>3. ASSUME NEW r \in Sources, src'[r].st # "gone", src'[r].lease # NoOp
          PROVE  \E l \in Ops : l = src'[r].lease /\ LeaseOf(r, l)'
      <4>1. r # s /\ src'[r] = src[r]
        BY <3>3, <2>s
      <4>2. PICK l \in Ops : l = src[r].lease /\ LeaseOf(r, l)
        BY <3>3, <4>1, LedgerFacts DEF RefreshInv
      <4>3. l # o
        BY <4>1, <4>2 DEF LeaseOf, s
      <4> QED BY <4>1, <4>2, <4>3, <2>o DEF LeaseOf
    <3>4. \A p \in snaps' : worker'[p].pc \in {"sweep", "done"} /\ op'[p].status # "running"
      <4> SUFFICES ASSUME NEW p \in snaps'
                   PROVE  worker'[p].pc \in {"sweep", "done"} /\ op'[p].status # "running"
        OBVIOUS
      <4>1. CASE p = o
        BY <4>1, <2>w, <2>o
      <4>2. CASE p \in snaps
        BY <4>2, <2>w, <2>o, <2>p, LedgerFacts DEF RefreshInv
      <4> QED BY <4>1, <4>2, <1>2
    <3>5. ASSUME NEW r \in Sources, src'[r].st = "live", src'[r].snap # NoOp
          PROVE  \E p \in snaps' : p = src'[r].snap /\ SnapOf(r, p)'
      <4>1. CASE r = s
        <5>1. o \in snaps' /\ src'[r].snap = o
          BY <4>1, <1>2, <2>s
        <5>2. op'[o].src = r /\ op'[o].rev = src'[r].rev /\ op'[o].signer = src'[r].signer
          BY <4>1, <2>o, <2>s, <2>m DEF s
        <5>3. catalog'[r] = {[digest |-> d, signer |-> src'[r].signer] : d \in worker'[o].content}
          <6>1. src'[r].signer = op[o].signer /\ worker'[o].content = content
            BY <4>1, <2>w, <2>s, <2>m DEF content
          <6> QED BY <4>1, <6>1, <2>c DEF entries
        <5> QED BY <5>1, <5>2, <5>3 DEF SnapOf
      <4>2. CASE r # s
        <5>1. src'[r] = src[r] /\ catalog'[r] = catalog[r]
          BY <4>2, <2>s, <2>c
        <5>2. PICK p \in snaps : p = src[r].snap /\ SnapOf(r, p)
          BY <3>5, <5>1, LedgerFacts DEF RefreshInv
        <5>3. p \in Ops /\ p \in snaps'
          BY <4>2, <5>2, <2>p, <1>2 DEF SnapOf
        <5> QED BY <5>1, <5>2, <5>3, <2>o, <2>w DEF SnapOf
      <4> QED BY <4>1, <4>2
    <3>6. ASSUME NEW x \in staged'
          PROVE  x[1] \in Ops /\ ~New(x[1])' /\ src'[op'[x[1]].src].st = "live"
      <4>1. x \in staged
        BY <1>2 DEF Unstaged
      <4>2. x[1] \in Ops /\ ~New(x[1]) /\ src[op[x[1]].src].st = "live"
            /\ op[x[1]].src \in Sources
        BY <4>1, LedgerFacts DEF RefreshInv
      <4>3. ~New(x[1])'
        BY <4>2, <2>w DEF New
      <4> QED BY <4>2, <4>3, <2>o, <2>s
    <3> QED BY <3>1, <3>2, <3>3, <3>4, <3>5, <3>6, LedgerNext
  <2>u. \A p \in Ops : /\ Running(p)' => Running(p) /\ p # o
                       /\ Leased(p)' => Leased(p)
                       /\ Unregistered(p)' => Unregistered(p) /\ p # o
    BY <1>e, <2>w, <2>o DEF Running, Leased, Unregistered
  <2>d. <<o, "snapshot">> \in disk
    BY <1>e, <2>m DEF RefreshInv, DirectoryInv, CleanupInv
  <2>i. \A a \in Cleaners, k \in Kinds : cleaner[a].path # <<o, k>>
    BY <2>m DEF RefreshInv, DirectoryInv, CleanerInv
  <2>2. DirectoryType'
    BY <1>e, <2>r DEF RefreshInv, DirectoryInv, DirectoryType
  <2>3. CleanupInv'
    <3>1. ASSUME NEW p \in Ops, NEW k \in Kinds
          PROVE  /\ Unregistered(p)' => rows'[<<p, k>>].state = "none" /\ <<p, k>> \notin disk'
                 /\ rows'[<<p, k>>].state = "retired" => ~Running(p)'
      <4>1. CASE p = o
        BY <4>1, <2>u
      <4>2. CASE p # o /\ p \in old
        BY <4>2, <2>u, <2>p DEF old
      <4>3. CASE p # o /\ p \notin old
        <5>1. rows'[<<p, k>>] = rows[<<p, k>>]
          BY <4>3, <2>r
        <5> QED BY <5>1, <1>e, <2>u DEF RefreshInv, DirectoryInv, CleanupInv
      <4> QED BY <4>1, <4>2, <4>3
    <3>2. \A p \in snaps' : rows'[<<p, "snapshot">>].state = "none" /\ <<p, "snapshot">> \in disk'
      <4> SUFFICES ASSUME NEW p \in snaps'
                   PROVE  rows'[<<p, "snapshot">>].state = "none" /\ <<p, "snapshot">> \in disk'
        OBVIOUS
      <4>1. CASE p = o
        BY <4>1, <1>e, <2>r, <2>d
      <4>2. CASE p \in snaps /\ p \notin old
        <5>1. "snapshot" \in Kinds /\ p \in Ops /\ p # o
          BY <4>2, <2>p DEF Kinds
        <5>2. rows'[<<p, "snapshot">>] = rows[<<p, "snapshot">>]
          BY <4>2, <5>1, <2>r
        <5> QED BY <4>2, <5>2, <1>e DEF RefreshInv, DirectoryInv, CleanupInv
      <4> QED BY <4>1, <4>2, <1>2
    <3>3. \A p \in Ops : worker'[p].pc = "promote" /\ Leased(p)' => <<p, "snapshot">> \in disk'
      BY <1>e, <2>w, <2>u DEF RefreshInv, DirectoryInv, CleanupInv
    <3> QED BY <3>1, <3>2, <3>3 DEF CleanupInv
  <2>4. CleanerInv'
    <3> SUFFICES ASSUME NEW a \in Cleaners
                 PROVE  /\ cleaner[a].removed => cleaner[a].path # NoPath
                        /\ \A p \in Ops, k \in Kinds : cleaner[a].path = <<p, k>> =>
                             ~Leased(p)' /\ ~Unregistered(p)' /\ (k = "snapshot" => p \notin snaps')
      BY <1>e DEF CleanerInv
    <3>1. ASSUME NEW p \in Ops, NEW k \in Kinds, cleaner[a].path = <<p, k>>
          PROVE  ~Leased(p)' /\ ~Unregistered(p)' /\ (k = "snapshot" => p \notin snaps')
      <4>1. ~Leased(p) /\ ~Unregistered(p) /\ (k = "snapshot" => p \notin snaps) /\ p # o
        BY <3>1, <2>i DEF RefreshInv, DirectoryInv, CleanerInv
      <4> QED BY <4>1, <2>u, <1>2
    <3> QED BY <3>1 DEF RefreshInv, DirectoryInv, CleanerInv
  <2>5. OwnerInv'
    <3> SUFFICES ASSUME "crash" \notin Calls, NEW p \in Ops, NEW k \in Kinds, <<p, k>> \in disk
                 PROVE  /\ \/ Tended(p, k)' \/ rows'[<<p, k>>].state # "none"
                           \/ (k = "snapshot" /\ p \in snaps')
                        /\ \A a \in Cleaners :
                             cleaner[a].removed /\ cleaner[a].path = <<p, k>> => Tended(p, k)'
      BY <1>e DEF OwnerInv, Calls
    <3>1. CASE p = o
      BY <3>1, <1>2, <2>i, <2>w DEF Tended, Alive, Kinds
    <3>2. CASE p # o
      <4>1. Tended(p, k)' = Tended(p, k)
        BY <3>2, <2>w DEF Tended, Alive
      <4>2. /\ Tended(p, k) \/ rows[<<p, k>>].state # "none" \/ (k = "snapshot" /\ p \in snaps)
            /\ \A a \in Cleaners :
                 cleaner[a].removed /\ cleaner[a].path = <<p, k>> => Tended(p, k)
        BY DEF RefreshInv, DirectoryInv, OwnerInv
      <4>3. rows[<<p, k>>].state # "none" => rows'[<<p, k>>].state # "none"
        BY <3>2, <2>r
      <4>4. k = "snapshot" /\ p \in snaps => p \in snaps' \/ rows'[<<p, k>>].state # "none"
        BY <3>2, <1>2, <2>r
      <4> QED BY <4>1, <4>2, <4>3, <4>4
    <3> QED BY <3>1, <3>2
  <2> QED BY <2>1, <2>2, <2>3, <2>4, <2>5 DEF RefreshInv, DirectoryInv
<1> QED BY <1>1, <1>2 DEF PromoteSnapshotAndCompleteRefresh

----------------------------------------------------------------------------
(* The invariant and the theorems *)

LEMMA InitInv == Init => RefreshInv
<1> SUFFICES ASSUME Init PROVE RefreshInv
  OBVIOUS
<1>1. /\ Settings \subseteq Setting /\ Sources # {} /\ Signers # {}
      /\ NoOp \notin Ops /\ \A o \in Ops, k \in Kinds : <<o, k>> # NoPath
  BY RefreshConstants, PathFacts DEF NoOp, Ops
<1>2. LedgerType
  <2>1. setting \in Setting /\ setting.signers \subseteq Signers
    BY <1>1 DEF Init, Setting
  <2>2. src \in [Sources -> SourceRow]
    <3>1. src \in [Sources -> [st : {"live"}, rev : {1}, signer : setting.signers, snap : {NoOp},
                               lease : {NoOp}]]
      BY DEF Init
    <3>2. [st : {"live"}, rev : {1}, signer : setting.signers, snap : {NoOp}, lease : {NoOp}]
            \subseteq SourceRow
      BY <2>1 DEF SourceRow
    <3> QED BY <3>1, <3>2
  <2>3. op \in [Ops -> OperationRow]
    <3> DEFINE row == [src |-> CHOOSE s \in Sources : TRUE, rev |-> 0,
                       signer |-> CHOOSE g \in Signers : TRUE, status |-> "none"]
    <3>1. row \in OperationRow
      BY <1>1 DEF OperationRow
    <3>2. op = [o \in Ops |-> row]
      BY DEF Init
    <3> HIDE DEF row
    <3> QED BY <3>1, <3>2
  <2>4. snaps \subseteq Ops /\ catalog \in [Sources -> SUBSET [digest : Digests, signer : Signers]]
    BY DEF Init
  <2>5. worker \in [Ops -> WorkerState]
    BY DEF Init, WorkerState, Pcs
  <2> QED BY <2>1, <2>2, <2>3, <2>4, <2>5 DEF LedgerType
<1>3. /\ \A s \in Sources : src[s].lease = NoOp /\ src[s].snap = NoOp
      /\ \A o \in Ops : op[o].status = "none" /\ worker[o].pc = "idle"
      /\ \A p \in Paths : rows[p].state = "none"
      /\ \A c \in Cleaners : cleaner[c].path = NoPath /\ cleaner[c].removed = FALSE
      /\ staged = {} /\ snaps = {} /\ disk = {}
  BY DEF Init, NoRow
<1>4. LeaseInv /\ SnapInv /\ StagedInv
  BY <1>3 DEF LeaseInv, SnapInv, StagedInv
<1>5. DirectoryType
  <2>1. NoRow \in CleanupRow
    BY DEF NoRow, CleanupRow
  <2>2. rows \in [Paths -> CleanupRow] /\ disk \subseteq Paths
    BY <2>1 DEF Init
  <2>3. cleaner \in [Cleaners -> [path : Paths \cup {NoPath}, removed : BOOLEAN]]
    BY DEF Init
  <2> QED BY <2>2, <2>3 DEF DirectoryType
<1>6. CleanupInv
  BY <1>3, PathFacts DEF CleanupInv, Kinds
<1>7. CleanerInv /\ OwnerInv
  BY <1>1, <1>3 DEF CleanerInv, OwnerInv
<1> QED BY <1>2, <1>4, <1>5, <1>6, <1>7 DEF RefreshInv, LedgerInv, DirectoryInv

LEMMA StutterInv == ASSUME RefreshInv, UNCHANGED vars PROVE RefreshInv'
BY Quiet DEF vars

LEMMA WorkerNext ==
  ASSUME RefreshInv, NEW o \in Ops, WorkerStep(o)
  PROVE  RefreshInv'
BY AcquireNext, RegisterNext, FetchNext, StageNext, PublishNext, RenameNext, PromoteNext,
   UnlinkNext, CompleteNext, SaveNext, SweepNext DEF WorkerStep

LEMMA CleanerNext ==
  ASSUME RefreshInv, NEW c \in Cleaners, CleanerStep(c)
  PROVE  RefreshInv'
BY ClaimNext, RemoveNext, CompleteCleanupNext DEF CleanerStep

LEMMA RefreshNext == ASSUME RefreshInv, [Next]_vars PROVE RefreshInv'
<1>1. CASE UNCHANGED vars
  BY <1>1, StutterInv
<1>2. ASSUME NEW o \in Ops, NEW s \in Sources, Read(o, s) PROVE RefreshInv'
  BY <1>2, ReadNext
<1>3. ASSUME NEW o \in Ops, WorkerStep(o) \/ Fail(o) \/ Expire(o) \/ AbandonMarketplaceRefresh(o)
      PROVE  RefreshInv'
  BY <1>3, WorkerNext, FailNext, ExpireNext, AbandonNext
<1>4. ASSUME NEW s \in Sources, NEW g \in Signers, UpdateMarketplaceSource(s, g)
      PROVE  RefreshInv'
  BY <1>4, UpdateNext
<1>5. ASSUME NEW s \in Sources,
             DeleteMarketplaceSource(s) \/ CompleteMarketplaceSourceDeletion(s)
      PROVE  RefreshInv'
  BY <1>5, DeleteNext, DeletionNext
<1>6. ASSUME NEW i \in DOMAIN intents, RunPackageGC(i) PROVE RefreshInv'
  BY <1>6, GCNext
<1>7. ASSUME NEW c \in Cleaners, CleanerStep(c) \/ RemovalFails(c) PROVE RefreshInv'
  BY <1>7, CleanerNext, RemovalFailsNext
<1>8. ASSUME NEW p \in Paths, ClaimExpires(p) PROVE RefreshInv'
  BY <1>8, ClaimExpiresNext
<1>9. CASE Crash
  BY <1>9, CrashNext
<1> QED BY <1>1, <1>2, <1>3, <1>4, <1>5, <1>6, <1>7, <1>8, <1>9 DEF Next

(* RefreshInv holds in every state, however a timeout, an edit, a deletion,   *)
(* an expiry, a restart and late answers of fenced workers interleave with    *)
(* AcquireRefreshLease, the reservations, the promotion and the cleanup.      *)
THEOREM RefreshInvariance == Spec => []RefreshInv
<1>1. Init => RefreshInv
  BY InitInv
<1>2. RefreshInv /\ [Next]_vars => RefreshInv'
  BY RefreshNext
<1> QED BY <1>1, <1>2, PTL DEF Spec

(* The lease a live source names is one of a running operation of its present *)
(* configuration, its current snapshot and its acquisition rows are those of  *)
(* one promoted operation of this configuration, and every staging row has    *)
(* its source row (AcquireRefreshLease, PromoteSnapshotAndCompleteRefresh,    *)
(* UpdateMarketplaceSource, DeleteMarketplaceSource).                         *)
THEOREM RowsSafety == Spec => []RowsAgree
<1>1. RefreshInv => RowsAgree
  <2> SUFFICES ASSUME RefreshInv PROVE RowsAgree
    OBVIOUS
  <2>1. \A s \in Sources : src[s].st = "live" => LeaseConsistent(s)
    BY DEF RefreshInv, LedgerInv, LeaseInv, LeaseConsistent
  <2>2. \A s \in Sources : src[s].st = "live" /\ src[s].snap # NoOp =>
          LET o == src[s].snap
          IN /\ o \in snaps /\ op[o].src = s /\ Bound(o)
             /\ catalog[s] = {[digest |-> d, signer |-> src[s].signer] : d \in worker[o].content}
    BY DEF RefreshInv, LedgerInv, SnapInv
  <2>3. \A x \in staged : src[op[x[1]].src].st # "gone"
    BY DEF RefreshInv, LedgerInv, StagedInv
  <2> QED BY <2>1, <2>2, <2>3 DEF RowsAgree
<1> QED BY <1>1, RefreshInvariance, PTL

(* The directory of a live source's current snapshot is on disk: neither a    *)
(* cleaner with a stale claim nor a fenced worker has removed it; and as long *)
(* as the process does not end, every directory has a row or a worker that    *)
(* will remove it (ClaimMarketplaceDirectoryCleanup and its completion).      *)
THEOREM DirectorySafety == Spec => []DirsAreOwned
<1>1. RefreshInv => DirsAreOwned
  <2> SUFFICES ASSUME RefreshInv PROVE DirsAreOwned
    OBVIOUS
  <2>1. \A s \in Sources : src[s].st = "live" /\ src[s].snap # NoOp =>
          <<src[s].snap, "snapshot">> \in disk
    BY LedgerFacts DEF RefreshInv, DirectoryInv, CleanupInv
  <2>2. ASSUME "crash" \notin Calls, NEW p \in disk
        PROVE  rows[p].state # "none" \/ (p[2] = "snapshot" /\ p[1] \in snaps) \/ Alive(p[1])
    <3>1. p \in Paths
      BY DEF RefreshInv, DirectoryInv, DirectoryType
    <3>2. p[1] \in Ops /\ p[2] \in Kinds /\ p = <<p[1], p[2]>>
      BY <3>1, PathFacts
    <3>3. Tended(p[1], p[2]) \/ rows[p].state # "none" \/ (p[2] = "snapshot" /\ p[1] \in snaps)
      BY <2>2, <3>2 DEF RefreshInv, DirectoryInv, OwnerInv
    <3> QED BY <3>3 DEF Tended, Alive
  <2> QED BY <2>1, <2>2 DEF DirsAreOwned
<1> QED BY <1>1, RefreshInvariance, PTL

=============================================================================
