-------------------------- MODULE HotRestartProofs --------------------------
(***************************************************************************)
(* Proofs about the hot restart, for any number of launches and crashes.   *)
(*                                                                         *)
(* LineageInv is the inductive invariant.  Its parts say that a process    *)
(* that has not been spawned has left no trace (FreshInv); that whoever    *)
(* launches knows its child, and a living child of a living parent is the  *)
(* one it launched last and no further than the parent's place lets it be  *)
(* (ChildInv, CommandInv); that two processes that are neither retired nor *)
(* dead are parent and child (LeadInv); and at which places a process may  *)
(* hold the listeners and the packet sockets (HoldInv).                    *)
(*                                                                         *)
(* The journal has no part in it: a child that takes over without a        *)
(* command does so because its parent is dead, and a parent that goes on   *)
(* without its child has killed it.                                        *)
(***************************************************************************)
EXTENDS HotRestart, TLAPS

Retired == {"draining", "supervising", "following", "stopping", "stopped"}

Labels == Workers \union Children \union Retired \union {"none"}

\* A child before it listens, and before it has the authority.
Early == {"prepare", "ready_journaled", "await_activate"}
Middle == {"activate_done", "active_journaled", "await_authority"}

\* Where the living child of a parent can be that is at this place itself.
Allowed(place) ==
  IF place \in Retired THEN Labels
  ELSE IF place \in {"spawned", "wait_ready", "ready"} THEN Early
  ELSE IF place \in {"activating", "activated"} THEN Early \union Middle
  ELSE IF place = "transferring" THEN Children \union {"control"}
  ELSE {}

Launching == {"spawned", "wait_ready", "ready", "activating", "activated",
              "transferring", "aborted"}

LineageType ==
  /\ alive \subseteq Pids
  /\ root \in Pids
  /\ pc \in [Pids -> Labels]
  /\ launched \in [Pids -> Pids \union {NoPid}]
  /\ parentOf \in [Pids -> Pids \union {NoPid}]
  /\ commands \in [Pids -> Seq({"activate", "authority"})]
  /\ born \in Nat
  /\ launches \in Nat

FreshInv ==
  /\ \A p \in Pids : p > born => pc[p] = "none"
  /\ \A p \in Pids : parentOf[p] # p
  /\ \A p \in Pids : pc[p] = "none" =>
       p \notin alive /\ commands[p] = <<>> /\ \A q \in Pids : parentOf[q] # p

ChildInv ==
  /\ \A p \in alive : pc[p] = "begun" =>
       launched[p] \in Pids /\ launched[p] <= born /\ pc[launched[p]] = "none"
  /\ \A p \in alive : pc[p] \in Launching =>
       /\ launched[p] \in Pids /\ pc[launched[p]] # "none"
       /\ parentOf[launched[p]] = p
  /\ \A c \in alive : parentOf[c] \in alive =>
       launched[parentOf[c]] = c /\ pc[c] \in Allowed(pc[parentOf[c]])

\* The commands on their way to c.
OnTheWay(c) == {commands[c][i] : i \in 1..Len(commands[c])}

Activates == Retired \union {"activating", "activated", "transferring"}
Transfers == Retired \union {"transferring"}

CommandInv ==
  \A c \in alive : parentOf[c] \in alive =>
    /\ "activate" \in OnTheWay(c) => pc[parentOf[c]] \in Activates
    /\ "authority" \in OnTheWay(c) => pc[parentOf[c]] \in Transfers

LeadInv ==
  \A p, q \in alive : p # q /\ pc[p] \notin Retired /\ pc[q] \notin Retired
                      => parentOf[p] = q \/ parentOf[q] = p

ListenPlaces == {"control", "begun", "spawned", "wait_ready", "ready", "aborted",
                 "authority_done", "authority_journaled"} \union Middle

PacketPlaces == {"control", "begun", "spawned", "wait_ready", "ready", "activating",
                 "activated", "aborted", "authority_done", "authority_journaled"}

HoldInv ==
  /\ \A p \in streams : p \in alive /\ pc[p] \in ListenPlaces
  /\ \A p \in packets : p \in alive /\ pc[p] \in PacketPlaces

LineageInv ==
  /\ LineageType
  /\ FreshInv
  /\ ChildInv
  /\ CommandInv
  /\ LeadInv
  /\ HoldInv

----------------------------------------------------------------------------
(* The places *)

\* An element added at the end, or removed at the start, of what is on its way.
LEMMA SequenceElements ==
  ASSUME NEW S, NEW s \in Seq(S)
  PROVE  /\ \A e \in S : /\ Append(s, e) \in Seq(S)
                         /\ \A i \in 1..Len(Append(s, e)) :
                              Append(s, e)[i] = e \/ \E j \in 1..Len(s) : Append(s, e)[i] = s[j]
         /\ s # <<>> => /\ Tail(s) \in Seq(S)
                        /\ Head(s) = s[1] /\ 1 \in 1..Len(s)
                        /\ \A i \in 1..Len(Tail(s)) : \E j \in 1..Len(s) : Tail(s)[i] = s[j]
<1>1. ASSUME NEW e \in S
      PROVE  /\ Append(s, e) \in Seq(S)
             /\ \A i \in 1..Len(Append(s, e)) :
                  Append(s, e)[i] = e \/ \E j \in 1..Len(s) : Append(s, e)[i] = s[j]
  OBVIOUS
<1>2. ASSUME s # <<>>
      PROVE  /\ Tail(s) \in Seq(S)
             /\ Head(s) = s[1] /\ 1 \in 1..Len(s)
             /\ \A i \in 1..Len(Tail(s)) : \E j \in 1..Len(s) : Tail(s)[i] = s[j]
  <2>1. Len(s) \in Nat /\ Len(s) # 0 /\ Tail(s) \in Seq(S) /\ Len(Tail(s)) = Len(s) - 1
    BY <1>2
  <2>2. ASSUME NEW i \in 1..Len(Tail(s))
        PROVE  i + 1 \in 1..Len(s) /\ Tail(s)[i] = s[i + 1]
    BY <1>2, <2>1
  <2>3. Head(s) = s[1] /\ 1 \in 1..Len(s)
    BY <1>2, <2>1
  <2> QED BY <2>1, <2>2, <2>3
<1> QED BY <1>1, <1>2

\* Only a retired parent, or one that hands the authority over, has a living
\* child at a place of a parent.
LEMMA Places ==
  ASSUME NEW place
  PROVE  /\ place \in Retired => Allowed(place) = Labels
         /\ place \in {"spawned", "wait_ready", "ready"} => Allowed(place) = Early
         /\ place \in {"activating", "activated"} => Allowed(place) = Early \union Middle
         /\ place = "transferring" => Allowed(place) = Children \union {"control"}
         /\ place \notin Retired \union {"spawned", "wait_ready", "ready", "activating",
                                         "activated", "transferring"}
              => Allowed(place) = {}
BY DEF Allowed, Retired

----------------------------------------------------------------------------
(* The two kinds of steps: processes end, or one process moves *)

\* Processes end and all the others stay where they are.
Falls ==
  /\ alive' \subseteq alive
  /\ \A q \in streams' : q \in streams /\ q \in alive'
  /\ \A q \in packets' : q \in packets /\ q \in alive'
  /\ UNCHANGED <<root, pc, launched, parentOf, commands, born, launches>>

LEMMA FallsNext == LineageInv /\ Falls => LineageInv'
<1> SUFFICES ASSUME LineageInv, Falls PROVE LineageInv'
  OBVIOUS
<1>1. LineageType'
  BY DEF LineageInv, LineageType, Falls
<1>2. FreshInv'
  BY DEF LineageInv, FreshInv, Falls
<1>3. ChildInv'
  BY DEF LineageInv, ChildInv, Falls
<1>4. CommandInv'
  BY DEF LineageInv, CommandInv, OnTheWay, Falls
<1>5. LeadInv'
  BY DEF LineageInv, LeadInv, Falls
<1>6. HoldInv'
  BY DEF LineageInv, HoldInv, Falls
<1> QED BY <1>1, <1>2, <1>3, <1>4, <1>5, <1>6 DEF LineageInv

\* Process p moves to this place, and perhaps others end: its living child and
\* its living parent have to allow it.
Moves(p, place) ==
  /\ pc' = [pc EXCEPT ![p] = place]
  /\ pc[p] # "none"
  /\ place \in Labels \ {"none", "begun"}
  /\ pc[p] \in Retired => place \in Retired
  /\ place \in Launching => pc[p] \in Launching
  /\ alive' \subseteq alive
  /\ \A c \in alive' : parentOf[c] = p /\ p \in alive' =>
       /\ pc[c] \in Allowed(place)
       /\ pc[p] \in Activates => place \in Activates
       /\ pc[p] \in Transfers => place \in Transfers
  /\ p \in alive' /\ parentOf[p] \in alive' => place \in Allowed(pc[parentOf[p]])
  /\ commands' \in [Pids -> Seq({"activate", "authority"})]
  /\ \A c \in Pids : pc[c] = "none" => commands'[c] = commands[c]
  /\ \A c \in alive' : parentOf[c] \in alive' =>
       \A i \in 1..Len(commands'[c]) :
         \/ \E j \in 1..Len(commands[c]) : commands'[c][i] = commands[c][j]
         \/ parentOf[c] = p /\ commands'[c][i] = "activate" /\ place \in Activates
         \/ parentOf[c] = p /\ commands'[c][i] = "authority" /\ place \in Transfers
  /\ \A q \in streams' : /\ q \in alive'
                         /\ IF q = p THEN place \in ListenPlaces ELSE q \in streams
  /\ \A q \in packets' : /\ q \in alive'
                         /\ IF q = p THEN place \in PacketPlaces ELSE q \in packets
  /\ UNCHANGED <<root, launched, parentOf, born, launches>>

LEMMA MovesNext ==
  ASSUME LineageInv, NEW p \in Pids, NEW place, Moves(p, place)
  PROVE  LineageInv'
<1>p. pc' \in [Pids -> Labels] /\ \A q \in Pids : pc'[q] = IF q = p THEN place ELSE pc[q]
  BY DEF LineageInv, LineageType, Moves
<1>a. alive \subseteq Pids /\ alive' \subseteq alive /\ alive' \subseteq Pids
  BY DEF LineageInv, LineageType, Moves
<1>u. UNCHANGED <<root, launched, parentOf, born, launches>>
  BY DEF Moves
<1>n. pc[p] # "none" /\ place # "none" /\ place # "begun"
  BY DEF Moves
<1>1. LineageType'
  BY <1>p, <1>a, <1>u DEF LineageInv, LineageType, Moves
<1>2. FreshInv'
  <2>1. \A q \in Pids : (pc'[q] = "none") = (pc[q] = "none")
    BY <1>p, <1>n
  <2>2. \A q \in Pids : pc[q] = "none" => commands'[q] = commands[q]
    BY DEF Moves
  <2> QED BY <2>1, <2>2, <1>a, <1>u DEF LineageInv, FreshInv
<1>3. ChildInv'
  <2>1. ASSUME NEW q \in alive', pc'[q] = "begun"
        PROVE  (launched[q] \in Pids /\ launched[q] <= born /\ pc[launched[q]] = "none")'
    <3>1. q # p /\ pc[q] = "begun" /\ q \in alive
      BY <2>1, <1>p, <1>a, <1>n
    <3>2. launched[q] \in Pids /\ launched[q] <= born /\ pc[launched[q]] = "none"
      BY <3>1 DEF LineageInv, ChildInv
    <3> QED BY <3>2, <1>p, <1>n, <1>u
  <2>2. ASSUME NEW q \in alive', pc'[q] \in Launching
        PROVE  (/\ launched[q] \in Pids /\ pc[launched[q]] # "none"
                /\ parentOf[launched[q]] = q)'
    <3>1. q \in alive /\ pc[q] \in Launching
      BY <2>2, <1>p, <1>a DEF Moves
    <3>2. /\ launched[q] \in Pids /\ pc[launched[q]] # "none"
          /\ parentOf[launched[q]] = q
      BY <3>1 DEF LineageInv, ChildInv
    <3> QED BY <3>2, <1>p, <1>n, <1>u
  <2>3. ASSUME NEW c \in alive', parentOf[c] \in alive'
        PROVE  launched[parentOf[c]] = c /\ pc'[c] \in Allowed(pc'[parentOf[c]])
    <3>1. c \in alive /\ parentOf[c] \in alive /\ c \in Pids /\ parentOf[c] \in Pids
      BY <2>3, <1>a
    <3>2. launched[parentOf[c]] = c /\ pc[c] \in Allowed(pc[parentOf[c]])
      BY <3>1 DEF LineageInv, ChildInv
    <3>3. parentOf[c] # c
      BY <3>1 DEF LineageInv, FreshInv
    <3>4. CASE parentOf[c] = p
      BY <3>4, <3>3, <3>2, <3>1, <2>3, <1>p DEF Moves
    <3>5. CASE c = p
      BY <3>5, <3>3, <3>2, <3>1, <2>3, <1>p DEF Moves
    <3>6. CASE c # p /\ parentOf[c] # p
      BY <3>6, <3>2, <3>1, <1>p
    <3> QED BY <3>4, <3>5, <3>6
  <2> QED BY <2>1, <2>2, <2>3, <1>u DEF ChildInv
<1>4. CommandInv'
  <2> SUFFICES ASSUME NEW c \in alive', parentOf[c] \in alive'
               PROVE  /\ "activate" \in OnTheWay(c)' => pc'[parentOf[c]] \in Activates
                      /\ "authority" \in OnTheWay(c)' => pc'[parentOf[c]] \in Transfers
    BY <1>u DEF CommandInv
  <2>1. c \in alive /\ parentOf[c] \in alive /\ c \in Pids /\ parentOf[c] \in Pids
    BY <1>a
  <2>2. /\ "activate" \in OnTheWay(c) => pc[parentOf[c]] \in Activates
        /\ "authority" \in OnTheWay(c) => pc[parentOf[c]] \in Transfers
    BY <2>1 DEF LineageInv, CommandInv
  <2>3. /\ "activate" \in OnTheWay(c)' =>
             "activate" \in OnTheWay(c) \/ (parentOf[c] = p /\ place \in Activates)
        /\ "authority" \in OnTheWay(c)' =>
             "authority" \in OnTheWay(c) \/ (parentOf[c] = p /\ place \in Transfers)
    <3>1. \A i \in 1..Len(commands'[c]) :
            \/ \E j \in 1..Len(commands[c]) : commands'[c][i] = commands[c][j]
            \/ parentOf[c] = p /\ commands'[c][i] = "activate" /\ place \in Activates
            \/ parentOf[c] = p /\ commands'[c][i] = "authority" /\ place \in Transfers
      BY <1>u DEF Moves
    <3>2. ASSUME NEW e \in OnTheWay(c)'
          PROVE  \/ e \in OnTheWay(c)
                 \/ parentOf[c] = p /\ e = "activate" /\ place \in Activates
                 \/ parentOf[c] = p /\ e = "authority" /\ place \in Transfers
      BY <3>1 DEF OnTheWay
    <3> QED BY <3>2
  <2>4. parentOf[c] = p => /\ pc[p] \in Activates => place \in Activates
                           /\ pc[p] \in Transfers => place \in Transfers
    BY DEF Moves
  <2>5. pc'[parentOf[c]] = IF parentOf[c] = p THEN place ELSE pc[parentOf[c]]
    BY <2>1, <1>p
  <2> QED BY <2>2, <2>3, <2>4, <2>5
<1>5. LeadInv'
  <2> SUFFICES ASSUME NEW q \in alive', NEW r \in alive', q # r,
                      pc'[q] \notin Retired, pc'[r] \notin Retired
               PROVE  parentOf[q] = r \/ parentOf[r] = q
    BY <1>u DEF LeadInv
  <2>1. pc[q] \notin Retired /\ pc[r] \notin Retired /\ q \in alive /\ r \in alive
    BY <1>p, <1>a DEF Moves
  <2> QED BY <2>1 DEF LineageInv, LeadInv
<1>6. HoldInv'
  <2>1. ASSUME NEW q \in streams' PROVE q \in alive' /\ pc'[q] \in ListenPlaces
    BY <1>p, <1>a DEF LineageInv, HoldInv, Moves
  <2>2. ASSUME NEW q \in packets' PROVE q \in alive' /\ pc'[q] \in PacketPlaces
    BY <1>p, <1>a DEF LineageInv, HoldInv, Moves
  <2> QED BY <2>1, <2>2 DEF HoldInv
<1> QED BY <1>1, <1>2, <1>3, <1>4, <1>5, <1>6 DEF LineageInv


----------------------------------------------------------------------------
(* Processes that end *)

LEMMA DiesNext ==
  ASSUME LineageInv, NEW dead, Dies(dead),
         UNCHANGED <<root, pc, launched, parentOf, commands, born, launches>>
  PROVE  LineageInv'
<1>1. Falls
  BY DEF LineageInv, HoldInv, Dies, Falls
<1> QED BY <1>1, FallsNext

LEMMA SettledNext ==
  ASSUME LineageInv,
         UNCHANGED <<alive, root, pc, launched, parentOf, commands, streams, packets,
                     born, launches>>
  PROVE  LineageInv'
<1>1. Falls
  BY DEF LineageInv, HoldInv, Falls
<1> QED BY <1>1, FallsNext

\* The new main process is fresh: it has no parent that lives.
LEMMA RestartsNext ==
  ASSUME LineageInv, Restarts, UNCHANGED <<launched, parentOf, commands, launches>>
  PROVE  LineageInv'
<1> DEFINE n == born + 1
<1>b. n \in Pids /\ n > born /\ born \in Nat /\ root' = n /\ born' = n
  BY DEF LineageInv, LineageType, Restarts, Pids
<1>p. pc' \in [Pids -> Labels] /\ \A q \in Pids : pc'[q] = IF q = n THEN "control" ELSE pc[q]
  BY <1>b DEF LineageInv, LineageType, Restarts, Labels, Workers
<1>a. alive' = {n} /\ streams' = {n} /\ packets' = {n}
  BY DEF Restarts
<1>f. pc[n] = "none" /\ parentOf[n] # n
  BY <1>b DEF LineageInv, FreshInv
<1> HIDE DEF n
<1>1. LineageType'
  BY <1>b, <1>p, <1>a DEF LineageInv, LineageType, Pids
<1>2. FreshInv'
  <2>1. ASSUME NEW q \in Pids, q > born' PROVE pc'[q] = "none"
    <3>1. q > born /\ q # n
      BY <2>1, <1>b DEF Pids, n
    <3> QED BY <3>1, <1>p DEF LineageInv, FreshInv
  <2>2. ASSUME NEW q \in Pids, pc'[q] = "none"
        PROVE  q \notin alive' /\ commands[q] = <<>> /\ \A r \in Pids : parentOf[r] # q
    <3>1. q # n /\ pc[q] = "none"
      BY <2>2, <1>p
    <3> QED BY <3>1, <1>a DEF LineageInv, FreshInv
  <2> QED BY <2>1, <2>2 DEF LineageInv, FreshInv
<1>3. ChildInv'
  <2>1. \A q \in alive' : pc'[q] = "control" /\ parentOf[q] \notin alive'
    BY <1>a, <1>p, <1>f, <1>b
  <2> QED BY <2>1 DEF ChildInv, Launching
<1>4. CommandInv'
  BY <1>a, <1>f DEF CommandInv
<1>5. LeadInv'
  BY <1>a DEF LeadInv
<1>6. HoldInv'
  BY <1>a, <1>p, <1>b DEF HoldInv, ListenPlaces, PacketPlaces
<1> QED BY <1>1, <1>2, <1>3, <1>4, <1>5, <1>6 DEF LineageInv

LEMMA CrashNext ==
  ASSUME LineageInv, NEW p \in Pids, Crash(p)
  PROVE  LineageInv'
<1>1. CASE p = root
  BY <1>1, RestartsNext DEF Crash, Ends, pipes
<1>2. CASE p # root
  BY <1>2, DiesNext DEF Crash, Ends, pipes
<1> QED BY <1>1, <1>2

LEMMA ChildFailsNext ==
  ASSUME LineageInv, NEW p \in Pids, ChildFails(p)
  PROVE  LineageInv'
BY DiesNext DEF ChildFails, pipes, counts

LEMMA WorkerEndsNext ==
  ASSUME LineageInv, NEW p \in Pids, WorkerEnds(p)
  PROVE  LineageInv'
BY DiesNext DEF WorkerEnds, pipes, counts

----------------------------------------------------------------------------
(* The launch *)

\* What a parent knows of its child, and of its own parent.
LEMMA Relatives ==
  ASSUME LineageInv, NEW p \in Pids
  PROVE  /\ pc[p] \in Labels /\ parentOf[p] # p
         /\ p \in alive => pc[p] # "none"
         /\ \A c \in alive : parentOf[c] = p /\ p \in alive =>
              c = launched[p] /\ c \in Pids /\ pc[c] \in Allowed(pc[p])
         /\ p \in alive /\ parentOf[p] \in alive =>
              /\ pc[p] \in Allowed(pc[parentOf[p]])
              /\ parentOf[p] \in Pids /\ pc[parentOf[p]] \in Labels
BY DEF LineageInv, LineageType, FreshInv, ChildInv

\* Nothing is sent.
LEMMA SameCommands ==
  ASSUME LineageInv, commands' = commands
  PROVE  /\ commands' \in [Pids -> Seq({"activate", "authority"})]
         /\ \A c : \A i \in 1..Len(commands'[c]) :
              \E j \in 1..Len(commands[c]) : commands'[c][i] = commands[c][j]
BY DEF LineageInv, LineageType

LEMMA BeginLaunchNext ==
  ASSUME LineageInv, NEW p \in Pids, BeginLaunch(p)
  PROVE  LineageInv'
<1> DEFINE n == born + 1
<1>b. n \in Pids /\ n > born /\ n \in Nat /\ born \in Nat /\ launches \in Nat
  BY DEF LineageInv, LineageType, BeginLaunch, Pids
<1>e. /\ born' = n /\ launches' = launches + 1
      /\ launched' = [launched EXCEPT ![p] = n]
      /\ pc' = [pc EXCEPT ![p] = "begun"]
      /\ UNCHANGED <<alive, root, parentOf, commands, streams, packets>>
  BY DEF BeginLaunch, Goto, pipes
<1>g. p \in alive /\ pc[p] = "control" /\ Settled(p)
  BY DEF BeginLaunch
<1>f. pc[n] = "none" /\ n # p
  BY <1>b, <1>g DEF LineageInv, FreshInv
<1>p. pc' \in [Pids -> Labels] /\ \A q \in Pids : pc'[q] = IF q = p THEN "begun" ELSE pc[q]
  BY <1>e DEF LineageInv, LineageType, Labels, Workers
<1>l. /\ launched' \in [Pids -> Pids \union {NoPid}]
      /\ \A q \in Pids : launched'[q] = IF q = p THEN n ELSE launched[q]
  BY <1>e, <1>b DEF LineageInv, LineageType
<1>c. \A c \in alive : parentOf[c] # p
  BY <1>g, Relatives, Places DEF Retired
<1>r. parentOf[p] \in alive => pc[parentOf[p]] \in Retired
  <2> SUFFICES ASSUME parentOf[p] \in alive PROVE pc[parentOf[p]] \in Retired
    OBVIOUS
  <2>1. /\ "control" \in Allowed(pc[parentOf[p]]) /\ pc[parentOf[p]] # "transferring"
        /\ parentOf[p] \in Pids
    BY <1>g, Relatives DEF Settled
  <2> QED BY <2>1, Places DEF Early, Middle
<1> HIDE DEF n
<1>1. LineageType'
  <2>1. launches' \in Nat
    BY <1>b, <1>e
  <2> QED BY <2>1, <1>b, <1>e, <1>p, <1>l DEF LineageInv, LineageType
<1>2. FreshInv'
  <2>1. ASSUME NEW q \in Pids, q > born' PROVE pc'[q] = "none"
    <3>1. q > born
      BY <2>1, <1>b, <1>e DEF Pids, n
    <3>2. pc[q] = "none"
      BY <3>1 DEF LineageInv, FreshInv
    <3> QED BY <3>2, <1>p, <1>g
  <2>2. ASSUME NEW q \in Pids, pc'[q] = "none"
        PROVE  q \notin alive' /\ commands'[q] = <<>> /\ \A r \in Pids : parentOf'[r] # q
    <3>1. pc[q] = "none"
      BY <2>2, <1>p
    <3> QED BY <3>1, <1>e DEF LineageInv, FreshInv
  <2>3. \A q \in Pids : parentOf'[q] # q
    BY <1>e DEF LineageInv, FreshInv
  <2> QED BY <2>1, <2>2, <2>3 DEF FreshInv
<1>3. ChildInv'
  <2>1. ASSUME NEW q \in alive', pc'[q] = "begun"
        PROVE  (launched[q] \in Pids /\ launched[q] <= born /\ pc[launched[q]] = "none")'
    <3>1. CASE q = p
      <4>1. launched'[q] = n /\ n <= born' /\ pc'[n] = "none"
        BY <3>1, <1>l, <1>e, <1>b, <1>p, <1>f DEF n
      <4> QED BY <4>1, <1>b
    <3>2. CASE q # p
      <4>1. q \in alive /\ q \in Pids /\ pc[q] = "begun"
        BY <2>1, <3>2, <1>e, <1>p DEF LineageInv, LineageType
      <4>2. launched[q] \in Pids /\ launched[q] <= born /\ pc[launched[q]] = "none"
        BY <4>1 DEF LineageInv, ChildInv
      <4>3. launched'[q] = launched[q] /\ launched[q] # p /\ launched[q] <= born'
        BY <4>1, <4>2, <3>2, <1>l, <1>g, <1>e, <1>b DEF n, Pids
      <4> QED BY <4>2, <4>3, <1>p
    <3> QED BY <3>1, <3>2
  <2>2. ASSUME NEW q \in alive', pc'[q] \in Launching
        PROVE  (/\ launched[q] \in Pids /\ pc[launched[q]] # "none"
                /\ parentOf[launched[q]] = q)'
    <3>1. q \in alive /\ q \in Pids /\ q # p /\ pc[q] \in Launching
      BY <2>2, <1>e, <1>p DEF LineageInv, LineageType, Launching
    <3>2. /\ launched[q] \in Pids /\ pc[launched[q]] # "none"
          /\ parentOf[launched[q]] = q
      BY <3>1 DEF LineageInv, ChildInv
    <3> QED BY <3>1, <3>2, <1>p, <1>l, <1>e
  <2>3. ASSUME NEW c \in alive', parentOf'[c] \in alive'
        PROVE  launched'[parentOf'[c]] = c /\ pc'[c] \in Allowed(pc'[parentOf'[c]])
    <3>1. /\ c \in alive /\ parentOf[c] \in alive /\ c \in Pids /\ parentOf[c] \in Pids
          /\ parentOf[c] # p /\ parentOf'[c] = parentOf[c]
      BY <2>3, <1>e, <1>c DEF LineageInv, LineageType
    <3>2. launched[parentOf[c]] = c /\ pc[c] \in Allowed(pc[parentOf[c]])
      BY <3>1 DEF LineageInv, ChildInv
    <3>3. c = p => pc'[c] \in Allowed(pc[parentOf[c]])
      BY <3>1, <1>r, <1>p, Places
    <3> QED BY <3>1, <3>2, <3>3, <1>p, <1>l
  <2> QED BY <2>1, <2>2, <2>3 DEF ChildInv
<1>4. CommandInv'
  <2> SUFFICES ASSUME NEW c \in alive', parentOf'[c] \in alive'
               PROVE  /\ "activate" \in OnTheWay(c)' => pc'[parentOf'[c]] \in Activates
                      /\ "authority" \in OnTheWay(c)' => pc'[parentOf'[c]] \in Transfers
    BY DEF CommandInv
  <2>1. /\ c \in alive /\ parentOf[c] \in alive /\ parentOf'[c] = parentOf[c]
        /\ parentOf[c] \in Pids /\ parentOf[c] # p
    BY <1>e, <1>c DEF LineageInv, LineageType
  <2>2. OnTheWay(c)' = OnTheWay(c)
    BY <1>e DEF OnTheWay
  <2> QED BY <2>1, <2>2, <1>p DEF LineageInv, CommandInv
<1>5. LeadInv'
  <2> SUFFICES ASSUME NEW q \in alive, NEW r \in alive, q # r,
                      pc'[q] \notin Retired, pc'[r] \notin Retired
               PROVE  parentOf[q] = r \/ parentOf[r] = q
    BY <1>e DEF LeadInv
  <2>1. pc[q] \notin Retired /\ pc[r] \notin Retired
    BY <1>p, <1>g DEF LineageInv, LineageType, Retired
  <2> QED BY <2>1 DEF LineageInv, LeadInv
<1>6. HoldInv'
  BY <1>p, <1>e DEF LineageInv, LineageType, HoldInv, ListenPlaces, PacketPlaces
<1> QED BY <1>1, <1>2, <1>3, <1>4, <1>5, <1>6 DEF LineageInv


\* The child is fresh: it is the only living child of p, which has just begun.
LEMMA SpawnNext ==
  ASSUME LineageInv, NEW p \in Pids, Spawn(p), alive' = alive \union {launched[p]},
         parentOf' = [parentOf EXCEPT ![launched[p]] = p],
         pc' = [pc EXCEPT ![p] = "spawned", ![launched[p]] = "prepare"]
  PROVE  LineageInv'
<1> DEFINE n == launched[p]
<1>g. p \in alive /\ pc[p] = "begun" /\ UNCHANGED <<root, launched, commands, streams, packets, born, launches>>
  BY DEF Spawn, pipes, counts
<1>f. n \in Pids /\ n <= born /\ born \in Nat /\ pc[n] = "none" /\ n # p
  BY <1>g DEF LineageInv, LineageType, ChildInv
<1>n. n \notin alive /\ commands[n] = <<>> /\ \A q \in Pids : parentOf[q] # n
  BY <1>f DEF LineageInv, FreshInv
<1>p. /\ pc' \in [Pids -> Labels]
      /\ \A q \in Pids : pc'[q] = IF q = n THEN "prepare"
                                  ELSE IF q = p THEN "spawned" ELSE pc[q]
  BY <1>f DEF LineageInv, LineageType, Labels, Workers, Children
<1>o. /\ parentOf' \in [Pids -> Pids \union {NoPid}]
      /\ \A q \in Pids : parentOf'[q] = IF q = n THEN p ELSE parentOf[q]
  BY <1>f DEF LineageInv, LineageType
<1>a. alive' = alive \union {n} /\ alive \subseteq Pids /\ alive' \subseteq Pids
  BY <1>f DEF LineageInv, LineageType
<1>c. \A c \in alive : parentOf[c] # p
  BY <1>g, Relatives, Places DEF Retired
<1>r. parentOf[p] \in alive => pc[parentOf[p]] \in Retired
  <2> SUFFICES ASSUME parentOf[p] \in alive PROVE pc[parentOf[p]] \in Retired
    OBVIOUS
  <2>1. "begun" \in Allowed(pc[parentOf[p]]) /\ parentOf[p] \in Pids
    BY <1>g, Relatives
  <2> QED BY <2>1, Places DEF Early, Middle, Children
<1> HIDE DEF n
<1>1. LineageType'
  BY <1>a, <1>g, <1>p, <1>o DEF LineageInv, LineageType
<1>2. FreshInv'
  <2>1. ASSUME NEW q \in Pids, q > born' PROVE pc'[q] = "none"
    <3>1. pc[q] = "none" /\ q # n
      BY <2>1, <1>f, <1>g DEF LineageInv, FreshInv, Pids
    <3> QED BY <3>1, <1>p, <1>g
  <2>2. ASSUME NEW q \in Pids, pc'[q] = "none"
        PROVE  q \notin alive' /\ commands'[q] = <<>> /\ \A r \in Pids : parentOf'[r] # q
    <3>1. pc[q] = "none" /\ q # n /\ q # p
      BY <2>2, <1>p
    <3>2. q \notin alive /\ commands[q] = <<>> /\ \A r \in Pids : parentOf[r] # q
      BY <3>1 DEF LineageInv, FreshInv
    <3> QED BY <3>1, <3>2, <1>a, <1>o, <1>g
  <2>3. \A q \in Pids : parentOf'[q] # q
    BY <1>o, <1>f DEF LineageInv, FreshInv
  <2> QED BY <2>1, <2>2, <2>3 DEF FreshInv
<1>3. ChildInv'
  <2>1. ASSUME NEW q \in alive', pc'[q] = "begun"
        PROVE  (launched[q] \in Pids /\ launched[q] <= born /\ pc[launched[q]] = "none")'
    <3>1. q \in alive /\ q \in Pids /\ pc[q] = "begun" /\ q # p /\ q # n
      BY <2>1, <1>a, <1>p
    <3>2. launched[q] \in Pids /\ launched[q] <= born /\ pc[launched[q]] = "none"
      BY <3>1 DEF LineageInv, ChildInv
    <3>3. parentOf[q] = p \/ parentOf[p] = q
      BY <3>1, <1>g DEF LineageInv, LeadInv, Retired
    <3> QED BY <3>1, <3>3, <1>c, <1>r DEF Retired
  <2>2. ASSUME NEW q \in alive', pc'[q] \in Launching
        PROVE  (/\ launched[q] \in Pids /\ pc[launched[q]] # "none"
                /\ parentOf[launched[q]] = q)'
    <3>1. CASE q = p
      BY <3>1, <1>f, <1>p, <1>o, <1>g DEF n
    <3>2. CASE q # p
      <4>1. q \in alive /\ q \in Pids /\ pc[q] \in Launching /\ q # n
        BY <2>2, <3>2, <1>a, <1>p DEF Launching
      <4>2. /\ launched[q] \in Pids /\ pc[launched[q]] # "none"
            /\ parentOf[launched[q]] = q
        BY <4>1 DEF LineageInv, ChildInv
      <4>3. launched[q] # n
        BY <4>2, <1>f
      <4> QED BY <4>2, <4>3, <1>p, <1>o, <1>g
    <3> QED BY <3>1, <3>2
  <2>3. ASSUME NEW c \in alive', parentOf'[c] \in alive'
        PROVE  launched'[parentOf'[c]] = c /\ pc'[c] \in Allowed(pc'[parentOf'[c]])
    <3>1. CASE c = n
      <4>1. parentOf'[c] = p /\ launched'[p] = n /\ pc'[p] = "spawned" /\ pc'[c] = "prepare"
        BY <3>1, <1>f, <1>o, <1>p, <1>g DEF n
      <4> QED BY <4>1, <3>1, Places DEF Early
    <3>2. CASE c # n
      <4>1. /\ c \in alive /\ c \in Pids /\ parentOf'[c] = parentOf[c] /\ parentOf[c] # n
            /\ parentOf[c] \in alive /\ parentOf[c] \in Pids /\ parentOf[c] # p
        BY <2>3, <3>2, <1>a, <1>o, <1>n, <1>c
      <4>2. launched[parentOf[c]] = c /\ pc[c] \in Allowed(pc[parentOf[c]])
        BY <4>1 DEF LineageInv, ChildInv
      <4>3. c = p => pc'[c] \in Allowed(pc[parentOf[c]])
        BY <4>1, <1>r, <1>p, Places
      <4> QED BY <4>1, <4>2, <4>3, <3>2, <1>p, <1>g
    <3> QED BY <3>1, <3>2
  <2> QED BY <2>1, <2>2, <2>3 DEF ChildInv
<1>4. CommandInv'
  <2> SUFFICES ASSUME NEW c \in alive', parentOf'[c] \in alive'
               PROVE  /\ "activate" \in OnTheWay(c)' => pc'[parentOf'[c]] \in Activates
                      /\ "authority" \in OnTheWay(c)' => pc'[parentOf'[c]] \in Transfers
    BY DEF CommandInv
  <2>1. OnTheWay(c)' = OnTheWay(c)
    BY <1>g DEF OnTheWay
  <2>2. CASE c = n
    <3>1. OnTheWay(c) = {}
      BY <2>2, <1>n DEF OnTheWay
    <3> QED BY <3>1, <2>1
  <2>3. CASE c # n
    <3>1. /\ c \in alive /\ c \in Pids /\ parentOf'[c] = parentOf[c] /\ parentOf[c] # n
          /\ parentOf[c] \in alive /\ parentOf[c] \in Pids /\ parentOf[c] # p
      BY <2>3, <1>a, <1>o, <1>n, <1>c
    <3> QED BY <3>1, <2>1, <1>p DEF LineageInv, CommandInv
  <2> QED BY <2>2, <2>3
<1>5. LeadInv'
  <2> SUFFICES ASSUME NEW q \in alive', NEW r \in alive', q # r,
                      pc'[q] \notin Retired, pc'[r] \notin Retired
               PROVE  parentOf'[q] = r \/ parentOf'[r] = q
    BY DEF LeadInv
  <2>1. \A s \in alive : pc'[s] \notin Retired /\ s # p => parentOf[s] = p \/ parentOf[p] = s
    BY <1>p, <1>a, <1>n, <1>g DEF LineageInv, LeadInv, Retired
  <2>2. \A s \in alive : pc'[s] \notin Retired => s = p
    <3> SUFFICES ASSUME NEW s \in alive, pc'[s] \notin Retired, s # p PROVE FALSE
      OBVIOUS
    <3>1. parentOf[p] = s /\ pc[s] \in Retired
      BY <2>1, <1>c, <1>r
    <3>2. pc'[s] = pc[s]
      BY <1>p, <1>a, <1>n
    <3> QED BY <3>1, <3>2
  <2>3. q \in alive \union {n} /\ r \in alive \union {n}
    BY <1>a
  <2>4. (q = n \/ q = p) /\ (r = n \/ r = p)
    BY <2>2, <2>3
  <2> QED BY <2>4, <1>o, <1>f
<1>6. HoldInv'
  <2>1. ASSUME NEW q, q \in alive PROVE q \in alive' /\ q \in Pids /\ q # n
    BY <2>1, <1>a, <1>n
  <2>2. ASSUME NEW q \in streams' PROVE q \in alive' /\ pc'[q] \in ListenPlaces
    BY <2>1, <1>p, <1>g DEF LineageInv, HoldInv, ListenPlaces
  <2>3. ASSUME NEW q \in packets' PROVE q \in alive' /\ pc'[q] \in PacketPlaces
    BY <2>1, <1>p, <1>g DEF LineageInv, HoldInv, PacketPlaces
  <2> QED BY <2>2, <2>3 DEF HoldInv
<1> QED BY <1>1, <1>2, <1>3, <1>4, <1>5, <1>6 DEF LineageInv


----------------------------------------------------------------------------
(* The parent waits for its child, aborts it or hands over *)

\* A process moves on without a command and without a change of who holds what,
\* except that it may drop resources and others may end.
LEMMA QuietMove ==
  ASSUME LineageInv, NEW p \in Pids, NEW place,
         p \in alive, pc' = [pc EXCEPT ![p] = place],
         place \in Labels \ {"none", "begun"},
         pc[p] \in Retired => place \in Retired,
         place \in Launching => pc[p] \in Launching,
         alive' \subseteq alive,
         \A q \in streams' : q \in streams /\ q \in alive',
         \A q \in packets' : q \in packets /\ q \in alive',
         p \in streams' => place \in ListenPlaces,
         p \in packets' => place \in PacketPlaces,
         \A c \in alive' : parentOf[c] = p =>
           /\ pc[c] \in Allowed(pc[p]) => pc[c] \in Allowed(place)
           /\ pc[p] \in Activates => place \in Activates
           /\ pc[p] \in Transfers => place \in Transfers,
         \A q \in Pids : q \in alive' /\ pc[p] \in Allowed(pc[q]) /\ parentOf[p] = q
           => place \in Allowed(pc[q]),
         UNCHANGED <<root, launched, parentOf, commands, born, launches>>
  PROVE  LineageInv'
<1>1. Moves(p, place)
  <2>1. pc[p] # "none"
    BY Relatives
  <2>2. \A c \in alive' : parentOf[c] = p /\ p \in alive' =>
          /\ pc[c] \in Allowed(place)
          /\ pc[p] \in Activates => place \in Activates
          /\ pc[p] \in Transfers => place \in Transfers
    BY Relatives
  <2>3. p \in alive' /\ parentOf[p] \in alive' => place \in Allowed(pc[parentOf[p]])
    BY Relatives
  <2>4. \A q \in streams' : /\ q \in alive'
                            /\ IF q = p THEN place \in ListenPlaces ELSE q \in streams
    OBVIOUS
  <2>5. \A q \in packets' : /\ q \in alive'
                            /\ IF q = p THEN place \in PacketPlaces ELSE q \in packets
    OBVIOUS
  <2> QED BY <2>1, <2>2, <2>3, <2>4, <2>5, SameCommands DEF Moves
<1> QED BY <1>1, MovesNext

\* A place that only the child of a retired parent can be at.
LEMMA LeadPlace ==
  ASSUME NEW place \in Labels, NEW from,
         from \notin Children \union {"control"}, from \in Allowed(place)
  PROVE  Allowed(place) = Labels
BY Places DEF Early, Middle, Children

LEMMA HeldWhileAlive ==
  LineageInv => /\ \A q \in streams : q \in alive /\ pc[q] \in ListenPlaces
                /\ \A q \in packets : q \in alive /\ pc[q] \in PacketPlaces
BY DEF LineageInv, HoldInv

LEMMA CancelSpawnNext ==
  ASSUME LineageInv, NEW p \in Pids, Spawn(p), Goto(p, "control"), parentOf' = parentOf,
         alive' = alive
  PROVE  LineageInv'
<1>1. /\ p \in alive /\ pc[p] = "begun" /\ pc' = [pc EXCEPT ![p] = "control"]
      /\ UNCHANGED <<root, launched, commands, streams, packets, born, launches>>
  BY DEF Spawn, Goto, pipes, counts
<1>2. \A c \in alive : parentOf[c] # p
  BY <1>1, Relatives, Places DEF Retired
<1>3. \A q \in Pids : q \in alive' /\ pc[p] \in Allowed(pc[q]) /\ parentOf[p] = q
        => "control" \in Allowed(pc[q])
  BY <1>1, LeadPlace, Relatives DEF Children, Labels, Workers
<1> QED BY <1>1, <1>2, <1>3, QuietMove, HeldWhileAlive
        DEF Labels, Workers, Retired, Launching, ListenPlaces, PacketPlaces

\* The child is killed: p has no living child then.
LEMMA KilledNext ==
  ASSUME LineageInv, NEW p \in Pids, p \in alive,
         pc[p] \in Launching \ {"aborted"},
         Dies(Killed(p)), Goto(p, "aborted"),
         UNCHANGED <<root, launched, parentOf, commands, born, launches>>
  PROVE  LineageInv'
<1>1. \A c \in alive' : parentOf[c] # p
  BY Relatives DEF Dies, Killed
<1>2. \A q \in Pids : q \in alive' /\ pc[p] \in Allowed(pc[q]) /\ parentOf[p] = q
        => "aborted" \in Allowed(pc[q])
  BY LeadPlace, Relatives DEF Children, Labels, Workers, Launching
<1>3. /\ pc' = [pc EXCEPT ![p] = "aborted"] /\ alive' \subseteq alive
      /\ \A q \in streams' : q \in streams /\ q \in alive'
      /\ \A q \in packets' : q \in packets /\ q \in alive'
  BY HeldWhileAlive DEF Dies, Goto
<1> QED BY <1>1, <1>2, <1>3, QuietMove
        DEF Labels, Workers, Retired, Launching, ListenPlaces, PacketPlaces

LEMMA AttachNext ==
  ASSUME LineageInv, NEW p \in Pids, Attach(p)
  PROVE  LineageInv'
<1>1. /\ p \in alive /\ pc[p] = "spawned"
      /\ UNCHANGED <<root, launched, parentOf, commands, born, launches>>
  BY DEF Attach, pipes, counts
<1>2. CASE Dies(Killed(p)) /\ Goto(p, "aborted")
  BY <1>1, <1>2, KilledNext DEF Launching
<1>3. CASE Goto(p, "wait_ready") /\ UNCHANGED <<alive, streams, packets>>
  <2>1. \A q \in Pids : q \in alive' /\ pc[p] \in Allowed(pc[q]) /\ parentOf[p] = q
          => "wait_ready" \in Allowed(pc[q])
    BY <1>1, LeadPlace, Relatives DEF Children, Labels, Workers
  <2>2. Allowed("spawned") = Allowed("wait_ready")
    BY Places
  <2>3. /\ "wait_ready" \in Labels \ {"none", "begun"}
        /\ "spawned" \notin Retired \union Activates \union Transfers
        /\ "wait_ready" \in ListenPlaces \intersect PacketPlaces
        /\ "spawned" \in Launching
    BY DEF Labels, Workers, Retired, Launching, ListenPlaces, PacketPlaces, Activates,
           Transfers
  <2>4. pc' = [pc EXCEPT ![p] = "wait_ready"]
    BY <1>3 DEF Goto
  <2>5. /\ alive' \subseteq alive
        /\ \A q \in streams' : q \in streams /\ q \in alive'
        /\ \A q \in packets' : q \in packets /\ q \in alive'
    BY <1>3, HeldWhileAlive
  <2>6. /\ pc[p] \notin Retired /\ pc[p] \notin Activates /\ pc[p] \notin Transfers
        /\ pc[p] \in Launching /\ Allowed(pc[p]) = Allowed("wait_ready")
    BY <1>1, <2>2, <2>3
  <2> QED BY <1>1, <2>1, <2>3, <2>4, <2>5, <2>6, QuietMove
<1> QED BY <1>2, <1>3 DEF Attach

\* The wait ends well: the child may be further than it could be before.
LEMMA AnsweredNext ==
  ASSUME LineageInv, NEW p \in Pids, p \in alive, pc[p] \in Waiting,
         Goto(p, After[pc[p]]),
         UNCHANGED <<alive, root, launched, parentOf, commands, streams, packets, born,
                     launches>>
  PROVE  LineageInv'
<1>1. \A q \in Pids : q \in alive' /\ pc[p] \in Allowed(pc[q]) /\ parentOf[p] = q
        => After[pc[p]] \in Allowed(pc[q])
  BY LeadPlace, Relatives DEF Children, Labels, Workers, Waiting, After, Retired
<1>2. Allowed(pc[p]) \subseteq Allowed(After[pc[p]])
  BY Places DEF Waiting, After, Retired, Labels, Children, Workers
<1>3. pc' = [pc EXCEPT ![p] = After[pc[p]]]
  BY DEF Goto
<1>4. /\ After[pc[p]] \in Labels \ {"none", "begun"}
      /\ pc[p] \notin Retired
      /\ After[pc[p]] \in Launching => pc[p] \in Launching
      /\ pc[p] \in Activates => After[pc[p]] \in Activates
      /\ pc[p] \in Transfers => After[pc[p]] \in Transfers
      /\ pc[p] \in ListenPlaces => After[pc[p]] \in ListenPlaces
      /\ pc[p] \in PacketPlaces => After[pc[p]] \in PacketPlaces
  BY DEF Waiting, After, Labels, Workers, Retired, Launching, ListenPlaces, PacketPlaces,
         Activates, Transfers, Middle
<1> QED BY <1>1, <1>2, <1>3, <1>4, QuietMove, HeldWhileAlive

LEMMA ReceiveNext ==
  ASSUME LineageInv, NEW p \in Pids, Receive(p)
  PROVE  LineageInv'
BY AnsweredNext DEF Receive, counts

LEMMA GiveUpNext ==
  ASSUME LineageInv, NEW p \in Pids, GiveUp(p)
  PROVE  LineageInv'
BY AnsweredNext DEF GiveUp, counts

LEMMA AbortNext ==
  ASSUME LineageInv, NEW p \in Pids, Abort(p)
  PROVE  LineageInv'
BY KilledNext DEF Abort, Waiting, Launching, pipes, counts

\* A retired process stays retired and has no resources.
LEMMA RetiredMove ==
  ASSUME LineageInv, NEW p \in Pids, p \in alive, NEW place \in Retired,
         pc[p] \in Retired, Goto(p, place),
         UNCHANGED <<alive, root, launched, parentOf, commands, streams, packets, born,
                     launches>>
  PROVE  LineageInv'
<1>1. \A q \in Pids : q \in alive' /\ pc[p] \in Allowed(pc[q]) /\ parentOf[p] = q
        => place \in Allowed(pc[q])
  <2>1. place \in Labels
    BY DEF Labels
  <2>2. pc[p] \notin Children \union {"control"}
    BY DEF Retired, Children
  <2> QED BY <2>1, <2>2, LeadPlace, Relatives
<1>2. Allowed(pc[p]) = Allowed(place)
  BY Places
<1>3. pc[p] \notin ListenPlaces /\ pc[p] \notin PacketPlaces
  BY DEF Retired, ListenPlaces, PacketPlaces, Middle
<1>4. place \in Labels \ {"none", "begun"} /\ place \notin Launching
      /\ place \in Activates /\ place \in Transfers
  BY DEF Retired, Labels, Launching, Activates, Transfers
<1> QED BY <1>1, <1>2, <1>3, <1>4, QuietMove, HeldWhileAlive DEF Goto

LEMMA DrainedNext ==
  ASSUME LineageInv, NEW p \in Pids, Drained(p)
  PROVE  LineageInv'
<1>1. CASE p = root
  BY <1>1, RetiredMove DEF Drained, Retired, pipes, counts
<1>2. CASE p # root
  BY <1>2, DiesNext DEF Drained, pipes, counts
<1> QED BY <1>1, <1>2


\* The parent has no living child and takes the resources back.
LEMMA ResumeNext ==
  ASSUME LineageInv, NEW p \in Pids, Resume(p)
  PROVE  LineageInv'
<1>1. /\ p \in alive /\ pc[p] = "aborted" /\ pc' = [pc EXCEPT ![p] = "control"]
      /\ streams' = streams \union {p} /\ packets' = packets \union {p}
      /\ UNCHANGED <<alive, root, launched, parentOf, commands, born, launches>>
  BY DEF Resume, Goto, pipes, counts
<1>2. \A c \in alive : parentOf[c] # p
  BY <1>1, Relatives, Places DEF Retired
<1>3. p \in alive' /\ parentOf[p] \in alive' => "control" \in Allowed(pc[parentOf[p]])
  <2> SUFFICES ASSUME parentOf[p] \in alive PROVE "control" \in Allowed(pc[parentOf[p]])
    BY <1>1
  <2>1. "aborted" \in Allowed(pc[parentOf[p]]) /\ pc[parentOf[p]] \in Labels
    BY <1>1, Relatives
  <2>2. "aborted" \notin Children \union {"control"} /\ "control" \in Labels
    BY DEF Children, Labels, Workers
  <2> QED BY <2>1, <2>2, LeadPlace
<1>4. /\ "control" \in Labels \ {"none", "begun"} /\ "aborted" \notin Retired
      /\ "control" \notin Launching
      /\ "control" \in ListenPlaces \intersect PacketPlaces
  BY DEF Labels, Workers, Retired, Launching, ListenPlaces, PacketPlaces
<1>5. \A q \in streams \union packets : q \in alive
  BY HeldWhileAlive
<1>6. /\ \A q \in streams' : /\ q \in alive'
                             /\ IF q = p THEN "control" \in ListenPlaces ELSE q \in streams
      /\ \A q \in packets' : /\ q \in alive'
                             /\ IF q = p THEN "control" \in PacketPlaces ELSE q \in packets
  BY <1>1, <1>4, <1>5
<1>7. Moves(p, "control")
  BY <1>1, <1>2, <1>3, <1>4, <1>6, SameCommands DEF Moves
<1> QED BY <1>7, MovesNext

\* The command that lets the child go on is on its way.
LEMMA SendNext ==
  ASSUME LineageInv, NEW p \in Pids, p \in alive,
         NEW place \in {"activating", "transferring"},
         NEW command \in {"activate", "authority"},
         \/ pc[p] = "ready" /\ place = "activating" /\ command = "activate"
         \/ pc[p] = "activated" /\ place = "transferring" /\ command = "authority",
         commands' = [commands EXCEPT ![launched[p]] = Append(@, command)],
         streams' \subseteq streams, packets' \subseteq packets,
         place = "activating" => p \notin streams',
         place = "transferring" => p \notin packets',
         Goto(p, place),
         UNCHANGED <<alive, root, launched, parentOf, born, launches>>
  PROVE  LineageInv'
<1>1. /\ launched[p] \in Pids /\ pc[launched[p]] # "none" /\ parentOf[launched[p]] = p
      /\ commands \in [Pids -> Seq({"activate", "authority"})]
  BY DEF LineageInv, LineageType, ChildInv, Launching
<1>2. /\ commands' \in [Pids -> Seq({"activate", "authority"})]
      /\ \A c \in Pids : c # launched[p] => commands'[c] = commands[c]
      /\ commands'[launched[p]] = Append(commands[launched[p]], command)
  BY <1>1, SequenceElements
<1>3. pc[p] \notin Retired /\ place \in Labels \ {"none", "begun"}
      /\ place \in Launching /\ pc[p] \in Launching
      /\ (command = "activate" => place \in Activates)
      /\ (command = "authority" => place \in Transfers)
      /\ (pc[p] \in Activates => place \in Activates) /\ pc[p] \notin Transfers
      /\ (place = "activating" => place \in PacketPlaces) 
  BY DEF Retired, Labels, Workers, Launching, Activates, Transfers, PacketPlaces
<1>4. Allowed(pc[p]) \subseteq Allowed(place)
  BY Places DEF Children, Early, Middle
<1>5. parentOf[p] \in alive => place \in Allowed(pc[parentOf[p]])
  <2> SUFFICES ASSUME parentOf[p] \in alive PROVE place \in Allowed(pc[parentOf[p]])
    OBVIOUS
  <2>1. pc[p] \in Allowed(pc[parentOf[p]]) /\ pc[parentOf[p]] \in Labels
    BY Relatives
  <2>2. pc[p] \notin Children \union {"control"}
    BY DEF Children
  <2> QED BY <1>3, <2>1, <2>2, LeadPlace
<1>6. \A c \in alive : parentOf[c] \in alive =>
        \A i \in 1..Len(commands'[c]) :
          \/ \E j \in 1..Len(commands[c]) : commands'[c][i] = commands[c][j]
          \/ parentOf[c] = p /\ commands'[c][i] = "activate" /\ place \in Activates
          \/ parentOf[c] = p /\ commands'[c][i] = "authority" /\ place \in Transfers
  <2> SUFFICES ASSUME NEW c \in alive, NEW i \in 1..Len(commands'[c])
               PROVE  \/ \E j \in 1..Len(commands[c]) : commands'[c][i] = commands[c][j]
                      \/ parentOf[c] = p /\ commands'[c][i] = "activate" /\ place \in Activates
                      \/ parentOf[c] = p /\ commands'[c][i] = "authority" /\ place \in Transfers
    OBVIOUS
  <2>1. CASE c # launched[p]
    <3>1. commands'[c] = commands[c]
      BY <2>1, <1>2 DEF LineageInv, LineageType
    <3> QED BY <3>1
  <2>2. CASE c = launched[p]
    <3>1. \/ commands'[c][i] = command
          \/ \E j \in 1..Len(commands[c]) : commands'[c][i] = commands[c][j]
      BY <2>2, <1>1, <1>2, SequenceElements
    <3> QED BY <3>1, <2>2, <1>1, <1>3
  <2> QED BY <2>1, <2>2
<1>7. /\ \A q \in streams' : q \in streams /\ q \in alive'
      /\ \A q \in packets' : q \in packets /\ q \in alive'
      /\ p \in streams' => place \in ListenPlaces
      /\ p \in packets' => place \in PacketPlaces
  <2>1. pc[p] = "activated" => p \notin streams
    BY HeldWhileAlive DEF ListenPlaces, Middle
  <2> QED BY <2>1, <1>3, HeldWhileAlive
<1>8. \A c \in alive' : parentOf[c] = p /\ p \in alive' =>
        /\ pc[c] \in Allowed(place)
        /\ pc[p] \in Activates => place \in Activates
        /\ pc[p] \in Transfers => place \in Transfers
  BY <1>3, <1>4, Relatives
<1>9. Moves(p, place)
  BY <1>1, <1>2, <1>3, <1>5, <1>6, <1>7, <1>8 DEF Moves, Goto
<1> QED BY <1>9, MovesNext

LEMMA SendActivateNext ==
  ASSUME LineageInv, NEW p \in Pids, SendActivate(p)
  PROVE  LineageInv'
BY SendNext DEF SendActivate, counts

LEMMA SendAuthorityNext ==
  ASSUME LineageInv, NEW p \in Pids, SendAuthority(p)
  PROVE  LineageInv'
BY SendNext DEF SendAuthority, StopsReading, counts

----------------------------------------------------------------------------
(* The child *)

\* The phases of the child are closed, and it has no child of its own.
LEMMA ChildPlaces ==
  ASSUME NEW from, NEW to, NEW place \in Labels, from \in Allowed(place),
         \/ from \in Early /\ to \in Early
         \/ from \in Middle /\ to \in Middle
         \/ from \in {"authority_done", "authority_journaled"}
              /\ to \in {"authority_journaled", "control"}
  PROVE  to \in Allowed(place)
BY Places DEF Early, Middle, Children, Labels, Workers

LEMMA ChildMove ==
  ASSUME LineageInv, NEW p \in Pids, p \in alive, NEW to,
         \/ pc[p] \in Early /\ to \in Early
         \/ pc[p] \in Middle /\ to \in Middle
         \/ /\ pc[p] \in {"authority_done", "authority_journaled"}
            /\ to \in {"authority_journaled", "control"},
         Goto(p, to),
         UNCHANGED <<alive, root, launched, parentOf, commands, streams, packets, born,
                     launches>>
  PROVE  LineageInv'
<1>1. \A q \in Pids : q \in alive' /\ pc[p] \in Allowed(pc[q]) /\ parentOf[p] = q
        => to \in Allowed(pc[q])
  BY ChildPlaces, Relatives
<1>2. \A c \in alive : parentOf[c] # p
  BY Relatives, Places DEF Retired, Early, Middle
<1>3. /\ to \in Labels \ {"none", "begun"} /\ to \notin Launching
      /\ pc[p] \notin Retired
      /\ pc[p] \in ListenPlaces => to \in ListenPlaces
      /\ pc[p] \in PacketPlaces => to \in PacketPlaces
  BY DEF Early, Middle, Labels, Children, Workers, Launching, Retired, ListenPlaces,
         PacketPlaces
<1>4. /\ alive' \subseteq alive /\ pc' = [pc EXCEPT ![p] = to]
      /\ \A q \in streams' : q \in streams /\ q \in alive'
      /\ \A q \in packets' : q \in packets /\ q \in alive'
      /\ p \in streams' => to \in ListenPlaces
      /\ p \in packets' => to \in PacketPlaces
      /\ \A c \in alive' : parentOf[c] # p
  BY <1>2, <1>3, HeldWhileAlive DEF Goto
<1>5. UNCHANGED <<root, launched, parentOf, commands, born, launches>>
  OBVIOUS
<1>6. pc[p] \in Retired => to \in Retired
  BY <1>3
<1>7. to \in Launching => pc[p] \in Launching
  BY <1>3
<1>8. \A c \in alive' : parentOf[c] = p =>
        /\ pc[c] \in Allowed(pc[p]) => pc[c] \in Allowed(to)
        /\ pc[p] \in Activates => to \in Activates
        /\ pc[p] \in Transfers => to \in Transfers
  BY <1>4
<1> QED BY ONLY LineageInv, p \in Pids, p \in alive, <1>1, <1>3, <1>4, <1>5, <1>6, <1>7, <1>8, QuietMove

LEMMA AdvanceJournalNext ==
  ASSUME LineageInv, NEW p \in Pids, AdvanceJournal(p)
  PROVE  LineageInv'
<1>1. CASE CanAdvance(p, PhaseAt[pc[p]])
  <2>1. /\ p \in alive /\ Goto(p, Journaled[pc[p]])
        /\ UNCHANGED <<alive, root, launched, parentOf, commands, streams, packets, born,
                       launches>>
    BY <1>1 DEF AdvanceJournal, pipes, counts
  <2>2. \/ pc[p] \in Early /\ Journaled[pc[p]] \in Early
        \/ pc[p] \in Middle /\ Journaled[pc[p]] \in Middle
        \/ /\ pc[p] \in {"authority_done", "authority_journaled"}
           /\ Journaled[pc[p]] \in {"authority_journaled", "control"}
    BY DEF AdvanceJournal, Journaled, Early, Middle
  <2> QED BY <2>1, <2>2, ChildMove
<1>2. CASE ~CanAdvance(p, PhaseAt[pc[p]])
  BY <1>2, DiesNext DEF AdvanceJournal, pipes, counts
<1> QED BY <1>1, <1>2

LEMMA SendEventNext ==
  ASSUME LineageInv, NEW p \in Pids, SendEvent(p)
  PROVE  LineageInv'
<1>1. /\ p \in alive /\ Goto(p, AfterSend[pc[p]])
      /\ UNCHANGED <<alive, root, launched, parentOf, commands, streams, packets, born,
                     launches>>
  BY DEF SendEvent, counts
<1>2. \/ pc[p] \in Early /\ AfterSend[pc[p]] \in Early
      \/ pc[p] \in Middle /\ AfterSend[pc[p]] \in Middle
      \/ /\ pc[p] \in {"authority_done", "authority_journaled"}
         /\ AfterSend[pc[p]] \in {"authority_journaled", "control"}
  BY DEF SendEvent, AfterSend, Early, Middle
<1> QED BY <1>1, <1>2, ChildMove


\* The command shows that the parent has paused, or the parent is dead.
LEMMA TakeOverNext ==
  ASSUME LineageInv, NEW p \in Pids, TakeOver(p)
  PROVE  LineageInv'
<1>1. /\ p \in alive /\ pc[p] \in {"await_activate", "await_authority"}
      /\ pc' = [pc EXCEPT ![p] = Done[pc[p]]]
      /\ UNCHANGED <<alive, root, launched, parentOf, born, launches>>
      /\ commands \in [Pids -> Seq({"activate", "authority"})]
  BY DEF TakeOver, Goto, counts, LineageInv, LineageType
<1>2. /\ commands' \in [Pids -> Seq({"activate", "authority"})]
      /\ \A c \in Pids : \A i \in 1..Len(commands'[c]) :
           \E j \in 1..Len(commands[c]) : commands'[c][i] = commands[c][j]
      /\ \A c \in Pids : pc[c] = "none" => commands'[c] = commands[c]
      /\ parentOf[p] \in alive => Done[pc[p]] \in Allowed(pc[parentOf[p]])
  <2>1. CASE commands[p] # <<>>
    <3>1. /\ Head(commands[p]) = Action[pc[p]]
          /\ commands' = [commands EXCEPT ![p] = Tail(@)]
      BY <2>1 DEF TakeOver
    <3>2. /\ commands[p] \in Seq({"activate", "authority"})
          /\ Tail(commands[p]) \in Seq({"activate", "authority"})
          /\ Head(commands[p]) = commands[p][1] /\ 1 \in 1..Len(commands[p])
          /\ \A i \in 1..Len(Tail(commands[p])) :
               \E j \in 1..Len(commands[p]) : Tail(commands[p])[i] = commands[p][j]
      BY <1>1, <2>1, SequenceElements
    <3>3. /\ commands' \in [Pids -> Seq({"activate", "authority"})]
          /\ \A c \in Pids : commands'[c] = IF c = p THEN Tail(commands[p]) ELSE commands[c]
      BY <1>1, <3>1, <3>2
    <3>4. \A c \in Pids : \A i \in 1..Len(commands'[c]) :
            \E j \in 1..Len(commands[c]) : commands'[c][i] = commands[c][j]
      BY <3>2, <3>3, ZenonT(30)
    <3>5. \A c \in Pids : pc[c] = "none" => commands'[c] = commands[c]
      BY <1>1, <3>3
    <3>6. Action[pc[p]] \in OnTheWay(p)
      BY <3>1, <3>2 DEF OnTheWay
    <3>7. parentOf[p] \in alive => Done[pc[p]] \in Allowed(pc[parentOf[p]])
      <4> SUFFICES ASSUME parentOf[p] \in alive
                   PROVE  Done[pc[p]] \in Allowed(pc[parentOf[p]])
        OBVIOUS
      <4>1. CASE pc[p] = "await_activate"
        <5>1. pc[parentOf[p]] \in Activates
          BY <1>1, <3>6, <4>1 DEF LineageInv, CommandInv, Action
        <5> QED BY <5>1, <4>1, Places DEF Done, Activates, Middle, Children, Labels
      <4>2. CASE pc[p] = "await_authority"
        <5>1. pc[parentOf[p]] \in Transfers
          BY <1>1, <3>6, <4>2 DEF LineageInv, CommandInv, Action
        <5> QED BY <5>1, <4>2, Places DEF Done, Transfers, Children, Labels
      <4> QED BY <1>1, <4>1, <4>2
    <3> QED BY <3>3, <3>4, <3>5, <3>7
  <2>2. CASE commands[p] = <<>>
    <3>1. commands' = commands /\ parentOf[p] \notin alive
      BY <2>2 DEF TakeOver, MayTakeOver, Orphan
    <3> QED BY <3>1, SameCommands
  <2> QED BY <2>1, <2>2
<1>3. /\ streams' = IF pc[p] = "await_activate" THEN streams \union {p} ELSE streams
      /\ packets' = IF pc[p] = "await_authority" THEN packets \union {p} ELSE packets
  BY DEF TakeOver
<1>4. /\ Done[pc[p]] \in Labels \ {"none", "begun"} /\ Done[pc[p]] \notin Launching
      /\ pc[p] \notin Retired /\ Done[pc[p]] \in ListenPlaces
      /\ pc[p] \notin PacketPlaces
      /\ pc[p] = "await_authority" => Done[pc[p]] \in PacketPlaces
  BY <1>1 DEF Done, Labels, Children, Launching, Retired, ListenPlaces, PacketPlaces, Middle
<1>5. \A c \in alive : parentOf[c] # p
  BY <1>1, Relatives, Places DEF Retired
<1>6. /\ \A q \in streams' : /\ q \in alive'
                             /\ IF q = p THEN Done[pc[p]] \in ListenPlaces ELSE q \in streams
      /\ \A q \in packets' : /\ q \in alive'
                             /\ IF q = p THEN Done[pc[p]] \in PacketPlaces ELSE q \in packets
  BY <1>1, <1>3, <1>4, HeldWhileAlive
<1>7. pc[p] # "none"
  BY <1>1
<1>8. \A c \in alive' : parentOf[c] \in alive' => c \in Pids
  BY <1>1 DEF LineageInv, LineageType
<1>9. Moves(p, Done[pc[p]])
  BY <1>1, <1>2, <1>4, <1>5, <1>6, <1>7, <1>8 DEF Moves
<1> QED BY <1>9, MovesNext

----------------------------------------------------------------------------
(* The supervisor *)

LEMMA RootMove ==
  ASSUME LineageInv, NEW place \in Retired, pc[root] \in Retired, Goto(root, place),
         UNCHANGED <<alive, root, launched, parentOf, commands, streams, packets, born,
                     launches>>
  PROVE  LineageInv'
<1>1. root \in Pids
  BY DEF LineageInv, LineageType
<1>2. CASE root \in alive
  BY <1>1, <1>2, RetiredMove
<1>3. CASE root \notin alive
  <2>1. /\ place \in Labels \ {"none", "begun"} /\ place \notin Launching
        /\ pc[root] # "none"
    BY DEF Retired, Labels, Launching
  <2>2. Moves(root, place)
    BY <1>3, <2>1, SameCommands, HeldWhileAlive DEF Moves, Goto
  <2> QED BY <1>1, <2>2, MovesNext
<1> QED BY <1>2, <1>3

LEMMA RootStepNext ==
  ASSUME LineageInv, RootStep
  PROVE  LineageInv'
<1>1. CASE DirectDone
  BY <1>1, RootMove DEF DirectDone, Retired, pipes, counts
<1>2. CASE FollowLineage
  BY <1>2, SettledNext DEF FollowLineage, pipes, counts
<1>3. CASE RecoverRoot
  BY <1>3, SettledNext DEF RecoverRoot, pipes, counts
<1>4. CASE LineageEnds
  BY <1>4, RestartsNext DEF LineageEnds, pipes
<1>5. CASE StopNext
  <2>1. /\ pc[root] \in Retired
        /\ UNCHANGED <<alive, root, launched, parentOf, commands, streams, packets, born,
                       launches>>
    BY <1>5 DEF StopNext, Retired, pipes, counts
  <2>2. CASE Goto(root, "stopped")
    BY <2>1, <2>2, RootMove DEF Retired
  <2>3. CASE UNCHANGED pc
    BY <2>1, <2>3, SettledNext
  <2> QED BY <1>5, <2>2, <2>3 DEF StopNext
<1> QED BY <1>1, <1>2, <1>3, <1>4, <1>5 DEF RootStep

LEMMA ShutdownNext ==
  ASSUME LineageInv, Shutdown
  PROVE  LineageInv'
BY RootMove DEF Shutdown, Retired, pipes, counts

----------------------------------------------------------------------------
(* The invariant, and one controller *)

LEMMA LineageInit == Init => LineageInv
<1> SUFFICES ASSUME Init PROVE LineageInv
  OBVIOUS
<1>1. 1 \in Pids /\ NoPid \notin Pids /\ (\A p \in Pids : p > 1 => p # 1)
  BY BoundsAssumption DEF Pids, NoPid
<1>2. /\ alive = {1} /\ root = 1 /\ streams = {1} /\ packets = {1}
      /\ pc = [p \in Pids |-> IF p = 1 THEN "control" ELSE "none"]
      /\ launched = [p \in Pids |-> NoPid] /\ parentOf = [p \in Pids |-> NoPid]
      /\ commands = [p \in Pids |-> <<>>] /\ born = 1 /\ launches = 0
  BY DEF Init
<1>3. LineageType
  BY <1>1, <1>2 DEF LineageType, Labels, Workers
<1>4. FreshInv
  BY <1>1, <1>2 DEF FreshInv
<1>5. ChildInv
  BY <1>1, <1>2 DEF ChildInv, Launching, NoPid
<1>6. CommandInv
  BY <1>1, <1>2 DEF CommandInv, NoPid
<1>7. LeadInv
  BY <1>2 DEF LeadInv
<1>8. HoldInv
  BY <1>1, <1>2 DEF HoldInv, ListenPlaces, PacketPlaces
<1> QED BY <1>3, <1>4, <1>5, <1>6, <1>7, <1>8 DEF LineageInv

\* Every step keeps the invariant.
LEMMA LineageNext == LineageInv /\ [Next]_vars => LineageInv'
<1> SUFFICES ASSUME LineageInv, [Next]_vars PROVE LineageInv'
  OBVIOUS
<1>1. ASSUME NEW p \in Pids, BeginLaunch(p) PROVE LineageInv'
  BY <1>1, BeginLaunchNext
<1>2. ASSUME NEW p \in Pids, ParentStep(p) PROVE LineageInv'
  <2>1. CASE Spawn(p)
    BY <2>1, SpawnNext, CancelSpawnNext DEF Spawn
  <2> QED BY <1>2, <2>1, AttachNext, ReceiveNext, GiveUpNext, AbortNext, ResumeNext,
             SendActivateNext, SendAuthorityNext, DrainedNext DEF ParentStep
<1>3. ASSUME NEW p \in Pids, ChildStep(p) PROVE LineageInv'
  BY <1>3, AdvanceJournalNext, SendEventNext, TakeOverNext DEF ChildStep
<1>4. ASSUME NEW p \in Pids, ChildFails(p) \/ Crash(p) \/ WorkerEnds(p) PROVE LineageInv'
  BY <1>4, ChildFailsNext, CrashNext, WorkerEndsNext
<1>5. CASE RootStep
  BY <1>5, RootStepNext
<1>6. CASE Shutdown
  BY <1>6, ShutdownNext
<1>7. CASE UNCHANGED vars
  BY <1>7, SettledNext DEF vars, pipes, counts
<1> QED BY <1>1, <1>2, <1>3, <1>4, <1>5, <1>6, <1>7 DEF Next

\* The invariant of the lineage holds whoever dies and whichever answer is late
\* (go-agent/internal/hotrestart: Supervisor.start, ChildSession, recoverLocked).
THEOREM LineageInvariance == Spec => []LineageInv
<1> QED BY LineageInit, LineageNext, PTL DEF Spec

\* Two processes that control, or hold a resource, are parent and child, and the
\* place of the parent forbids the one of the child.
LEMMA OneControllerHolds == LineageInv => OneController
<1> SUFFICES ASSUME LineageInv, NEW p \in Pids, NEW q \in Pids, p # q,
                    \/ Controls(p) /\ Controls(q)
                    \/ p \in streams /\ q \in streams
                    \/ p \in packets /\ q \in packets
             PROVE  FALSE
  BY DEF OneController
<1> DEFINE Clash(place, child) ==
      \/ {place, child} \subseteq Workers \ {"transferring", "aborted"}
      \/ {place, child} \subseteq ListenPlaces
      \/ {place, child} \subseteq PacketPlaces
<1>1. /\ p \in alive /\ q \in alive /\ Clash(pc[p], pc[q]) /\ Clash(pc[q], pc[p])
      /\ pc[p] \notin Retired /\ pc[q] \notin Retired
  BY HeldWhileAlive DEF Controls, Workers, Retired, ListenPlaces, PacketPlaces, Middle
<1>2. parentOf[p] = q \/ parentOf[q] = p
  BY <1>1 DEF LineageInv, LeadInv
<1>3. ASSUME NEW place, NEW child, place \notin Retired, Clash(place, child)
      PROVE  child \notin Allowed(place)
  BY <1>3, Places DEF Workers, ListenPlaces, PacketPlaces, Early, Middle, Children, Retired
<1>4. CASE parentOf[p] = q
  BY <1>1, <1>3, <1>4, Relatives
<1>5. CASE parentOf[q] = p
  BY <1>1, <1>3, <1>5, Relatives
<1> QED BY <1>2, <1>4, <1>5

\* At most one process controls the agent, and no two accept on the listeners or
\* read the packet sockets, however many launches and crashes there are
\* (resolveTransitionFailure, recoverParentLoss, hotRestartResourceProcess).
THEOREM ControllerSafety == Spec => []OneController
<1> QED BY LineageInvariance, OneControllerHolds, PTL

=============================================================================
