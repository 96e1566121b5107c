----------------------------- MODULE DrainOwner -----------------------------
(***************************************************************************)
(* What the drain controller of the agent promises to the rest of it,      *)
(* without its locks, timers, retries and force loops.  A generation       *)
(* serves, is retired by its successor (or by RetireActive or Close), ends *)
(* its service, and its resource is then destroyed, after as many failed   *)
(* attempts as it takes, while no session is left on it.                   *)
(*                                                                         *)
(* GenerationDrain implements this specification and GenerationManager     *)
(* is built on it.                                                         *)
(***************************************************************************)
EXTENDS Naturals

CONSTANTS
  Generations,    \* ids of generations
  Revision,       \* the revision of each generation
  Sessions,       \* sessions, each registered at most once
  None            \* no generation

ASSUME OwnerRevisionAssumption == Revision \in [Generations -> Nat]
ASSUME OwnerNoneAssumption == None \notin Generations

VARIABLES
  active,         \* the generation that takes new traffic, or None
  phase,          \* per generation: where its life is
  session,        \* per session: unused, its generation, or over
  closed          \* the controller has been closed

ownerVars == <<active, phase, session, closed>>

Phases == {"absent", "serving", "retiring", "ending", "destroying", "gone"}

Unused == [life |-> "unused", gen |-> None]
Over(g) == [life |-> "over", gen |-> g]
On(g) == [life |-> "on", gen |-> g]

OwnerTypeOK ==
  /\ active \in Generations \union {None}
  /\ phase \in [Generations -> Phases]
  /\ session \in [Sessions -> [life : {"unused", "on", "over"},
                               gen : Generations \union {None}]]
  /\ closed \in BOOLEAN

OwnerInit ==
  /\ active = None
  /\ phase = [g \in Generations |-> "absent"]
  /\ session = [s \in Sessions |-> Unused]
  /\ closed = FALSE

SessionsOn(g) == {s \in Sessions : session[s] = On(g)}

\* Activate: the next generation, of a higher revision, takes over.
OwnerActivate(g) ==
  /\ ~closed
  /\ phase[g] = "absent"
  /\ active # None => Revision[g] > Revision[active]
  /\ active' = g
  /\ phase' = [h \in Generations |-> CASE h = g -> "serving"
                                       [] h = active -> "retiring"
                                       [] OTHER -> phase[h]]
  /\ UNCHANGED <<session, closed>>

\* RetireActive: the active generation is retired without a successor.
OwnerRetire ==
  /\ ~closed
  /\ active # None
  /\ phase' = [phase EXCEPT ![active] = "retiring"]
  /\ active' = None
  /\ UNCHANGED <<session, closed>>

Accepts(g) == ~closed /\ phase[g] \in {"serving", "retiring"}

\* RegisterSession, when it is not refused.
OwnerRegister(s, g) ==
  /\ session[s] = Unused
  /\ Accepts(g)
  /\ session' = [session EXCEPT ![s] = On(g)]
  /\ UNCHANGED <<active, phase, closed>>

\* A session leaves the registry, finished or forced.
OwnerFinish(s) ==
  /\ session[s].life = "on"
  /\ session' = [session EXCEPT ![s] = Over(@.gen)]
  /\ UNCHANGED <<active, phase, closed>>

\* A retired generation, or any one after Close, ends its service.
StopServing(g) ==
  /\ \/ phase[g] = "retiring"
     \/ phase[g] = "serving" /\ closed
  /\ phase' = [phase EXCEPT ![g] = "ending"]
  /\ UNCHANGED <<active, session, closed>>

BeginDestroy(g) ==
  /\ phase[g] = "ending"
  /\ SessionsOn(g) = {}
  /\ phase' = [phase EXCEPT ![g] = "destroying"]
  /\ UNCHANGED <<active, session, closed>>

EndDestroy(g, success) ==
  /\ phase[g] = "destroying"
  /\ phase' = [phase EXCEPT ![g] = IF success THEN "gone" ELSE "ending"]
  /\ UNCHANGED <<active, session, closed>>

OwnerClose ==
  /\ closed' = TRUE
  /\ active' = None
  /\ UNCHANGED <<phase, session>>

OwnerNext ==
  \/ \E g \in Generations : \/ OwnerActivate(g)
                            \/ StopServing(g)
                            \/ BeginDestroy(g)
                            \/ \E success \in BOOLEAN : EndDestroy(g, success)
  \/ \E s \in Sessions : OwnerFinish(s)
  \/ \E s \in Sessions, g \in Generations : OwnerRegister(s, g)
  \/ OwnerRetire
  \/ OwnerClose

OwnerSpec == OwnerInit /\ [][OwnerNext]_ownerVars
============================================================================
