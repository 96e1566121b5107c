------------------------- MODULE MCGenerationDrain -------------------------
(* Small instances of GenerationDrain for TLC.  A run ranges over settings,  *)
(* each of which bounds what callers, session owners and failures do in one  *)
(* behaviour.  No step that the fairness is about is bounded.                *)
EXTENDS GenerationDrain, TLC

CONSTANT Settings

VARIABLE setting

MCRevision == [g \in Generations |-> g]

Base == [generations |-> {1},         \* the ones that are activated
         sessions    |-> Sessions \ Progressive,
         calls       |-> {},          \* as Calls, Revoking, TimerKinds
         revoking    |-> {},          \* and MaxFailures
         timers      |-> {"timeout"},
         failures    |-> 0]

\* Three generations, which is one more than the limit, and a session.
Cutovers == [Base EXCEPT !.generations = {1, 2, 3}, !.revoking = {2}]

\* Two sessions of one key on two generations, one of them progressive, and
\* something fails.
Reuse == [Base EXCEPT !.generations = {1, 2}, !.sessions = Sessions,
                      !.revoking = {2}, !.timers = {"progressive"},
                      !.failures = 1]

SessionSettings == {Cutovers, Reuse}

\* A generation that is retired and closed, and something fails.
Shutdown == [Base EXCEPT !.sessions = Sessions, !.calls = {"retire", "close"},
                         !.failures = 1]

\* Close walks two generations while Activate closes revoked sessions and the
\* drain timer forces.
CloseAmidCutover == [Base EXCEPT !.generations = {1, 2}, !.revoking = {2},
                                 !.calls = {"close"}]

\* A progressive session under either drain timer, revoked with a failure.
Spares == [Reuse EXCEPT !.sessions = Progressive,
                        !.timers = {"timeout", "progressive"}]

ShutdownSettings == {Shutdown, CloseAmidCutover, Spares}

\* The step stays within the setting.
Bounded ==
  /\ \A g \in Generations :
       /\ state'[g] # "absent" => g \in setting.generations
       /\ revoked'[g] \ revoked[g] # {} => active' \in setting.revoking
       /\ timer'[g] \in setting.timers \union {"none"}
  /\ active # None /\ active' = None /\ ~closed' => "retire" \in setting.calls
  /\ closed' => "close" \in setting.calls
  /\ \A s \in Sessions : rec'[s].handle # "unused" => s \in setting.sessions
  /\ failures' <= setting.failures

MCInit == NewDrainController /\ setting \in Settings

MCNext == Next /\ Bounded /\ UNCHANGED setting

MCSpec == MCInit /\ [][MCNext]_<<vars, setting>>

MCFairSpec == MCSpec /\ Fairness
============================================================================
