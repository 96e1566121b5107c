------------------------- MODULE MCAgentRevisionSync -------------------------
(* Small instances of AgentRevisionSync for TLC.  The run ranges over        *)
(* settings, which bound what the panel publishes and retries and which      *)
(* failures happen; no step that the fairness is about is bounded.           *)
EXTENDS AgentRevisionSync, TLC

CONSTANT Settings

VARIABLE setting

\* Two revisions and all optional calls, and any failure or two timeouts.
AnyFailure == [revisions |-> 2, cycles |-> MaxCycle, weight |-> 2,
               prunes |-> TRUE, arrives |-> TRUE]

\* Three revisions, and two calls that are lost for good.
LostCalls == [revisions |-> 3, cycles |-> 0, weight |-> 1,
              prunes |-> FALSE, arrives |-> FALSE]

SyncSettings == {AnyFailure, LostCalls}

\* The step stays within the setting.
Bounded ==
  /\ pointer'.desired <= setting.revisions
  /\ \A r \in Revisions : revision'[r].cycle <= setting.cycles
  /\ \A r \in Known : revision'[r].state = "none" => setting.prunes
  /\ late \ late' # {} => setting.arrives
  /\ faults' <= faults + setting.weight

MCInit == SyncInit /\ setting \in Settings

MCNext == SyncNext /\ Bounded /\ UNCHANGED setting

MCSpec == MCInit /\ [][MCNext]_<<allVars, setting>>

MCFairSpec == MCSpec /\ SyncFairness
=============================================================================
