------------------------- MODULE MCPluginLogOutbox -------------------------
(* Small instances of PluginLogOutbox for TLC. *)
EXTENDS PluginLogOutbox, TLC

CONSTANTS p1, p2, f1, f2, f3, b1, b2, b3

Base == [drafts |-> b1 :> <<f1>> @@ b2 :> <<f1, f2>> @@ b3 :> <<f2>>,
         home |-> [b \in Batches |-> p1],
         active |-> <<{f1, f2}>>, pending |-> 2, replay |-> 2,
         faults |-> 0, crashes |-> 0, losses |-> 0]

\* One report, two reports of different fences, and one again, with every kind
\* of failure.
Delivery == [Base EXCEPT !.pending = 3, !.replay = 3,
                         !.faults = 1, !.crashes = 1, !.losses = 1]

\* A revision removes a fence while its plugin logs and a write fails.
Removal == [Base EXCEPT !.active = <<{f1, f2}, {f2}>>, !.faults = 1,
                        !.drafts = b1 :> <<f1>> @@ b2 :> <<>> @@ b3 :> <<f1>>]

\* ... and the agent restarts in the middle of it.
Restart == [Base EXCEPT !.active = <<{f1, f2}, {f2}>>, !.faults = 1,
                        !.crashes = 1,
                        !.drafts = b1 :> <<f1>> @@ b2 :> <<>> @@ b3 :> <<>>]

\* A fence for every writer and room for one report.
Capacity == [Base EXCEPT !.drafts = b1 :> <<f1>> @@ b2 :> <<f2>> @@ b3 :> <<f3>>,
                         !.active = <<{f1, f2, f3}>>, !.pending = 1,
                         !.crashes = 1, !.losses = 1]

\* A process hands over to another: both log for one fence, send heartbeats and
\* acknowledge, and one of them dies, in the middle of a write or not.
Handover == [Base EXCEPT !.drafts = b1 :> <<f1>> @@ b2 :> <<f1>> @@ b3 :> <<>>,
                         !.home = b1 :> p1 @@ b2 :> p2 @@ b3 :> p2,
                         !.crashes = 1, !.losses = 1]

MCSettings == {Delivery, Removal, Restart, Capacity, Handover}
=============================================================================
