------------------------- MODULE MCPluginLifecycle -------------------------
(* Small instances of PluginLifecycle for TLC. *)
EXTENDS PluginLifecycle

CONSTANTS a1, a2

\* One agent, which has applied a revision before, one instance, one package.
Base == [agents |-> {a1}, instances |-> {1}, packages |-> {1}, rpc |-> TRUE,
         retains |-> FALSE, kinds |-> {},
         faults |-> {"fail"}, first |-> [a \in Agents |-> 1], ops |-> 4, revs |-> 4]

\* Publishing and disabling race other mutations of the agent.
Fences == [Base EXCEPT !.kinds = {"publish", "disable", "unrelated"},
                       !.ops = 3]

\* Upgrades supersede what is pending, rollbacks follow, and what the agents
\* have applied may be refused.
Upgrades == [Base EXCEPT !.packages = {1, 2}, !.faults = {"fail", "refuse"},
                         !.kinds = {"publish", "upgrade", "rollback"}]

\* Two instances are configured, published and deleted.
Two == [Base EXCEPT !.instances = {1, 2}, !.revs = 3,
                    !.kinds = {"configure", "publish", "delete"}]

\* Two agents, one with a longer history, apply, fail and crash.
Apart == [Base EXCEPT !.agents = {a1, a2}, !.faults = {"fail", "crash"}, !.ops = 3, !.revs = 3,
                      !.first = [a \in Agents |-> IF a = Default THEN 1 ELSE 0],
                      !.kinds = {"enable", "configure"}]

\* A completion decided for one operation meets a plugin another has taken over.
Replaced == [Base EXCEPT !.packages = {1, 2}, !.kinds = {"publish", "upgrade", "unrelated"},
                         !.faults = {}]

\* The plugin is uninstalled and installed again while an operation is open.
Orphaned == [Base EXCEPT !.ops = 3,
               !.kinds = {"configure", "enable", "uninstall", "install", "delete", "unrelated"}]

\* ... with an instance that stays, and is found by the plugin installed again.
Retained == [Base EXCEPT !.ops = 4, !.retains = TRUE, !.faults = {},
               !.kinds = {"configure", "enable", "delete", "uninstall", "install"}]

\* A plugin without runtimes on the agents.
Trusting == [Base EXCEPT !.rpc = FALSE, !.ops = 3, !.faults = {"fail", "refuse"},
                         !.kinds = {"configure", "publish", "enable", "unrelated"}]

MCSettings == {Fences, Upgrades, Two, Apart, Replaced, Orphaned, Retained,
               Trusting}
=============================================================================
