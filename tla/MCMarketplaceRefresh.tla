------------------------ MODULE MCMarketplaceRefresh ------------------------
(* Small instances of MarketplaceRefresh for TLC. *)
EXTENDS MarketplaceRefresh

CONSTANTS s1, s2, d1, g1, g2, c1, c2

Base == [sources |-> {s1}, digests |-> {}, signers |-> {g1}, cleaners |-> {},
         ops |-> MaxOps, rev |-> 1, calls |-> {}]

\* Two refreshes of one source race an edit that rotates its key, the timeout
\* and the expiry of their leases.
Lease == [Base EXCEPT !.signers = {g1, g2}, !.rev = 2,
                      !.calls = {"edit", "abandon", "expire"}]

\* The source is deleted under its refreshes, and the process restarts; a
\* refresh is cleaned up after.
Startup == [Base EXCEPT !.digests = {d1}, !.calls = {"delete", "crash"}]
CleanStart == [Startup EXCEPT !.cleaners = {c1}, !.ops = 1]

\* Two sources have the same package, and one is edited.
Packages == [Base EXCEPT !.sources = {s1, s2}, !.digests = {d1}, !.rev = 2,
                         !.calls = {"edit"}]

\* Refreshes are overtaken by an edit and by timeouts, and cleaned up after.
Dirs == [Base EXCEPT !.cleaners = {c1}, !.rev = 2, !.calls = {"edit", "abandon"}]

\* A claim runs out while its cleaner is at it, and a lease while its worker is.
Snapshot == [Base EXCEPT !.cleaners = {c1}, !.calls = {"expire", "reclaim"}]

\* The source is deleted, and two cleaners clean up.
Deletion == [Base EXCEPT !.cleaners = {c1, c2}, !.calls = {"delete"}]

MCSettings == {Lease, Startup, CleanStart, Packages, Dirs, Snapshot, Deletion}
=============================================================================
