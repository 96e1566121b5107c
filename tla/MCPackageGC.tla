---------------------------- MODULE MCPackageGC -----------------------------
(* Small instances of PackageGC for TLC. *)
EXTENDS PackageGC, TLC

CONSTANTS s1, s2, g1, g2, w1, w2

Base == [sources |-> {s1, s2}, signerOf |-> [s \in Sources |-> g1], metadata |-> {},
         workers |-> {w1, w2}, calls |-> {"resolve"}, faults |-> 0]

\* Sources with a key each, whose packages two workers collect.
Own == [Base EXCEPT !.signerOf = s1 :> g1 @@ s2 :> g2]

\* Two sources bound to one key, and collections of two workers that are cut off
\* and overtake each other ...
Shared == [Base EXCEPT !.faults = 2, !.calls = {"crash", "expire", "fail"}]

\* ... or those of one, while the package is installed.
InUse == [Base EXCEPT !.workers = {w1}, !.faults = 1,
                      !.calls = {"crash", "expire", "fail", "resolve"}]

\* One of the two takes metadata alone, and its packages on demand.
OnDemand == [Base EXCEPT !.metadata = {s2}, !.workers = {w1}, !.calls = {"expire", "resolve"},
                         !.faults = 1]

\* The package of one source, whatever interrupts its collection.
Interrupted == [Base EXCEPT !.sources = {s1}, !.faults = 3,
                            !.calls = {"crash", "expire", "fail", "resolve"}]

MCSettings == {Own, Shared, InUse, OnDemand, Interrupted}
=============================================================================
