------------------------------ MODULE MCFanOut ------------------------------
(* Two bank accounts, one of them with a transaction.                       *)
EXTENDS FanOut, TLC

CONSTANTS p1, p2, c1

MCParentOf == c1 :> p1

\* fasync pull --full --reconcile, pull, reconcile --family of the scoped
\* family alone, and probe.
Nightly    == [families |-> Families, full |-> TRUE, sweep |-> TRUE, probe |-> FALSE]
HalfHourly == [Nightly EXCEPT !.full = FALSE, !.sweep = FALSE]
ScopedOnly == [Nightly EXCEPT !.families = {"children"}]
Ask        == [NoCommand EXCEPT !.families = Families, !.probe = TRUE]

Commandline == {Nightly, HalfHourly, ScopedOnly, Ask}
============================================================================
