------------------------------- MODULE MCPull -------------------------------
(***************************************************************************)
(* Small instances of Pull for TLC.                                        *)
(***************************************************************************)
EXTENDS PullInvariant, TLC

CONSTANTS r1, r2, r3, s1, s2

MCScopeOf == [r \in Rec |-> s1]

\* Two bank accounts: r2 is a transaction of the second.
MCScopesOf == [r \in Rec |-> IF r = r2 THEN s2 ELSE s1]

Symmetry == Permutations(Rec)

\* The command lines: a flag that is not given has its default.
Plain ==
    [full |-> FALSE, since |-> 0, until |-> 0, window |-> FALSE,
     sweep |-> "never", dry |-> FALSE, bounded |-> TRUE]

\* fasync pull, the half-hourly line of the crontab.
HalfHourly == OptionsOf(Plain)
\* fasync pull --full --reconcile-if-due, the nightly one.
Nightly == OptionsOf([Plain EXCEPT !.full = TRUE, !.sweep = "if-due"])
\* fasync pull --full, --changed-since, and --from with a sweep.
Full    == OptionsOf([Plain EXCEPT !.full = TRUE])
Since   == OptionsOf([Plain EXCEPT !.since = 2])
Dated   == OptionsOf([Plain EXCEPT !.window = TRUE, !.sweep = "always"])
\* fasync pull --reconcile --dry-run, which sweeps nothing.
Preview == OptionsOf([Plain EXCEPT !.sweep = "always", !.dry = TRUE])
\* fasync reconcile --max-sweep-fraction 1.
Unbounded == ReconcileOptions([Plain EXCEPT !.bounded = FALSE])

FullOnly   == {Full}
Sweeps     == {Nightly, Unbounded}
Scheduled  == {HalfHourly, Nightly}
EveryRead  == {Preview, Nightly, Since}
DatedSweep == {Full, Dated}
=============================================================================
