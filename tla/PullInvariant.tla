--------------------------- MODULE PullInvariant ---------------------------
(***************************************************************************)
(* The inductive invariant behind CursorSafe and SweepSound.               *)
(*                                                                         *)
(* What makes a cursor safe is a fact about walks that have not ended yet: *)
(* while a job reads, every record its scope lists is still owed by the    *)
(* pages to come, or was archived by this walk or an earlier one, or is    *)
(* behind the cursor the walk started from, or became visible only after   *)
(* the walk began.  The last kind is what the overlap is for.              *)
(***************************************************************************)
EXTENDS Pull

\* Where the engine's promises hold: the overlap covers the visibility lag and
\* the length of a walk, no page shifts and no 403 arrives in the middle of a
\* walk, and no run both narrows its read by business date and sweeps.
Benign ==
    /\ Lag + MaxWalk <= Overlap
    /\ ~PageShift
    /\ ~MidWalkForbidden
    /\ \A opt \in Options :
          opt.mode = "ad-hoc" /\ opt.window => opt.sweep = "never"

\* An edit that is hidden is newer than what is visible, and not hidden for long.
FarInv ==
    /\ clock >= 1
    /\ \A r \in Rec :
          /\ far[r].upd <= clock
          /\ hid[r] <= clock
          /\ hid[r] # 0 => far[r].upd < hid[r] /\ clock <= hid[r] + Lag

\* Nothing in the archive is from the future.
ClockInv ==
    /\ \A r \in Rec : arch[r].upd <= clock
    /\ \A s \in Scope : cursor[s] <= clock

RunInv ==
    /\ run.phase # "idle" => run.opt \in Options
    /\ run.phase \in {"idle", "planning"} => \A s \in Scope : job[s].pc = "none"
    /\ run.phase = "reading" => \A s \in Scope : job[s].pc # "none"
    /\ run.phase = "sweeping" /\ ~run.cancelled => \A s \in Scope : job[s].pc = "done"

\* A job that is reading or has read: when it began, how long that took, what
\* pages it still has to read and how far it has moved the cursor.
JobInv(s) ==
    LET j == job[s] IN
    /\ j.pc \in Active \cup {"done"} => j.start <= clock
    /\ j.pc \in Active => j.high <= j.start + MaxWalk /\ j.high <= clock
    /\ j.pc \in {"reading", "attaching"} =>
          clock <= j.start + MaxWalk /\ j.ok /\ ~j.unavailable
    /\ j.pc \in Active /\ j.unavailable => j.high = 0
    /\ j.pc # "attaching" => j.batch = {}
    /\ j.pc = "attaching" /\ j.last => j.owed = {}
    /\ j.pc \in {"closing", "done"} /\ j.ok /\ ~j.unavailable => j.owed = {}
    /\ j.pc \in Active \cup {"done"} /\ j.ok =>
          cursor[s] <= j.start + MaxWalk /\ 1 <= j.start
    /\ /\ j.pc \in Active
       /\ run.opt.sweep # "never" \/ AdvancesCursor(run.opt.mode)
       => ~j.window
    /\ j.pc \in Active /\ j.full => j.since = 0
    /\ \A r \in j.owed : ScopeOf[r] = s /\ j.since <= far[r].upd
    /\ \A r \in j.owed : j.window => r \in InWindow
    /\ \A r \in j.batch : ScopeOf[r] = s

\* What a walk that can move the cursor has not lost sight of.
Followed(s, r) ==
    \/ r \in job[s].owed
    \/ far[r].upd + Lag >= job[s].start
    \/ far[r].upd + Overlap < cursor[s]
    \/ Mirrored(r)
    \/ r \in job[s].batch /\ LiveRow(arch[r]) /\ arch[r].upd = far[r].upd

WalkInv(s) ==
    /\ job[s].pc \in Active
    /\ job[s].ok /\ ~job[s].unavailable
    /\ AdvancesCursor(run.opt.mode)
    => \A r \in Rec : ScopeOf[r] = s /\ far[r].live => Followed(s, r)

\* What a full walk has not lost sight of.
Reseen(s, r) ==
    \/ r \in job[s].owed
    \/ far[r].upd + Lag >= job[s].start
    \/ LiveRow(arch[r]) /\ arch[r].seen >= job[s].start

ScanInv(s) ==
    /\ job[s].pc \in Active \cup {"done"}
    /\ job[s].ok /\ ~job[s].unavailable /\ job[s].full
    /\ run.opt.sweep # "never"
    => \A r \in Rec : ScopeOf[r] = s /\ far[r].live => Reseen(s, r)

Inv ==
    /\ TypeOK
    /\ FarInv
    /\ ClockInv
    /\ RunInv
    /\ \A s \in Scope : JobInv(s) /\ WalkInv(s) /\ ScanInv(s)
    /\ CursorSafe
=============================================================================
