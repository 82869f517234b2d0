---------------------------- MODULE PullSafety ----------------------------
(***************************************************************************)
(* No update is lost, no listed record is swept, no run calls itself ok    *)
(* over a gap, and pulls implement Mirror, for every value of the          *)
(* constants that is Benign.                                               *)
(***************************************************************************)
EXTENDS PullInvariant, PullProofs

\* The far end's steps, as the engine feels them: nothing of the engine moves, a
\* record only becomes newer, and what becomes visible was written at most Lag ago.
LEMMA EnvironmentStep ==
    ASSUME Benign, Inv, Environment
    PROVE  /\ UNCHANGED <<dbVars, run, job, held, faults>>
           /\ \A r \in Rec : /\ far[r].upd <= far'[r].upd
                             /\ far'[r].live => \/ far'[r] = far[r]
                                                \/ clock <= far'[r].upd + Lag
           /\ \/ clock' = clock
              \/ clock' = clock + 1 /\ WalksAreShort
           /\ FarInv'
<1> USE FarEndAssumption DEF FarEndAssumption, Inv, TypeOK, FarType, FarRecord, FarInv
<1>1. CASE Tick
  BY <1>1 DEF Tick, FarTick
<1>2. ASSUME NEW r \in Rec, Edit(r)
      PROVE  /\ UNCHANGED <<clock, far, dbVars, run, job, held, faults>>
             /\ FarInv'
  BY <1>2 DEF Edit, FarEdit
<1>3. ASSUME NEW r \in Rec, Displace(r)
      PROVE  UNCHANGED job
  BY <1>3 DEF Displace, Benign
<1>4. ASSUME NEW r \in Rec, Publish(r)
      PROVE  /\ UNCHANGED <<clock, dbVars, run, job, held, faults>>
             /\ \A q \in Rec : /\ far[q].upd <= far'[q].upd
                               /\ far'[q].live => \/ far'[q] = far[q]
                                                  \/ clock <= far'[q].upd + Lag
             /\ FarInv'
  BY <1>4, <1>3 DEF Publish, FarPublish
<1>5. ASSUME NEW r \in Rec, Delete(r)
      PROVE  /\ UNCHANGED <<clock, dbVars, run, job, held, faults>>
             /\ \A q \in Rec : /\ far[q].upd <= far'[q].upd
                               /\ far'[q].live => far'[q] = far[q]
             /\ FarInv'
  BY <1>5, <1>3 DEF Delete, FarDelete
<1> QED
  BY <1>1, <1>2, <1>4, <1>5 DEF Environment

LEMMA EnvironmentInv ==
    ASSUME Benign, Inv, Environment
    PROVE  Inv'
<1>1. /\ UNCHANGED <<dbVars, run, job, held, faults>>
      /\ \A r \in Rec : /\ far[r].upd <= far'[r].upd
                        /\ far'[r].live => \/ far'[r] = far[r]
                                           \/ clock <= far'[r].upd + Lag
      /\ \/ clock' = clock
         \/ clock' = clock + 1 /\ WalksAreShort
      /\ FarInv'
  BY EnvironmentStep
<1>2. TypeOK'
  BY EnvironmentTypeOK DEF Inv
<1>3. /\ clock \in Nat /\ clock' \in Nat
      /\ Lag \in Nat /\ Overlap \in Nat /\ MaxWalk \in Nat
      /\ \A r \in Rec : far[r].upd \in Nat /\ far'[r].upd \in Nat /\ arch[r].upd \in Nat
      /\ \A s \in Scope : /\ cursor[s] \in Nat /\ job[s].start \in Nat
                          /\ job[s].high \in Nat /\ job[s].since \in Int
                          /\ job[s].owed \subseteq Rec /\ job[s].batch \subseteq Rec
      /\ \A r \in Rec : ScopeOf[r] \in Scope
  BY <1>2, FarEndAssumption, PullAssumption
  DEF Inv, TypeOK, FarType, FarRecord, Row, Job, FarEndAssumption, PullAssumption
<1>4. ClockInv'
  BY <1>1, <1>3 DEF Inv, ClockInv, dbVars
<1>5. RunInv'
  BY <1>1 DEF Inv, RunInv
<1>6. CursorSafe'
  BY <1>1, <1>3 DEF Inv, ClockInv, CursorSafe, Mirrored, Benign, dbVars
<1>7. ASSUME NEW s \in Scope
      PROVE  JobInv(s)' /\ WalkInv(s)' /\ ScanInv(s)'
  <2>1. JobInv(s)'
    BY <1>1, <1>3 DEF Inv, JobInv, WalksAreShort, Active, dbVars
  <2>2. job[s].pc \in Active \cup {"done"} => job[s].start <= clock
    BY DEF Inv, JobInv
  <2>3. WalkInv(s)'
    BY <1>1, <1>3, <2>2 DEF Inv, WalkInv, Followed, Mirrored, dbVars
  <2>4. ScanInv(s)'
    BY <1>1, <1>3, <2>2 DEF Inv, ScanInv, Reseen, dbVars
  <2> QED
    BY <2>1, <2>3, <2>4
<1> QED
  BY <1>1, <1>2, <1>4, <1>5, <1>6, <1>7 DEF Inv

\* The steps of a run that touch neither its jobs nor the archive.
LEMMA QuietInv ==
    ASSUME Inv, TypeOK',
           UNCHANGED <<farVars, arch, queue, cursor, job>>,
           run'.opt = run.opt,
           RunInv'
    PROVE  Inv'
<1>1. FarInv' /\ ClockInv' /\ CursorSafe'
  BY DEF Inv, FarInv, ClockInv, CursorSafe, Mirrored, farVars
<1>2. ASSUME NEW s \in Scope
      PROVE  JobInv(s)' /\ WalkInv(s)' /\ ScanInv(s)'
  BY DEF Inv, JobInv, WalkInv, Followed, ScanInv, Reseen, Mirrored, farVars
<1> QED
  BY <1>1, <1>2 DEF Inv

\* The steps that leave no job behind, or only jobs that have not begun.
LEMMA NoJobInv ==
    ASSUME Inv, TypeOK',
           UNCHANGED <<farVars, arch, queue, cursor>>,
           \A s \in Scope : job'[s] = NoJob \/ job'[s] = [NoJob EXCEPT !.pc = "queued"],
           RunInv'
    PROVE  Inv'
<1>1. FarInv' /\ ClockInv' /\ CursorSafe'
  BY DEF Inv, FarInv, ClockInv, CursorSafe, Mirrored, farVars
<1>2. ASSUME NEW s \in Scope
      PROVE  JobInv(s)' /\ WalkInv(s)' /\ ScanInv(s)'
  BY DEF JobInv, WalkInv, ScanInv, NoJob, Active
<1> QED
  BY <1>1, <1>2 DEF Inv

\* A sweep takes no record the far end lists that its read could have listed.
LEMMA SweepStep ==
    ASSUME Inv, SweepApplied, NEW r \in Rec, LiveRow(arch[r]), ~LiveRow(arch'[r]),
           far[r].live
    PROVE  /\ far[r].upd + Lag >= job[ScopeOf[r]].start
           /\ job[ScopeOf[r]].pc = "done" /\ job[ScopeOf[r]].ok
<1> DEFINE s == ScopeOf[r]
<1>1. PICK t \in Scope :
        /\ EarliestSweepStart(job[t].start)
        /\ arch' = [q \in Rec |-> SweptRow(arch[q], job[t].start)]
  BY DEF SweepApplied
<1>2. s \in Scope
  BY PullAssumption DEF PullAssumption
<1>3. \A q \in Scope : job[q].pc = "done"
  BY DEF SweepApplied, Sweeping, Inv, RunInv
<1>4. job[s].ok /\ job[s].full /\ ~job[s].unavailable /\ run.opt.sweep # "never"
  BY <1>2, <1>3 DEF SweepApplied, Sweepable, ReadCoveredFamily, Results, SweepAsked
<1>5. job[s].owed = {} /\ 1 <= job[s].start
  BY <1>2, <1>3, <1>4 DEF Inv, JobInv
<1>6. /\ arch[r].seen \in Nat /\ job[s].start \in Nat /\ job[t].start \in Nat
  BY <1>1, <1>2 DEF Inv, TypeOK, Row, Job
<1>7. job[t].start <= job[s].start
  BY <1>1, <1>2, <1>3, <1>5, <1>6 DEF EarliestSweepStart, Results
<1>8. arch[r].seen < job[t].start
  BY <1>1 DEF SweptRow, Unseen
<1>9. Reseen(s, r)
  BY <1>2, <1>3, <1>4 DEF Inv, ScanInv
<1> QED
  BY <1>3, <1>4, <1>2, <1>5, <1>6, <1>7, <1>8, <1>9 DEF Reseen

LEMMA SweepAppliedInv ==
    ASSUME Benign, Inv, SweepApplied, TypeOK'
    PROVE  Inv'
<1>1. UNCHANGED <<farVars, queue, cursor, reconciled, runRow, job, held, faults>>
  BY DEF SweepApplied
<1>2. /\ run' = [run EXCEPT !.phase = "stamping"]
      /\ run.phase = "sweeping"
      /\ ~run.cancelled
  BY DEF SweepApplied, Sweeping
<1>3. run'.phase = "stamping" /\ run'.opt = run.opt
  BY <1>2 DEF Inv, TypeOK, Run
<1>4. \A s \in Scope : job[s].pc = "done"
  BY <1>2 DEF Inv, RunInv
<1>5. PICK start : arch' = [q \in Rec |-> SweptRow(arch[q], start)]
  BY DEF SweepApplied
<1>6. \A r \in Rec : /\ arch'[r].upd = arch[r].upd
                     /\ LiveRow(arch'[r]) => arch'[r] = arch[r]
                     /\ ~LiveRow(arch[r]) => arch'[r] = arch[r]
  BY <1>5 DEF SweptRow, LiveRow, Unseen, Inv, TypeOK, Row
<1>7. FarInv' /\ ClockInv' /\ RunInv'
  BY <1>1, <1>2, <1>3, <1>6 DEF Inv, FarInv, ClockInv, RunInv, farVars
<1>8. /\ Lag \in Nat /\ Overlap \in Nat /\ MaxWalk \in Nat
      /\ \A r \in Rec : far[r].upd \in Nat /\ ScopeOf[r] \in Scope
      /\ \A s \in Scope : cursor[s] \in Nat /\ job[s].start \in Nat
  BY FarEndAssumption, PullAssumption
  DEF Inv, TypeOK, FarType, FarRecord, Job, FarEndAssumption, PullAssumption
<1>9. CursorSafe'
  <2> SUFFICES ASSUME NEW r \in Rec,
                      far[r].live, far[r].upd + Overlap < cursor[ScopeOf[r]]
               PROVE  Mirrored(r)'
    BY <1>1 DEF CursorSafe, farVars
  <2>1. Mirrored(r)
    BY DEF Inv, CursorSafe
  <2>2. LiveRow(arch'[r])
    <3> SUFFICES ASSUME ~LiveRow(arch'[r])
                 PROVE  FALSE
      OBVIOUS
    <3>1. /\ far[r].upd + Lag >= job[ScopeOf[r]].start
          /\ job[ScopeOf[r]].pc = "done" /\ job[ScopeOf[r]].ok
      BY <2>1, SweepStep DEF Mirrored
    <3>2. cursor[ScopeOf[r]] <= job[ScopeOf[r]].start + MaxWalk
      BY <3>1, <1>8 DEF Inv, JobInv
    <3> QED
      BY <3>1, <3>2, <1>8 DEF Benign
  <2> QED
    BY <2>1, <2>2, <1>1, <1>6 DEF Mirrored, farVars
<1>10. ASSUME NEW s \in Scope
       PROVE  JobInv(s)' /\ WalkInv(s)' /\ ScanInv(s)'
  <2>1. JobInv(s)' /\ WalkInv(s)'
    BY <1>1, <1>3, <1>4 DEF Inv, JobInv, WalkInv, Active, farVars
  <2>2. ASSUME NEW r \in Rec, ScopeOf[r] = s, far[r].live, Reseen(s, r), LiveRow(arch[r])
        PROVE  Reseen(s, r)'
    <3>1. CASE LiveRow(arch'[r])
      BY <3>1, <2>2, <1>1, <1>6 DEF Reseen, farVars
    <3>2. CASE ~LiveRow(arch'[r])
      BY <3>2, <2>2, <1>1, SweepStep DEF Reseen, farVars
    <3> QED
      BY <3>1, <3>2
  <2>3. ASSUME NEW r \in Rec, ScopeOf[r] = s, far[r].live, Reseen(s, r), ~LiveRow(arch[r])
        PROVE  Reseen(s, r)'
    BY <2>3, <1>1, <1>6 DEF Reseen, farVars
  <2>4. ScanInv(s)'
    BY <1>1, <1>3, <2>2, <2>3 DEF Inv, ScanInv, farVars
  <2> QED
    BY <2>1, <2>4
<1> QED
  BY <1>7, <1>9, <1>10 DEF Inv

LEMMA RunLevelInv ==
    ASSUME Benign, Inv,
           \/ \E opt \in Options : StartRun(opt)
           \/ Plan \/ PlanFails \/ ReadingOver
           \/ NotSwept \/ SweepRefused \/ SweepFails \/ SweepApplied
           \/ Stamp \/ StampFails \/ FinishRun \/ FinishFails
           \/ Interruption
    PROVE  Inv'
<1>1. TypeOK'
  BY RunTypeOK DEF Inv
<1>2. run \in Run /\ NoRun \in Run /\ RunInv
  BY EmptyTypes DEF Inv, TypeOK
<1>3. ASSUME NEW opt \in Options, StartRun(opt)
      PROVE  Inv'
  <2>1. run'.phase = "planning" /\ run'.opt = opt
    BY <1>2, <1>3 DEF StartRun, Run
  <2>2. \A s \in Scope : job[s].pc = "none"
    BY <1>2, <1>3 DEF RunInv, StartRun
  <2>3. RunInv'
    BY <1>3, <2>1, <2>2 DEF StartRun, RunInv
  <2>4. FarInv' /\ ClockInv' /\ CursorSafe'
    BY <1>3 DEF StartRun, Inv, FarInv, ClockInv, CursorSafe, Mirrored, farVars
  <2>5. ASSUME NEW s \in Scope
        PROVE  JobInv(s)' /\ WalkInv(s)' /\ ScanInv(s)'
    BY <1>3, <2>2 DEF StartRun, Inv, JobInv, WalkInv, ScanInv, Active, farVars
  <2> QED
    BY <1>1, <2>3, <2>4, <2>5 DEF Inv
<1>4. CASE Plan
  <2>1. run'.phase = "reading" /\ run'.opt = run.opt
    BY <1>2, <1>4 DEF Plan, Run
  <2>2. \A s \in Scope : job'[s] = [NoJob EXCEPT !.pc = "queued"]
    BY <1>4 DEF Plan
  <2>3. \A s \in Scope : job'[s].pc = "queued"
    BY <2>2 DEF NoJob
  <2>4. RunInv'
    BY <1>2, <1>4, <2>1, <2>3 DEF Plan, RunInv
  <2> QED
    BY <1>1, <1>4, <2>2, <2>4, NoJobInv DEF Plan, dbVars
<1>5. ASSUME EndRun, UNCHANGED <<farVars, arch, queue, cursor>>
      PROVE  Inv'
  <2>1. run'.phase = "idle" /\ \A s \in Scope : job'[s] = NoJob
    BY <1>5 DEF EndRun, NoRun
  <2>2. RunInv'
    BY <2>1 DEF RunInv, NoJob
  <2> QED
    BY <1>1, <1>5, <2>1, <2>2, NoJobInv
<1>6. CASE PlanFails \/ FinishRun \/ FinishFails \/ Crash
  BY <1>5, <1>6 DEF PlanFails, FinishRun, FinishFails, Crash, dbVars
<1>7. CASE ReadingOver
  <2>1. run'.phase = "sweeping" /\ run'.opt = run.opt /\ run'.cancelled = run.cancelled
    BY <1>2, <1>7 DEF ReadingOver, Run
  <2>2. ~run.cancelled => \A s \in Scope : job[s].pc = "done"
    BY <1>2, <1>7 DEF ReadingOver, RunInv, Active, Inv, TypeOK, Job, JobSteps
  <2>3. RunInv'
    BY <1>2, <1>7, <2>1, <2>2 DEF ReadingOver, RunInv
  <2> QED
    BY <1>1, <1>7, <2>1, <2>3, QuietInv DEF ReadingOver, dbVars
<1>8. CASE NotSwept \/ SweepRefused \/ SweepFails \/ Stamp \/ StampFails
  <2>1. /\ run'.phase = "finishing" /\ run'.opt = run.opt
        /\ run.phase # "idle"
        /\ UNCHANGED <<farVars, arch, queue, cursor, job>>
    BY <1>2, <1>8
    DEF NotSwept, SweepRefused, SweepFails, Stamp, StampFails, Sweeping, Run, dbVars
  <2>2. RunInv'
    BY <1>2, <2>1 DEF RunInv
  <2> QED
    BY <1>1, <2>1, <2>2, QuietInv
<1>9. CASE SweepApplied
  BY <1>1, <1>9, SweepAppliedInv
<1>10. CASE Cancel \/ BudgetRunsOut
  <2>1. /\ run'.phase = run.phase /\ run'.opt = run.opt
        /\ ~run'.cancelled => ~run.cancelled
        /\ UNCHANGED <<farVars, arch, queue, cursor, job>>
    BY <1>2, <1>10 DEF Cancel, BudgetRunsOut, Run, dbVars
  <2>2. RunInv'
    BY <1>2, <2>1 DEF RunInv
  <2> QED
    BY <1>1, <2>1, <2>2, QuietInv
<1> QED
  BY <1>3, <1>4, <1>6, <1>7, <1>8, <1>9, <1>10 DEF Interruption

\* A job's step leaves the run where it is, and what is not of its scope alone.
LEMMA JobStepFrame ==
    ASSUME Inv, TypeOK', NEW s \in Scope, JobStep(s)
    PROVE  /\ UNCHANGED farVars
           /\ run'.opt = run.opt
           /\ RunInv'
           /\ \A t \in Scope \ {s} : job'[t] = job[t] /\ cursor'[t] = cursor[t]
           /\ \A r \in Rec : ScopeOf[r] # s => arch'[r] = arch[r] /\ queue'[r] = queue[r]
<1> USE DEF dbVars
<1>1. /\ run \in Run /\ job \in [Scope -> Job] /\ cursor \in [Scope -> Nat]
      /\ arch \in [Rec -> Row] /\ queue \in [Rec -> Nat] /\ RunInv
      /\ \A r \in job[s].batch : ScopeOf[r] = s
  BY DEF Inv, TypeOK, JobInv
<1>2. /\ UNCHANGED farVars
      /\ \A t \in Scope \ {s} : job'[t] = job[t] /\ cursor'[t] = cursor[t]
  BY <1>1 DEF JobStep, JobNotStarted, JobStart, ReadPage, AttachPage, PageFails,
              PageForbidden, Close, CloseFails
<1>3. /\ run'.opt = run.opt
      /\ run'.phase = run.phase
      /\ run'.cancelled = run.cancelled
  BY <1>1 DEF JobStep, JobNotStarted, JobStart, ReadPage, AttachPage, PageFails,
              PageForbidden, Close, CloseFails, Run
<1>4. ASSUME NEW r \in Rec, ScopeOf[r] # s
      PROVE  arch'[r] = arch[r] /\ queue'[r] = queue[r]
  <2>1. CASE ReadPage(s)
    BY <1>1, <1>4, <2>1 DEF ReadPage, Page, Listed, Lists
  <2>2. CASE AttachPage(s)
    BY <1>1, <1>4, <2>2 DEF AttachPage
  <2> QED
    BY <2>1, <2>2 DEF JobStep, JobNotStarted, JobStart, PageFails, PageForbidden,
                      Close, CloseFails
<1>5. job[s].pc \in Active \/ (job[s].pc = "queued" /\ run.phase = "reading")
  BY DEF JobStep, JobNotStarted, JobStart, ReadPage, AttachPage, PageFails,
         PageForbidden, Close, CloseFails, Dispatchable, Active
<1>6. job'[s].pc # "none"
  <2>1. CASE JobNotStarted(s)
    BY <1>1, <2>1 DEF JobNotStarted, NoJob
  <2>2. CASE JobStart(s)
    BY <1>1, <2>2 DEF JobStart, NoJob
  <2>3. CASE ReadPage(s)
    BY <1>1, <2>3 DEF ReadPage, Job
  <2>4. CASE AttachPage(s)
    BY <1>1, <2>4 DEF AttachPage, Job
  <2>5. CASE PageFails(s)
    BY <1>1, <2>5 DEF PageFails, Job
  <2>6. CASE PageForbidden(s)
    BY <1>1, <2>6 DEF PageForbidden, Job
  <2>7. CASE Close(s)
    BY <1>1, <2>7 DEF Close, Over, Job
  <2>8. CASE CloseFails(s)
    BY <1>1, <2>8 DEF CloseFails, Over, Job
  <2> QED
    BY <2>1, <2>2, <2>3, <2>4, <2>5, <2>6, <2>7, <2>8 DEF JobStep
<1>7. RunInv'
  BY <1>1, <1>2, <1>3, <1>5, <1>6 DEF RunInv, Active
<1> QED
  BY <1>2, <1>3, <1>4, <1>7

\* So it preserves the invariant if it preserves what is about its own scope.
LEMMA OwnScope ==
    ASSUME Inv, TypeOK', NEW s \in Scope, JobStep(s),
           \A r \in Rec : arch'[r].upd <= clock,
           cursor'[s] <= clock,
           \A r \in Rec : ScopeOf[r] = s /\ far[r].live
                          /\ far[r].upd + Overlap < cursor'[s] => Mirrored(r)',
           JobInv(s)', WalkInv(s)', ScanInv(s)'
    PROVE  Inv'
<1>1. /\ UNCHANGED farVars
      /\ run'.opt = run.opt
      /\ RunInv'
      /\ \A t \in Scope \ {s} : job'[t] = job[t] /\ cursor'[t] = cursor[t]
      /\ \A r \in Rec : ScopeOf[r] # s => arch'[r] = arch[r] /\ queue'[r] = queue[r]
  BY JobStepFrame
<1>2. \A r \in Rec : ScopeOf[r] \in Scope
  BY PullAssumption DEF PullAssumption
<1>3. FarInv' /\ ClockInv'
  BY <1>1 DEF Inv, FarInv, ClockInv, farVars
<1>4. CursorSafe'
  BY <1>1, <1>2 DEF Inv, CursorSafe, Mirrored, farVars
<1>5. ASSUME NEW t \in Scope \ {s}
      PROVE  JobInv(t)' /\ WalkInv(t)' /\ ScanInv(t)'
  BY <1>1 DEF Inv, JobInv, WalkInv, Followed, ScanInv, Reseen, Mirrored, farVars
<1> QED
  BY <1>1, <1>3, <1>4, <1>5 DEF Inv

\* What is known of a scope's job and of its records, with their types.
LEMMA ScopeFacts ==
    ASSUME Inv, NEW s \in Scope
    PROVE  /\ job \in [Scope -> Job] /\ job[s] \in Job
           /\ clock \in Nat /\ 1 <= clock
           /\ Lag \in Nat /\ Overlap \in Nat /\ MaxWalk \in Nat
           /\ cursor \in [Scope -> Nat] /\ cursor[s] <= clock
           /\ job[s].start \in Nat /\ job[s].high \in Nat /\ job[s].since \in Int
           /\ \A r \in Rec : /\ far[r].upd \in Nat /\ far[r].upd <= clock
                             /\ arch[r].upd \in Nat /\ arch[r].upd <= clock
                             /\ arch[r].seen \in Nat
           /\ arch \in [Rec -> Row]
           /\ JobInv(s) /\ WalkInv(s) /\ ScanInv(s) /\ CursorSafe
  BY FarEndAssumption, PullAssumption
  DEF Inv, TypeOK, FarType, FarRecord, FarInv, ClockInv, Row, Job,
      FarEndAssumption, PullAssumption

\* A step of a job that archives nothing and leaves the cursor alone.
LEMMA NothingArchived ==
    ASSUME Inv, TypeOK', NEW s \in Scope, JobStep(s),
           UNCHANGED <<arch, queue, cursor>>,
           JobInv(s)', WalkInv(s)', ScanInv(s)'
    PROVE  Inv'
<1>1. UNCHANGED farVars
  BY JobStepFrame
<1>2. \A r \in Rec : ScopeOf[r] = s /\ far[r].live
                     /\ far[r].upd + Overlap < cursor'[s] => Mirrored(r)'
  BY <1>1 DEF Inv, CursorSafe, Mirrored, farVars
<1> QED
  BY <1>2, ScopeFacts, OwnScope

LEMMA JobNotStartedInv ==
    ASSUME Inv, TypeOK', NEW s \in Scope, JobNotStarted(s)
    PROVE  Inv'
<1>1. JobStep(s) /\ UNCHANGED <<arch, queue, cursor, clock>>
  BY DEF JobStep, JobNotStarted, dbVars, farVars
<1>2. job'[s] = [NoJob EXCEPT !.pc = "done", !.err = TRUE]
  BY ScopeFacts DEF JobNotStarted
<1>3. /\ job'[s].pc = "done" /\ job'[s].start = 0 /\ ~job'[s].ok
      /\ job'[s].owed = {} /\ job'[s].batch = {}
  BY <1>2 DEF NoJob
<1>4. JobInv(s)' /\ WalkInv(s)' /\ ScanInv(s)'
  BY <1>1, <1>3, ScopeFacts DEF JobInv, WalkInv, ScanInv, Active
<1> QED
  BY <1>1, <1>4, NothingArchived

LEMMA JobStartInv ==
    ASSUME Benign, Inv, TypeOK', NEW s \in Scope, JobStart(s)
    PROVE  Inv'
<1> DEFINE ask == ListOptions(s)
<1>1. JobStep(s) /\ UNCHANGED <<arch, queue, cursor, farVars, clock, far, run>>
  BY DEF JobStep, JobStart, dbVars, farVars
<1>2. job'[s] = [NoJob EXCEPT !.pc = "reading", !.start = clock, !.ok = TRUE,
                              !.since = ask.since, !.window = ask.window,
                              !.full = ask.full,
                              !.owed = {r \in Rec : Lists(s, ask, r)}]
  BY ScopeFacts DEF JobStart
<1>3. /\ job'[s].pc = "reading" /\ job'[s].start = clock /\ job'[s].ok
      /\ job'[s].since = ask.since /\ job'[s].window = ask.window
      /\ job'[s].full = ask.full /\ job'[s].owed = {r \in Rec : Lists(s, ask, r)}
      /\ job'[s].high = 0 /\ job'[s].batch = {} /\ ~job'[s].unavailable
  <2> HIDE DEF ask
  <2> QED
    BY <1>2 DEF NoJob
<1>4. run.opt \in Options /\ Options \subseteq PullOptions
  BY PullAssumption DEF Inv, RunInv, JobStart, Dispatchable, PullAssumption
<1>5. run.opt.mode \in Modes /\ run.opt.window \in BOOLEAN /\ run.opt.since \in Nat
  BY <1>4 DEF PullOptions
<1>6. run.opt.sweep # "never" \/ AdvancesCursor(run.opt.mode) => ~ask.window
  BY <1>4, <1>5 DEF Benign, ListOptions, AdvancesCursor
<1>7. /\ ask.full => ask.since = 0
      /\ AdvancesCursor(run.opt.mode) =>
            ask.since = 0 \/ ask.since = cursor[s] - Overlap
  BY <1>5 DEF ListOptions, AdvancesCursor
<1>8. JobInv(s)'
  <2> HIDE DEF ask
  <2> QED
    BY <1>1, <1>3, <1>6, <1>7, ScopeFacts DEF JobInv, Lists, Active
<1>9. WalkInv(s)'
  <2> HIDE DEF ask
  <2>1. SUFFICES ASSUME AdvancesCursor(run.opt.mode),
                        NEW r \in Rec, ScopeOf[r] = s, far[r].live
                 PROVE  Followed(s, r)'
    BY <1>1 DEF WalkInv
  <2>2. CASE far[r].upd >= ask.since
    BY <2>1, <2>2, <1>3, <1>6 DEF Followed, Lists
  <2>3. CASE ~(far[r].upd >= ask.since)
    BY <2>1, <2>3, <1>1, <1>7, ScopeFacts DEF Followed
  <2> QED
    BY <2>2, <2>3
<1>10. ScanInv(s)'
  <2> HIDE DEF ask
  <2> QED
    BY <1>1, <1>3, <1>6, <1>7, ScopeFacts DEF ScanInv, Reseen, Lists
<1> QED
  BY <1>1, <1>8, <1>9, <1>10, NothingArchived

LEMMA ReadPageInv ==
    ASSUME Benign, Inv, TypeOK', NEW s \in Scope, ReadPage(s)
    PROVE  Inv'
<1>1. /\ JobStep(s) /\ job[s].pc = "reading"
      /\ UNCHANGED <<queue, cursor, farVars, clock, far, run>>
  BY DEF JobStep, ReadPage, farVars
<1>2. PICK recs \in SUBSET Rec, last \in BOOLEAN :
        /\ Page(s, recs, last)
        /\ arch' = [r \in Rec |-> IF r \in recs THEN Upsert(arch[r], far[r].upd, clock)
                                                ELSE arch[r]]
        /\ job' = [job EXCEPT ![s] =
              [@ EXCEPT !.pc = "attaching", !.batch = recs, !.last = last,
                        !.owed = Rest(s, recs),
                        !.fresh = Cardinality({r \in recs : MadeLive(arch[r])})]]
  BY DEF ReadPage
<1>3. /\ job'[s].pc = "attaching" /\ job'[s].batch = recs /\ job'[s].last = last
      /\ job'[s].owed = Rest(s, recs)
      /\ job'[s].start = job[s].start /\ job'[s].since = job[s].since
      /\ job'[s].window = job[s].window /\ job'[s].full = job[s].full
      /\ job'[s].high = job[s].high /\ job'[s].ok = job[s].ok
      /\ job'[s].unavailable = job[s].unavailable
  BY <1>2, ScopeFacts DEF Job
<1>4. \A r \in Rec : /\ r \notin recs => arch'[r] = arch[r]
                     /\ r \in recs => /\ LiveRow(arch'[r])
                                      /\ arch'[r].upd = far[r].upd
                                      /\ arch'[r].seen = clock
  BY <1>2, ScopeFacts DEF Upsert, LiveRow, Row
<1>5. /\ job[s].batch = {} /\ job[s].owed \subseteq Rec
      /\ job[s].start <= clock /\ job[s].ok /\ ~job[s].unavailable
  BY <1>1, ScopeFacts DEF JobInv, Active, Job
<1>6. /\ Rest(s, recs) \subseteq job[s].owed
      /\ last => Rest(s, recs) = {}
      /\ \A r \in recs : ScopeOf[r] = s
  BY <1>2 DEF Page, Rest, Listed, Lists
<1>7. \A r \in job[s].owed : far[r].live => r \in recs \/ r \in Rest(s, recs)
  BY <1>5, ScopeFacts DEF Rest, Listed, Lists, JobInv
<1>8. JobInv(s)'
  BY <1>1, <1>3, <1>6, ScopeFacts DEF JobInv, Active
<1>9. WalkInv(s)'
  <2> SUFFICES ASSUME AdvancesCursor(run.opt.mode),
                      NEW r \in Rec, ScopeOf[r] = s, far[r].live
               PROVE  Followed(s, r)'
    BY <1>1 DEF WalkInv
  <2>1. Followed(s, r)
    BY <1>1, <1>5, ScopeFacts DEF WalkInv, Active
  <2>2. CASE r \in recs
    BY <2>2, <1>1, <1>3, <1>4 DEF Followed
  <2>3. CASE r \notin recs
    BY <2>1, <2>3, <1>1, <1>3, <1>4, <1>5, <1>7 DEF Followed, Mirrored
  <2> QED
    BY <2>2, <2>3
<1>10. ScanInv(s)'
  <2> SUFFICES ASSUME job[s].full, run.opt.sweep # "never",
                      NEW r \in Rec, ScopeOf[r] = s, far[r].live
               PROVE  Reseen(s, r)'
    BY <1>1, <1>3 DEF ScanInv
  <2>1. Reseen(s, r)
    BY <1>1, <1>5, ScopeFacts DEF ScanInv, Active
  <2>2. CASE r \in recs
    BY <2>2, <1>3, <1>4, <1>5, ScopeFacts DEF Reseen
  <2>3. CASE r \notin recs
    BY <2>1, <2>3, <1>1, <1>3, <1>4, <1>7 DEF Reseen
  <2> QED
    BY <2>2, <2>3
<1>11. \A r \in Rec : far[r].live /\ ScopeOf[r] = s
                      /\ far[r].upd + Overlap < cursor'[s] => Mirrored(r)'
  BY <1>1, <1>4, ScopeFacts DEF CursorSafe, Mirrored
<1>12. \A r \in Rec : arch'[r].upd <= clock
  BY <1>4, ScopeFacts
<1> QED
  BY <1>1, <1>8, <1>9, <1>10, <1>11, <1>12, ScopeFacts, OwnScope

LEMMA AttachPageInv ==
    ASSUME Benign, Inv, TypeOK', NEW s \in Scope, AttachPage(s)
    PROVE  Inv'
<1>1. /\ JobStep(s) /\ job[s].pc = "attaching"
      /\ UNCHANGED <<arch, cursor, farVars, clock, far>>
      /\ run'.opt = run.opt
  BY JobStepFrame DEF JobStep, AttachPage, farVars
<1>2. PICK high \in {job[s].high} \cup {arch[r].upd : r \in job[s].batch} :
        /\ high >= job[s].high
        /\ job' = [job EXCEPT ![s] =
              [@ EXCEPT !.pc = IF run.spent \/ job[s].last THEN "closing" ELSE "reading",
                        !.ok = ~run.spent, !.err = run.spent, !.high = high,
                        !.batch = {}, !.fresh = 0, !.last = FALSE]]
  BY DEF AttachPage
<1>3. /\ job'[s].pc = IF run.spent \/ job[s].last THEN "closing" ELSE "reading"
      /\ job'[s].ok = ~run.spent /\ job'[s].high = high /\ job'[s].batch = {}
      /\ job'[s].owed = job[s].owed
      /\ job'[s].start = job[s].start /\ job'[s].since = job[s].since
      /\ job'[s].window = job[s].window /\ job'[s].full = job[s].full
      /\ job'[s].unavailable = job[s].unavailable
  BY <1>2, ScopeFacts DEF Job
<1>4. \A r \in Rec : /\ r \in job[s].batch => queue'[r] = arch[r].upd
                     /\ r \notin job[s].batch => queue'[r] = queue[r]
  BY DEF AttachPage, Inv, TypeOK
<1>5. /\ job[s].batch \subseteq Rec /\ job[s].ok /\ ~job[s].unavailable
      /\ clock <= job[s].start + MaxWalk
      /\ job[s].last => job[s].owed = {}
  BY <1>1, ScopeFacts DEF JobInv, Active, Job
<1>6. high <= clock /\ high <= job[s].start + MaxWalk
  <2>1. job[s].high <= clock /\ job[s].high <= job[s].start + MaxWalk
    BY <1>1, ScopeFacts DEF JobInv, Active
  <2>2. \A r \in job[s].batch : arch[r].upd \in Nat /\ arch[r].upd <= clock
    BY <1>5, ScopeFacts
  <2> QED
    BY <1>5, <2>1, <2>2, ScopeFacts
<1>7. job'[s].pc \in {"closing", "reading"}
  BY <1>3
<1>8. JobInv(s)'
  <2>1. JobInv(s) /\ job[s].pc \in Active
    BY <1>1, ScopeFacts DEF Active
  <2>2. job'[s].pc = "closing" /\ job'[s].ok => job[s].owed = {}
    BY <1>3, <1>5, <1>7
  <2>3. job'[s].pc = "reading" => job'[s].ok
    BY <1>3
  <2> QED
    BY <1>1, <1>3, <1>5, <1>6, <1>7, <2>1, <2>2, <2>3 DEF JobInv, Active
<1>9. WalkInv(s)'
  <2> SUFFICES ASSUME AdvancesCursor(run.opt.mode),
                      NEW r \in Rec, ScopeOf[r] = s, far[r].live
               PROVE  Followed(s, r)'
    BY <1>1 DEF WalkInv
  <2>1. Followed(s, r)
    BY <1>1, <1>5, ScopeFacts DEF WalkInv, Active
  <2> QED
    BY <2>1, <1>1, <1>3, <1>4 DEF Followed, Mirrored
<1>10. ScanInv(s)'
  BY <1>1, <1>3, <1>5, <1>7, ScopeFacts DEF ScanInv, Reseen, Active
<1>11. \A r \in Rec : far[r].live /\ ScopeOf[r] = s
                      /\ far[r].upd + Overlap < cursor'[s] => Mirrored(r)'
  BY <1>1, <1>4, ScopeFacts DEF CursorSafe, Mirrored
<1> QED
  BY <1>1, <1>8, <1>9, <1>10, <1>11, ScopeFacts, OwnScope

LEMMA PageFailsInv ==
    ASSUME Inv, TypeOK', NEW s \in Scope, PageFails(s)
    PROVE  Inv'
<1>1. JobStep(s) /\ job[s].pc \in {"reading", "attaching"}
  BY DEF JobStep, PageFails
<1>2. UNCHANGED <<arch, queue, cursor, clock, far, run>>
  BY DEF PageFails, dbVars, farVars
<1>3. /\ job'[s].pc = "closing" /\ ~job'[s].ok /\ job'[s].batch = {}
      /\ job'[s].owed = job[s].owed /\ job'[s].high = job[s].high
      /\ job'[s].start = job[s].start /\ job'[s].since = job[s].since
      /\ job'[s].window = job[s].window /\ job'[s].full = job[s].full
      /\ job'[s].unavailable = job[s].unavailable
  BY ScopeFacts DEF PageFails, Job
<1>4. JobInv(s)' /\ WalkInv(s)' /\ ScanInv(s)'
  BY <1>1, <1>2, <1>3, ScopeFacts DEF JobInv, WalkInv, ScanInv, Active
<1> QED
  BY <1>1, <1>2, <1>4, NothingArchived

LEMMA PageForbiddenInv ==
    ASSUME Benign, Inv, TypeOK', NEW s \in Scope, PageForbidden(s)
    PROVE  Inv'
<1>1. JobStep(s) /\ job[s].pc = "reading" /\ job[s].high = 0
  BY DEF JobStep, PageForbidden, Benign
<1>2. UNCHANGED <<arch, queue, cursor, clock, far, run>>
  BY DEF PageForbidden, dbVars, farVars
<1>3. /\ job'[s].pc = "closing" /\ job'[s].ok /\ job'[s].batch = job[s].batch
      /\ job'[s].owed = job[s].owed /\ job'[s].high = job[s].high
      /\ job'[s].start = job[s].start /\ job'[s].since = job[s].since
      /\ job'[s].window = job[s].window /\ job'[s].full = job[s].full
      /\ job'[s].unavailable
  BY ScopeFacts DEF PageForbidden, Job
<1>4. JobInv(s)' /\ WalkInv(s)' /\ ScanInv(s)'
  BY <1>1, <1>2, <1>3, ScopeFacts DEF JobInv, WalkInv, ScanInv, Active
<1> QED
  BY <1>1, <1>2, <1>4, NothingArchived

\* What closing a job leaves of it keeps the invariant, whether or not the cursor
\* moves.
LEMMA OverInv ==
    ASSUME Inv, NEW s \in Scope, job[s].pc = "closing",
           UNCHANGED <<arch, queue, clock, far, run>>,
           \E err \in BOOLEAN : job'[s] = [Over(job[s]) EXCEPT !.err = err],
           cursor'[s] = cursor[s] \/ cursor'[s] = job[s].high
    PROVE  JobInv(s)' /\ WalkInv(s)' /\ ScanInv(s)'
<1>1. /\ job'[s].pc = "done" /\ job'[s].owed = {} /\ job'[s].batch = job[s].batch
      /\ job'[s].start = job[s].start /\ job'[s].full = job[s].full
      /\ job'[s].ok = job[s].ok /\ job'[s].unavailable = job[s].unavailable
  BY ScopeFacts DEF Over, Job
<1>2. JobInv(s)'
  BY <1>1, ScopeFacts DEF JobInv, Active
<1>3. ScanInv(s)'
  BY <1>1, ScopeFacts DEF ScanInv, Reseen, JobInv, Active
<1>4. WalkInv(s)'
  BY <1>1 DEF WalkInv, Active
<1> QED
  BY <1>2, <1>3, <1>4

\* The cursor moves to the high water mark only past records that are mirrored.
LEMMA CloseInv ==
    ASSUME Benign, Inv, TypeOK', NEW s \in Scope, Close(s)
    PROVE  Inv'
<1>1. JobStep(s) /\ job[s].pc = "closing"
  BY DEF JobStep, Close
<1>2. UNCHANGED <<arch, queue, clock, far, run>>
  BY DEF Close, farVars
<1>3. \E err \in BOOLEAN : job'[s] = [Over(job[s]) EXCEPT !.err = err]
  <2>1. job'[s] = Over(job[s]) /\ job[s].err \in BOOLEAN
    BY ScopeFacts DEF Close, Job
  <2>2. Over(job[s]) = [Over(job[s]) EXCEPT !.err = job[s].err]
    BY ScopeFacts DEF Over, Job
  <2> QED
    BY <2>1, <2>2
<1>4. CASE ~SavesCursor(s)
  <2>1. UNCHANGED cursor
    BY <1>4 DEF Close
  <2> QED
    BY <1>1, <1>2, <1>3, <2>1, OverInv, NothingArchived
<1>5. CASE SavesCursor(s)
  <2>1. cursor'[s] = job[s].high
    BY <1>5, ScopeFacts DEF Close
  <2>2. job[s].ok /\ job[s].high # 0 /\ AdvancesCursor(run.opt.mode)
    BY <1>5 DEF SavesCursor
  <2>3. /\ ~job[s].unavailable /\ job[s].owed = {} /\ job[s].batch = {}
        /\ job[s].high <= clock /\ job[s].high <= job[s].start + MaxWalk
    BY <1>1, <2>2, ScopeFacts DEF JobInv, Active
  <2>4. ASSUME NEW r \in Rec, ScopeOf[r] = s, far[r].live,
               far[r].upd + Overlap < job[s].high
        PROVE  Mirrored(r)
    <3>1. Followed(s, r)
      BY <1>1, <2>2, <2>3, <2>4, ScopeFacts DEF WalkInv, Active
    <3>2. ~(far[r].upd + Lag >= job[s].start)
      BY <2>3, <2>4, ScopeFacts DEF Benign
    <3> QED
      BY <3>1, <3>2, <2>3, <2>4, ScopeFacts DEF Followed, CursorSafe
  <2>5. \A r \in Rec : ScopeOf[r] = s /\ far[r].live
                       /\ far[r].upd + Overlap < cursor'[s] => Mirrored(r)'
    BY <1>2, <2>1, <2>4 DEF Mirrored
  <2> QED
    BY <1>1, <1>2, <1>3, <2>1, <2>3, <2>5, OverInv, ScopeFacts, OwnScope
<1> QED
  BY <1>4, <1>5

LEMMA CloseFailsInv ==
    ASSUME Inv, TypeOK', NEW s \in Scope, CloseFails(s)
    PROVE  Inv'
<1>1. JobStep(s) /\ job[s].pc = "closing"
  BY DEF JobStep, CloseFails
<1>2. UNCHANGED <<arch, queue, cursor, clock, far, run>>
  BY DEF CloseFails, dbVars, farVars
<1>3. job'[s] = [Over(job[s]) EXCEPT !.err = TRUE]
  BY ScopeFacts DEF CloseFails
<1> QED
  BY <1>1, <1>2, <1>3, OverInv, NothingArchived
LEMMA JobStepInv ==
    ASSUME Benign, Inv, NEW s \in Scope, JobStep(s)
    PROVE  Inv'
<1>1. TypeOK'
  BY JobStepTypeOK DEF Inv
<1> QED
  BY <1>1, JobNotStartedInv, JobStartInv, ReadPageInv, AttachPageInv, PageFailsInv,
     PageForbiddenInv, CloseInv, CloseFailsInv DEF JobStep

LEMMA InitInv ==
    ASSUME Init
    PROVE  Inv
<1>1. TypeOK
  BY InitTypeOK
<1>2. FarInv /\ ClockInv /\ CursorSafe
  BY FarEndAssumption, PullAssumption
  DEF Init, FarInit, FarInv, ClockInv, CursorSafe, NoRow, FarEndAssumption, PullAssumption
<1>3. RunInv
  BY DEF Init, RunInv, NoRun, NoJob
<1>4. ASSUME NEW s \in Scope
      PROVE  JobInv(s) /\ WalkInv(s) /\ ScanInv(s)
  BY DEF Init, NoJob, JobInv, WalkInv, ScanInv, Active
<1> QED
  BY <1>1, <1>2, <1>3, <1>4 DEF Inv

LEMMA StepInv ==
    ASSUME Benign, Inv, [Next]_vars
    PROVE  Inv'
<1>1. CASE UNCHANGED vars
  <2>1. TypeOK'
    BY <1>1 DEF Inv, TypeOK, FarType, vars, farVars, dbVars
  <2>2. RunInv'
    BY <1>1 DEF Inv, RunInv, vars
  <2> QED
    BY <1>1, <2>1, <2>2, QuietInv DEF vars, dbVars
<1>2. CASE Environment
  BY <1>2, EnvironmentInv
<1>3. CASE \/ \E opt \in Options : StartRun(opt)
           \/ RunStep
           \/ Interruption
  BY <1>3, RunLevelInv, JobStepInv DEF RunStep
<1> QED
  BY <1>1, <1>2, <1>3 DEF Next

\* Inv is inductive, so it holds in every reachable state.
THEOREM Invariance == ASSUME Benign PROVE Spec => []Inv
<1>1. Init => Inv
  BY InitInv
<1>2. Inv /\ [Next]_vars => Inv'
  BY StepInv
<1> QED
  BY <1>1, <1>2, PTL DEF Spec

\* No lost update, for any number of records, scopes, workers and runs: if the
\* overlap covers the visibility lag and the length of a walk, whatever the API
\* lists that is older than a scope's cursor less the overlap is archived with its
\* last body and has its attachments queued (listOptions, archivePage, SaveCursor).
THEOREM CursorCorrect == ASSUME Benign PROVE Spec => []CursorSafe
<1>1. Inv => CursorSafe
  BY DEF Inv
<1> QED
  BY <1>1, Invariance, PTL

\* No sweep archives away a record the API lists, unless the record changed so
\* late that the read of its scope could not have listed it (readCoveredFamily,
\* earliestSweepStart, SoftDeleteUnseen).
THEOREM SweepCorrect == ASSUME Benign PROVE Spec => SweepSound
<1>1. ASSUME Inv, [Next]_vars
      PROVE  [\A r \in Swept : far[r].live => far[r].upd + Lag >= job[ScopeOf[r]].start]_vars
  <2>1. CASE SweepApplied
    BY <1>1, <2>1, SweepStep DEF Swept
  <2>2. CASE ~SweepApplied
    BY <1>1, <2>2, OnlySweepsDelete DEF Inv
  <2> QED
    BY <2>1, <2>2
<1> QED
  BY <1>1, Invariance, PTL DEF Spec, SweepSound
----------------------------------------------------------------------------
(* A run that calls itself ok.                                             *)

\* A job that ended without an error has completed its walk, and then what its
\* scope lists is mirrored, but for what changed too late for that walk.
Kept(s) ==
    /\ job[s].pc \in {"reading", "attaching", "closing", "done"} => job[s].ok \/ job[s].err
    /\ /\ job[s].pc = "done"
       /\ job[s].ok /\ ~job[s].unavailable
       /\ AdvancesCursor(run.opt.mode)
       => \A r \in Rec : ScopeOf[r] = s /\ far[r].live =>
             far[r].upd + Lag >= job[s].start \/ Mirrored(r)

\* Once the reads are over, and were not cancelled, every job has ended.
AllEnded ==
    run.phase \in {"sweeping", "stamping", "finishing"} /\ ~run.cancelled =>
        \A s \in Scope : job[s].pc = "done"

KeptInv == AllEnded /\ \A s \in Scope : Kept(s)

\* The steps that leave what a job read as it is.
LEMMA KeptQuiet ==
    ASSUME KeptInv, NEW s \in Scope,
           UNCHANGED <<far, arch, queue>>, job'[s] = job[s], run'.opt = run.opt
    PROVE  Kept(s)'
  BY DEF KeptInv, Kept, Mirrored

LEMMA KeptEnvironment ==
    ASSUME Benign, Inv, KeptInv, Environment
    PROVE  KeptInv'
<1>1. /\ UNCHANGED <<dbVars, run, job>>
      /\ \A r \in Rec : /\ far[r].upd <= far'[r].upd
                        /\ far'[r].live => far'[r] = far[r] \/ clock <= far'[r].upd + Lag
  BY EnvironmentStep
<1>2. TypeOK'
  BY EnvironmentTypeOK DEF Inv
<1>3. \A r \in Rec : far'[r].upd \in Nat
  BY <1>2 DEF TypeOK, FarType, FarRecord
<1>4. ASSUME NEW s \in Scope
      PROVE  Kept(s)'
  <2>1. job[s].pc = "done" => job[s].start <= clock
    BY ScopeFacts DEF JobInv
  <2> QED
    BY <1>1, <1>3, <2>1, ScopeFacts DEF KeptInv, Kept, Mirrored, dbVars
<1> QED
  BY <1>1, <1>4 DEF KeptInv, AllEnded

LEMMA KeptRunLevel ==
    ASSUME Benign, Inv, KeptInv,
           \/ \E opt \in Options : StartRun(opt)
           \/ Plan \/ PlanFails \/ ReadingOver
           \/ NotSwept \/ SweepRefused \/ SweepFails \/ SweepApplied
           \/ Stamp \/ StampFails \/ FinishRun \/ FinishFails
           \/ Interruption
    PROVE  KeptInv'
<1>1. run \in Run /\ job \in [Scope -> Job] /\ RunInv
  BY DEF Inv, TypeOK
<1>2. ASSUME NEW opt \in Options, StartRun(opt)
      PROVE  KeptInv'
  <2>1. run'.phase = "planning"
    BY <1>2, EmptyTypes DEF StartRun, Run
  <2>2. \A s \in Scope : job'[s].pc = "none"
    BY <1>1, <1>2 DEF StartRun, RunInv
  <2> QED
    BY <2>1, <2>2 DEF KeptInv, AllEnded, Kept
<1>3. CASE Plan
  <2>1. run'.phase = "reading" /\ \A s \in Scope : job'[s].pc = "queued"
    BY <1>1, <1>3 DEF Plan, Run, NoJob
  <2> QED
    BY <2>1 DEF KeptInv, AllEnded, Kept
<1>4. CASE PlanFails \/ FinishRun \/ FinishFails \/ Crash
  <2>1. run'.phase = "idle" /\ \A s \in Scope : job'[s].pc = "none"
    BY <1>4 DEF PlanFails, FinishRun, FinishFails, Crash, EndRun, NoRun, NoJob
  <2> QED
    BY <2>1 DEF KeptInv, AllEnded, Kept
<1>5. CASE ReadingOver
  <2>1. /\ UNCHANGED <<far, arch, queue, job>>
        /\ run'.opt = run.opt /\ run'.cancelled = run.cancelled
    BY <1>1, <1>5 DEF ReadingOver, Run, farVars, dbVars
  <2>2. ~run.cancelled => \A s \in Scope : job[s].pc = "done"
    BY <1>1, <1>5 DEF ReadingOver, RunInv, Active, Job, JobSteps
  <2>3. AllEnded'
    BY <2>1, <2>2 DEF AllEnded
  <2> QED
    BY <2>1, <2>3, KeptQuiet DEF KeptInv
<1>6. CASE NotSwept \/ SweepRefused \/ SweepFails \/ Stamp \/ StampFails \/ Cancel
           \/ BudgetRunsOut
  <2>1. /\ UNCHANGED <<far, arch, queue, job>>
        /\ run'.opt = run.opt /\ (~run'.cancelled => ~run.cancelled)
        /\ run'.phase = run.phase \/ run.phase \in {"sweeping", "stamping"}
    BY <1>1, <1>6
    DEF NotSwept, SweepRefused, SweepFails, Stamp, StampFails, Cancel, BudgetRunsOut,
        Sweeping, Run, farVars, dbVars
  <2>2. AllEnded'
    BY <2>1 DEF KeptInv, AllEnded
  <2> QED
    BY <2>1, <2>2, KeptQuiet DEF KeptInv
<1>7. CASE SweepApplied
  <2>1. /\ UNCHANGED <<far, queue, job>>
        /\ run.phase = "sweeping" /\ run'.opt = run.opt /\ run'.cancelled = run.cancelled
    BY <1>1, <1>7 DEF SweepApplied, Sweeping, Run, farVars
  <2>2. AllEnded'
    BY <2>1 DEF KeptInv, AllEnded
  <2>3. PICK start : arch' = [q \in Rec |-> SweptRow(arch[q], start)]
    BY <1>7 DEF SweepApplied
  <2>4. \A r \in Rec : arch'[r].upd = arch[r].upd
    BY <2>3 DEF SweptRow, Inv, TypeOK, Row
  <2>5. ASSUME NEW s \in Scope
        PROVE  Kept(s)'
    <3> SUFFICES ASSUME job[s].pc = "done", job[s].ok, ~job[s].unavailable,
                        AdvancesCursor(run.opt.mode),
                        NEW r \in Rec, ScopeOf[r] = s, far[r].live
                 PROVE  far[r].upd + Lag >= job[s].start \/ Mirrored(r)'
      BY <2>1 DEF Kept, KeptInv
    <3>1. far[r].upd + Lag >= job[s].start \/ Mirrored(r)
      BY DEF KeptInv, Kept
    <3>2. CASE LiveRow(arch'[r])
      BY <3>1, <3>2, <2>1, <2>4 DEF Mirrored
    <3>3. CASE ~LiveRow(arch'[r])
      BY <3>1, <3>3, <1>7, SweepStep DEF Mirrored
    <3> QED
      BY <3>2, <3>3
  <2> QED
    BY <2>2, <2>5 DEF KeptInv
<1> QED
  BY <1>2, <1>3, <1>4, <1>5, <1>6, <1>7 DEF Interruption

\* A walk that ends has followed what its scope lists to its end.
LEMMA KeptOver ==
    ASSUME Inv, NEW s \in Scope, job[s].pc = "closing", job[s].ok, ~job[s].unavailable,
           AdvancesCursor(run.opt.mode),
           NEW r \in Rec, ScopeOf[r] = s, far[r].live
    PROVE  far[r].upd + Lag >= job[s].start \/ Mirrored(r)
<1>1. job[s].owed = {} /\ job[s].batch = {}
  BY ScopeFacts DEF JobInv
<1>2. Followed(s, r)
  BY ScopeFacts DEF WalkInv, Active
<1> QED
  BY <1>1, <1>2, ScopeFacts DEF Followed, CursorSafe

LEMMA KeptJobStep ==
    ASSUME Benign, Inv, KeptInv, NEW s \in Scope, JobStep(s)
    PROVE  KeptInv'
<1>1. TypeOK'
  BY JobStepTypeOK DEF Inv
<1>2. /\ UNCHANGED farVars /\ run'.opt = run.opt
      /\ \A t \in Scope \ {s} : job'[t] = job[t]
      /\ \A r \in Rec : ScopeOf[r] # s => arch'[r] = arch[r] /\ queue'[r] = queue[r]
  BY <1>1, JobStepFrame
<1>3. \A t \in Scope \ {s} : Kept(t)'
  BY <1>2 DEF KeptInv, Kept, Mirrored, farVars
<1>4. run'.phase = run.phase /\ run'.cancelled = run.cancelled /\ run \in Run
  BY DEF Inv, TypeOK, Run, JobStep, JobNotStarted, JobStart, ReadPage, AttachPage,
         PageFails, PageForbidden, Close, CloseFails
<1>5. /\ job \in [Scope -> Job] /\ job[s] \in Job /\ run.spent \in BOOLEAN
      /\ JobInv(s)
  BY <1>4, ScopeFacts DEF Run
<1>6. AllEnded'
  <2>1. job[s].pc # "done"
    BY DEF JobStep, JobNotStarted, JobStart, ReadPage, AttachPage, PageFails,
           PageForbidden, Close, CloseFails, Dispatchable
  <2> QED
    BY <1>4, <2>1 DEF KeptInv, AllEnded
<1>7. Kept(s)'
  <2>1. CASE JobNotStarted(s)
    <3>1. job'[s].pc = "done" /\ ~job'[s].ok /\ job'[s].err
      BY <1>5, <2>1 DEF JobNotStarted, NoJob
    <3> QED
      BY <3>1 DEF Kept
  <2>2. CASE JobStart(s)
    <3>1. job'[s].pc = "reading" /\ job'[s].ok
      BY <1>5, <2>2 DEF JobStart, NoJob
    <3> QED
      BY <3>1 DEF Kept
  <2>3. CASE ReadPage(s)
    <3>1. job'[s].pc = "attaching" /\ job'[s].ok = job[s].ok /\ job[s].ok
      BY <1>5, <2>3 DEF ReadPage, Job, JobInv
    <3> QED
      BY <3>1 DEF Kept
  <2>4. CASE AttachPage(s)
    <3>1. /\ job'[s].pc \in {"closing", "reading"}
          /\ job'[s].ok = ~run.spent /\ job'[s].err = run.spent
      BY <1>5, <2>4 DEF AttachPage, Job
    <3> QED
      BY <1>5, <3>1 DEF Kept
  <2>5. CASE PageFails(s)
    <3>1. job'[s].pc = "closing" /\ job'[s].err
      BY <1>5, <2>5 DEF PageFails, Job
    <3> QED
      BY <3>1 DEF Kept
  <2>6. CASE PageForbidden(s)
    <3>1. job'[s].pc = "closing" /\ job'[s].ok
      BY <1>5, <2>6 DEF PageForbidden, Job
    <3> QED
      BY <3>1 DEF Kept
  <2>7. CASE Close(s) \/ CloseFails(s)
    <3>1. /\ job[s].pc = "closing" /\ UNCHANGED <<arch, queue, far>>
          /\ job[s].ok \/ job[s].err
      BY <2>7 DEF Close, CloseFails, farVars, dbVars, KeptInv, Kept
    <3>2. /\ job'[s].pc = "done" /\ job'[s].start = job[s].start
          /\ job'[s].ok = job[s].ok /\ job'[s].unavailable = job[s].unavailable
          /\ job[s].err => job'[s].err
      <4>1. CASE Close(s)
        BY <1>5, <4>1 DEF Close, Over, Job
      <4>2. CASE CloseFails(s)
        BY <1>5, <4>2 DEF CloseFails, Over, Job
      <4> QED
        BY <2>7, <4>1, <4>2
    <3> QED
      BY <1>2, <3>1, <3>2, KeptOver DEF Kept, Mirrored
  <2> QED
    BY <2>1, <2>2, <2>3, <2>4, <2>5, <2>6, <2>7 DEF JobStep
<1> QED
  BY <1>3, <1>6, <1>7 DEF KeptInv

LEMMA KeptStep ==
    ASSUME Benign, Inv, KeptInv, [Next]_vars
    PROVE  KeptInv'
<1>1. CASE UNCHANGED vars
  BY <1>1 DEF vars, farVars, dbVars, KeptInv, AllEnded, Kept, Mirrored
<1>2. CASE Environment
  BY <1>2, KeptEnvironment
<1>3. CASE \/ \E opt \in Options : StartRun(opt)
           \/ RunStep
           \/ Interruption
  BY <1>3, KeptRunLevel, KeptJobStep DEF RunStep
<1> QED
  BY <1>1, <1>2, <1>3 DEF Next

\* Only the end of a run in order calls it ok, and it does so without any error.
LEMMA OkStep ==
    ASSUME Inv, KeptInv, [Next]_vars, runRow' = "ok", runRow = "open"
    PROVE  \A s \in Scope : job[s].pc = "done" /\ job[s].ok
<1>1. run \in Run /\ RunInv /\ runRow # "ok"
  BY DEF Inv, TypeOK
<1>2. ASSUME NEW s \in Scope, JobStep(s)
      PROVE  runRow' = runRow
  BY <1>2 DEF JobStep, JobNotStarted, JobStart, ReadPage, AttachPage, PageFails,
              PageForbidden, Close, CloseFails, dbVars
<1>3. CASE Environment
  BY <1>1, <1>3 DEF Environment, Tick, Edit, Publish, Delete, dbVars
<1>4. CASE FinishRun
  <2>1. /\ run.phase = "finishing" /\ ~run.cancelled
        /\ \A s \in Scope : ~job[s].err
    BY <1>4 DEF FinishRun, RunOutcome, Outcome
  <2> QED
    BY <2>1 DEF KeptInv, AllEnded, Kept
<1>5. CASE \/ \E opt \in Options : StartRun(opt)
           \/ Plan \/ PlanFails \/ ReadingOver
           \/ NotSwept \/ SweepRefused \/ SweepFails \/ SweepApplied
           \/ Stamp \/ StampFails \/ FinishFails
           \/ Interruption \/ UNCHANGED vars
  BY <1>1, <1>5 DEF StartRun, Plan, PlanFails, ReadingOver, NotSwept, SweepRefused,
                    SweepFails, SweepApplied, Stamp, StampFails, FinishFails,
                    Interruption, Cancel, Crash, BudgetRunsOut, dbVars, vars
<1> QED
  BY <1>1, <1>2, <1>3, <1>4, <1>5 DEF Next, RunStep

\* A scheduled run that ends as ok has brought every scope the company has up to
\* date with what its API could list when the read of it began, through any
\* failures of the runs before it (runJob, firstError, outcomeFor).
THEOREM OkCorrect == ASSUME Benign PROVE Spec => OkMeansMirrored
<1>1. Init => KeptInv
  BY DEF Init, NoRun, NoJob, KeptInv, AllEnded, Kept
<1>2. Inv /\ KeptInv /\ [Next]_vars => KeptInv'
  BY KeptStep
<1>3. ASSUME Inv, KeptInv, [Next]_vars, runRow' = "ok", runRow = "open",
             AdvancesCursor(run.opt.mode), NEW r \in Rec, far[r].live,
             ~job[ScopeOf[r]].unavailable,
             \/ job[ScopeOf[r]].start = 0
             \/ far[r].upd + Lag < job[ScopeOf[r]].start
      PROVE  Mirrored(r)
  <2>1. ScopeOf[r] \in Scope
    BY PullAssumption DEF PullAssumption
  <2>2. job[ScopeOf[r]].pc = "done" /\ job[ScopeOf[r]].ok
    BY <1>3, <2>1, OkStep
  <2>3. 1 <= job[ScopeOf[r]].start
    BY <1>3, <2>1, <2>2, ScopeFacts DEF JobInv
  <2>4. far[r].upd + Lag >= job[ScopeOf[r]].start \/ Mirrored(r)
    BY <1>3, <2>1, <2>2 DEF KeptInv, Kept
  <2> QED
    BY <1>3, <2>1, <2>3, <2>4, ScopeFacts
<1>4. Inv /\ KeptInv /\ [Next]_vars =>
        [runRow' = "ok" /\ runRow = "open" /\ AdvancesCursor(run.opt.mode)
          => \A r \in Rec :
                LET j == job[ScopeOf[r]] IN
                /\ far[r].live
                /\ ~j.unavailable
                /\ j.start = 0 \/ far[r].upd + Lag < j.start
                => Mirrored(r)]_vars
  BY <1>3
<1> QED
  BY <1>1, <1>2, <1>4, Invariance, PTL DEF Spec, OkMeansMirrored
----------------------------------------------------------------------------
(* Pull implements Mirror.                                                 *)

\* A page in hand has been archived, and no sweep runs beside it.
BatchInv ==
    \A s \in Scope : job[s].pc = "attaching" => \A r \in job[s].batch : LiveRow(arch[r])

\* Only a page that arrives puts anything in hand.
LEMMA SameBatch ==
    ASSUME Benign, Inv, [Next]_vars, NEW s \in Scope, ~ReadPage(s), job'[s].pc = "attaching"
    PROVE  job[s].pc = "attaching" /\ job'[s].batch = job[s].batch
<1>1. job \in [Scope -> Job]
  BY DEF Inv, TypeOK
<1>2. CASE Environment
  BY <1>2, EnvironmentStep
<1>3. ASSUME NEW t \in Scope, JobStep(t)
      PROVE  job[s].pc = "attaching" /\ job'[s].batch = job[s].batch
  <2>1. CASE t # s
    <3>1. job'[s] = job[s]
      BY <1>1, <1>3, <2>1
         DEF JobStep, JobNotStarted, JobStart, ReadPage, AttachPage, PageFails, PageForbidden,
             Close, CloseFails
    <3> QED
      BY <3>1
  <2>2. CASE t = s
    <3>1. job'[s].pc \in {"done", "reading", "closing"}
      <4>0. CASE JobNotStarted(s)
        BY <1>1, <4>0 DEF JobNotStarted, NoJob
      <4>1. CASE JobStart(s)
        <5>1. PICK ask :
                 job'[s] = [NoJob EXCEPT !.pc = "reading", !.start = clock, !.ok = TRUE,
                                         !.since = ask.since, !.window = ask.window,
                                         !.full = ask.full,
                                         !.owed = {r \in Rec : Lists(s, ask, r)}]
          BY <1>1, <4>1 DEF JobStart
        <5> QED
          BY <5>1 DEF NoJob
      <4>2. CASE AttachPage(s)
        BY <1>1, <4>2 DEF AttachPage, Job
      <4>3. CASE PageFails(s) \/ PageForbidden(s)
        BY <1>1, <4>3 DEF PageFails, PageForbidden, Job
      <4>4. CASE Close(s) \/ CloseFails(s)
        BY <1>1, <4>4 DEF Close, CloseFails, Over, Job
      <4> QED
        BY <1>3, <2>2, <4>0, <4>1, <4>2, <4>3, <4>4 DEF JobStep
    <3> QED
      BY <3>1
  <2> QED
    BY <2>1, <2>2
<1>4. CASE Plan \/ PlanFails \/ FinishRun \/ FinishFails \/ Crash
  <2>1. job'[s].pc \in {"none", "queued"}
    BY <1>4 DEF Plan, PlanFails, FinishRun, FinishFails, Crash, EndRun, NoJob
  <2> QED
    BY <2>1
<1>5. CASE UNCHANGED job
  BY <1>5
<1> QED
  BY <1>2, <1>3, <1>4, <1>5
     DEF Next, RunStep, Interruption, StartRun, ReadingOver, NotSwept, SweepRefused, SweepFails,
         SweepApplied, Stamp, StampFails, Cancel, BudgetRunsOut, vars

LEMMA BatchStep == Benign /\ Inv /\ BatchInv /\ [Next]_vars => BatchInv'
<1> SUFFICES ASSUME Benign, Inv, BatchInv, [Next]_vars,
                    NEW s \in Scope, job'[s].pc = "attaching", NEW r \in job'[s].batch
             PROVE  LiveRow(arch'[r])
  BY DEF BatchInv
<1>1. job \in [Scope -> Job] /\ arch \in [Rec -> Row]
  BY DEF Inv, TypeOK
<1>2. CASE ReadPage(s)
  <2>1. PICK recs \in SUBSET Rec :
           /\ arch' = [q \in Rec |-> IF q \in recs THEN Upsert(arch[q], far[q].upd, clock)
                                                   ELSE arch[q]]
           /\ job'[s].batch = recs
    BY <1>1, <1>2 DEF ReadPage, Job
  <2> QED
    BY <1>1, <2>1 DEF Upsert, LiveRow, Row
<1>3. CASE ~ReadPage(s)
  <2>1. job[s].pc = "attaching" /\ r \in job[s].batch
    BY <1>3, SameBatch
  <2>2. r \in Rec /\ LiveRow(arch[r])
    BY <1>1, <2>1 DEF BatchInv, Job
  <2>3. ~SweepApplied
    BY <2>1 DEF SweepApplied, Sweeping, Inv, RunInv
  <2> QED
    BY <2>2, <2>3, OnlySweepsDelete DEF Swept, Inv
<1> QED
  BY <1>2, <1>3

AbstractStep == [Promise!MirrorNext]_<<clock, far, arch, queue, cursor, reconciled>>

LEMMA MirrorEnvironment == Inv /\ Environment => AbstractStep
<1> SUFFICES ASSUME Inv, Environment PROVE AbstractStep
  OBVIOUS
<1> USE FarEndAssumption DEF FarEndAssumption, Inv, TypeOK, FarType, FarRecord, FarInv, dbVars
<1>1. CASE Tick
  BY <1>1 DEF Tick, FarTick, AbstractStep, Promise!MirrorNext, Promise!FarMoves
<1>2. ASSUME NEW r \in Rec, Edit(r)
      PROVE  AbstractStep
  BY <1>2 DEF Edit, FarEdit, AbstractStep
<1>3. ASSUME NEW r \in Rec, Publish(r)
      PROVE  AbstractStep
  <2>1. UNCHANGED <<clock, arch, queue, cursor, reconciled>>
    BY <1>3 DEF Publish, FarPublish
  <2>2. /\ \A q \in Rec \ {r} : far'[q] = far[q]
        /\ far'[r].live /\ far'[r].upd = hid[r]
    BY <1>3 DEF Publish, FarPublish
  <2>3. far[r].upd < hid[r] /\ hid[r] <= clock /\ clock <= hid[r] + Lag
    BY <1>3 DEF Publish, FarPublish
  <2> QED
    BY <2>1, <2>2, <2>3 DEF AbstractStep, Promise!MirrorNext, Promise!FarMoves
<1>4. ASSUME NEW r \in Rec, Delete(r)
      PROVE  AbstractStep
  <2>1. UNCHANGED <<clock, arch, queue, cursor, reconciled>>
    BY <1>4 DEF Delete, FarDelete
  <2>2. \A q \in Rec : far'[q] = far[q] \/ (~far'[q].live /\ far'[q].upd = far[q].upd)
    BY <1>4 DEF Delete, FarDelete
  <2> QED
    BY <2>1, <2>2 DEF AbstractStep, Promise!MirrorNext, Promise!FarMoves
<1> QED
  BY <1>1, <1>2, <1>3, <1>4 DEF Environment

LEMMA UpsertedRow ==
    ASSUME NEW row \in Row, NEW upd \in Nat, NEW now \in Nat
    PROVE  Upsert(row, upd, now) = [state |-> "live", upd |-> upd, seen |-> now]
<1>1. Upsert(row, upd, now) \in Row
  BY DEF Upsert, Row, RowStates
<1>2. /\ Upsert(row, upd, now).state = "live" /\ Upsert(row, upd, now).upd = upd
      /\ Upsert(row, upd, now).seen = now
  BY DEF Upsert, Row
<1> QED
  BY <1>1, <1>2 DEF Row

LEMMA MirrorJob ==
    ASSUME Inv, Inv', BatchInv, NEW s \in Scope, JobStep(s)
    PROVE  AbstractStep
<1>1. /\ job \in [Scope -> Job] /\ arch \in [Rec -> Row] /\ cursor \in [Scope -> Nat]
      /\ clock \in Nat
  BY DEF Inv, TypeOK, FarType
<1>2. CASE ReadPage(s)
  <2>1. PICK recs \in SUBSET Rec :
           /\ recs \subseteq Listed(s)
           /\ arch' = [r \in Rec |-> IF r \in recs THEN Upsert(arch[r], far[r].upd, clock)
                                                   ELSE arch[r]]
    BY <1>2 DEF ReadPage, Page
  <2>2. \A r \in recs : far[r].live
                        /\ Upsert(arch[r], far[r].upd, clock)
                              = [state |-> "live", upd |-> far[r].upd, seen |-> clock]
    <3> SUFFICES ASSUME NEW r \in recs
                 PROVE  /\ far[r].live
                        /\ Upsert(arch[r], far[r].upd, clock)
                              = [state |-> "live", upd |-> far[r].upd, seen |-> clock]
      OBVIOUS
    <3>1. far[r].live
      BY <2>1 DEF Listed, Lists
    <3>2. arch[r] \in Row
      BY <1>1
    <3>3. far[r].upd \in Nat /\ clock \in Nat
      BY ScopeFacts, <1>1 DEF Inv, TypeOK, FarType, FarRecord
    <3> QED
      BY <3>1, <3>2, <3>3, UpsertedRow
  <2>3. UNCHANGED <<clock, far, queue, cursor, reconciled>>
    BY <1>2 DEF ReadPage, farVars
  <2>4. Promise!Take(recs)
    BY <2>1, <2>2, <2>3 DEF Promise!Take
  <2> QED
    BY <2>4 DEF AbstractStep, Promise!MirrorNext
<1>3. CASE AttachPage(s)
  <2>1. /\ job[s].batch \in SUBSET Rec
        /\ \A r \in job[s].batch : LiveRow(arch[r])
    BY <1>1, <1>3 DEF AttachPage, Job, BatchInv
  <2>2. Promise!Attach(job[s].batch)
    BY <1>3, <2>1 DEF AttachPage, farVars, Promise!Attach, Promise!Held, LiveRow
  <2> QED
    BY <2>1, <2>2 DEF AbstractStep, Promise!MirrorNext
<1>4. CASE Close(s) /\ SavesCursor(s)
  <2>1. UNCHANGED <<clock, far, arch, queue, reconciled>>
        /\ cursor' = [cursor EXCEPT ![s] = job[s].high]
    BY <1>4 DEF Close, farVars
  <2>2. job[s].high \in 0..clock
    BY <1>1, <1>4, ScopeFacts DEF Close, JobInv, Active
  <2>3. cursor'[s] = job[s].high
    BY <1>1, <2>1
  <2>4. \A r \in Promise!Passed(s, job[s].high) : Promise!UpToDate(r)
    BY <2>1, <2>3
       DEF Inv, CursorSafe, Mirrored, LiveRow, Promise!Passed, Promise!UpToDate, Promise!Held
  <2>5. Promise!Advance(s, job[s].high)
    BY <2>1, <2>2, <2>4 DEF Promise!Advance
  <2> QED
    BY <2>2, <2>5 DEF AbstractStep, Promise!MirrorNext
<1>5. CASE UNCHANGED <<clock, far, arch, queue, cursor, reconciled>>
  BY <1>5 DEF AbstractStep
<1> QED
  BY <1>2, <1>3, <1>4, <1>5
     DEF JobStep, JobNotStarted, JobStart, PageFails, PageForbidden, Close, CloseFails, farVars,
         dbVars

LEMMA MirrorSweep == Inv /\ Inv' /\ SweepApplied => AbstractStep
<1> SUFFICES ASSUME Inv, Inv', SweepApplied PROVE AbstractStep
  OBVIOUS
<1>1. PICK t \in Scope :
        /\ EarliestSweepStart(job[t].start)
        /\ arch' = [r \in Rec |-> SweptRow(arch[r], job[t].start)]
  BY DEF SweepApplied
<1> DEFINE unseen == {r \in Rec : Promise!Held(r) /\ arch[r].seen < job[t].start}
<1>2. arch \in [Rec -> Row] /\ job[t].start \in 0..clock
  <2>1. job[t].pc = "done"
    BY DEF SweepApplied, Sweeping, Inv, RunInv
  <2> QED
    BY <2>1, ScopeFacts DEF JobInv
<1>3. ASSUME NEW r \in unseen, far[r].live
      PROVE  /\ far[r].upd + Lag >= job[t].start
             /\ r \notin Promise!Passed(ScopeOf[r], cursor[ScopeOf[r]])
  <2> DEFINE u == ScopeOf[r]
  <2>1. u \in Scope
    BY PullAssumption DEF PullAssumption
  <2>2. LiveRow(arch[r]) /\ ~LiveRow(arch'[r])
    BY <1>1, <1>2 DEF SweptRow, Unseen, LiveRow, Promise!Held, Row
  <2>3. far[r].upd + Lag >= job[u].start /\ job[u].pc = "done" /\ job[u].ok
    BY <1>3, <2>2, SweepStep
  <2>4. 1 <= job[u].start /\ job[u].start \in Nat /\ job[t].start \in Nat
        /\ far[r].upd + Lag \in Nat
    BY <1>2, <2>1, <2>3, ScopeFacts DEF JobInv
  <2>5. job[t].start <= job[u].start
    BY <1>1, <2>1, <2>3, <2>4 DEF EarliestSweepStart, Results
  <2>6. r \notin Promise!Passed(u, cursor[u])
    BY <2>2 DEF Inv, CursorSafe, Mirrored, SweepApplied, farVars, Promise!Passed
  <2> QED
    BY <2>3, <2>4, <2>5, <2>6
<1>4. arch' = [r \in Rec |-> IF r \in unseen THEN [arch[r] EXCEPT !.state = "deleted"]
                                             ELSE arch[r]]
  BY <1>1 DEF SweptRow, Unseen, LiveRow, Promise!Held
<1>5. UNCHANGED <<clock, far, queue, cursor, reconciled>>
  BY DEF SweepApplied, farVars
<1>6. Promise!GiveUp(job[t].start)
  BY <1>2, <1>3, <1>4, <1>5 DEF Promise!GiveUp
<1> QED
  BY <1>2, <1>6 DEF AbstractStep, Promise!MirrorNext

LEMMA MirrorStamp == Inv /\ StampInv /\ Stamp => AbstractStep
<1> SUFFICES ASSUME Inv, StampInv, Stamp PROVE AbstractStep
  OBVIOUS
<1>1. PICK t \in Scope : First(t) /\ reconciled' = job[t].start
  BY DEF Stamp, First
<1>2. job[t].start \in 0..clock
  BY ScopeFacts DEF StampInv, ReadsInv
<1>3. \A r \in Rec : LiveRow(arch[r]) => arch[r].seen >= job[t].start
  BY <1>1 DEF StampInv, SweptInv, SeenSince, Stamp
<1>4. UNCHANGED <<clock, far, arch, queue, cursor>>
  BY DEF Stamp, farVars
<1>5. Promise!Date(job[t].start)
  BY <1>1, <1>2, <1>3, <1>4 DEF Promise!Date, Promise!Held, LiveRow
<1> QED
  BY <1>2, <1>5 DEF AbstractStep, Promise!MirrorNext

LEMMA MirrorStep ==
    ASSUME Inv, Inv', BatchInv, StampInv, [Next]_vars
    PROVE  AbstractStep
<1>1. CASE UNCHANGED <<farVars, arch, queue, cursor, reconciled>>
  BY <1>1 DEF AbstractStep, farVars
<1> QED
  BY <1>1, MirrorEnvironment, MirrorJob, MirrorSweep, MirrorStamp
     DEF Next, RunStep, Interruption, StartRun, Plan, PlanFails, ReadingOver, NotSwept,
         SweepRefused, SweepFails, StampFails, FinishRun, FinishFails, Cancel, Crash,
         BudgetRunsOut, vars, dbVars

\* Pulls implement Mirror: whatever runs do, and wherever they fail, are stopped
\* or die, the archive only takes what is listed, and gives up, passes by and
\* dates nothing it would lose by.
THEOREM MirrorImplemented == ASSUME Benign PROVE Spec => KeepsMirror
<1>1. Init => Promise!MirrorInit
  BY DEF Init, FarInit, NoRow, Promise!MirrorInit
<1>2. Init => BatchInv /\ StampInv
  BY DEF Init, FarInit, BatchInv, StampInv, ReadsInv, SweptInv, StampHonest, NoRun, NoJob, NoRow,
         Active, LiveRow
<1>3. Inv /\ Inv' /\ BatchInv /\ StampInv /\ [Next]_vars
      => BatchInv' /\ StampInv' /\ AbstractStep
  <2> SUFFICES ASSUME Inv, Inv', BatchInv, StampInv, [Next]_vars
               PROVE  BatchInv' /\ StampInv' /\ AbstractStep
    OBVIOUS
  <2>1. TypeOK /\ TypeOK'
    BY DEF Inv
  <2> QED
    BY <2>1, BatchStep, StampStep, MirrorStep
<1> QED
  BY <1>1, <1>2, <1>3, Invariance, PTL
     DEF Spec, AbstractStep, KeepsMirror, Promise!MirrorSafe, Promise!mirrorVars

\* Mirror promises what it should: whatever keeps to it never leaves a cursor
\* ahead of a listed record that is not up to date, once the overlap covers the
\* lag with which edits come to be listed.
LEMMA MirrorsAreSafe == ASSUME Lag <= Overlap PROVE KeepsMirror => []CursorSafe
<1> USE FarEndAssumption, PullAssumption DEF FarEndAssumption, PullAssumption
<1> DEFINE Types == /\ clock \in Nat /\ cursor \in [Scope -> Nat]
                    /\ \A r \in Rec : far[r].upd \in Nat
                    /\ \A s \in Scope : cursor[s] <= clock
           Safe  == Types /\ CursorSafe
<1>1. Promise!MirrorInit => Safe
  BY DEF Promise!MirrorInit, CursorSafe
<1>2. Safe /\ AbstractStep => Safe'
  <2> SUFFICES ASSUME Types, CursorSafe, AbstractStep PROVE Types' /\ CursorSafe'
    OBVIOUS
  <2>0. \A r \in Rec : ScopeOf[r] \in Scope
    OBVIOUS
  <2>1. CASE Promise!FarMoves
    <3>1. Types'
      BY <2>1 DEF Promise!FarMoves
    <3>2. ASSUME NEW r \in Rec, far'[r].live, far'[r].upd + Overlap < cursor[ScopeOf[r]]
          PROVE  far[r].live /\ far'[r].upd = far[r].upd
      <4>1. ~(far'[r].upd \in (far[r].upd + 1)..clock /\ clock <= far'[r].upd + Lag)
        BY <2>0, <3>2
      <4> QED
        BY <2>1, <3>2, <4>1 DEF Promise!FarMoves
    <3>3. CursorSafe'
      BY <2>1, <3>2 DEF Promise!FarMoves, CursorSafe, Mirrored, LiveRow
    <3> QED
      BY <3>1, <3>3
  <2>2. ASSUME NEW recs \in SUBSET Rec, Promise!Take(recs)
        PROVE  Types' /\ CursorSafe'
    <3>1. \A r \in Rec : Mirrored(r) => Mirrored(r)'
      BY <2>2 DEF Promise!Take, Mirrored, LiveRow
    <3> QED
      BY <2>2, <3>1 DEF Promise!Take, CursorSafe
  <2>3. ASSUME NEW recs \in SUBSET Rec, Promise!Attach(recs)
        PROVE  Types' /\ CursorSafe'
    <3>1. \A r \in Rec : Mirrored(r) => Mirrored(r)'
      BY <2>3 DEF Promise!Attach, Mirrored, LiveRow
    <3> QED
      BY <2>3, <3>1 DEF Promise!Attach, CursorSafe
  <2>4. ASSUME NEW s \in Scope, NEW c \in 0..clock, Promise!Advance(s, c)
        PROVE  Types' /\ CursorSafe'
    <3>1. UNCHANGED <<clock, far, arch, queue>> /\ cursor' = [cursor EXCEPT ![s] = c]
      BY <2>4 DEF Promise!Advance
    <3>2. Types'
      BY <3>1
    <3>3. ASSUME NEW r \in Rec, far[r].live, far[r].upd + Overlap < cursor'[ScopeOf[r]]
          PROVE  Mirrored(r)
      <4>1. CASE ScopeOf[r] = s
        <5>1. r \in Promise!Passed(s, c)
          BY <3>1, <3>3, <4>1 DEF Promise!Passed
        <5> QED
          BY <2>4, <5>1
             DEF Promise!Advance, Promise!UpToDate, Promise!Held, Mirrored, LiveRow
      <4>2. CASE ScopeOf[r] # s
        BY <2>0, <3>1, <3>3, <4>2 DEF CursorSafe
      <4> QED
        BY <4>1, <4>2
    <3> QED
      BY <3>1, <3>2, <3>3 DEF CursorSafe, Mirrored, LiveRow
  <2>5. ASSUME NEW since \in 0..clock, Promise!GiveUp(since)
        PROVE  Types' /\ CursorSafe'
    <3>1. UNCHANGED <<clock, far, queue, cursor>>
      BY <2>5 DEF Promise!GiveUp
    <3>2. \A r \in Rec : far[r].live /\ far[r].upd + Overlap < cursor[ScopeOf[r]]
                         => arch'[r] = arch[r]
      BY <2>5 DEF Promise!GiveUp, Promise!Passed
    <3> QED
      BY <3>1, <3>2 DEF CursorSafe, Mirrored, LiveRow
  <2>6. ASSUME NEW since \in 0..clock, Promise!Date(since)
        PROVE  Types' /\ CursorSafe'
    BY <2>6 DEF Promise!Date, CursorSafe, Mirrored, LiveRow
  <2>7. CASE UNCHANGED <<clock, far, arch, queue, cursor, reconciled>>
    BY <2>7 DEF CursorSafe, Mirrored, LiveRow
  <2> QED
    BY <2>1, <2>2, <2>3, <2>4, <2>5, <2>6, <2>7 DEF AbstractStep, Promise!MirrorNext
<1>3. Safe => CursorSafe
  OBVIOUS
<1> HIDE DEF Safe
<1> QED
  BY <1>1, <1>2, <1>3, PTL
     DEF AbstractStep, KeepsMirror, Promise!MirrorSafe, Promise!mirrorVars
=============================================================================
