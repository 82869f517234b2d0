---------------------------- MODULE PullProofs ----------------------------
(***************************************************************************)
(* Theorems about Pull, for every value of its constants: pages may shift, *)
(* walks may be cut short by a 403 and runs may be narrowed to a window.   *)
(***************************************************************************)
EXTENDS Pull, FiniteSetTheorems, TLAPS

----------------------------------------------------------------------------
(* Types.                                                                  *)

\* The count of any set of records is a natural number.
LEMMA CardinalityOfRecords ==
    ASSUME NEW S \in SUBSET Rec
    PROVE  Cardinality(S) \in Nat
  BY PullAssumption, FS_Subset, FS_CardinalityType DEF PullAssumption

\* What a run starts with and leaves behind is well typed.
LEMMA EmptyTypes ==
    /\ NoRun \in Run
    /\ NoJob \in Job
    /\ NoRow \in Row
  BY DEF NoRun, Run, Phases, NoOptions, PullOptions, Modes, NoJob, Job, JobSteps,
         NoRow, Row, RowStates

\* What is kept of a job that is over.
LEMMA OverType ==
    ASSUME NEW j \in Job
    PROVE  Over(j) \in Job
<1> DEFINE pc == [j EXCEPT !.pc = "done"]
           since == [pc EXCEPT !.since = 0]
           window == [since EXCEPT !.window = FALSE]
           high == [window EXCEPT !.high = 0]
<1>1. pc \in Job
  BY DEF Job, JobSteps
<1>2. since \in Job
  <2> HIDE DEF pc
  <2> QED
    BY <1>1 DEF Job
<1>3. window \in Job
  <2> HIDE DEF since
  <2> QED
    BY <1>2 DEF Job
<1>4. high \in Job
  <2> HIDE DEF window
  <2> QED
    BY <1>3 DEF Job
<1>5. [high EXCEPT !.owed = {}] \in Job
  <2> HIDE DEF high
  <2> QED
    BY <1>4 DEF Job
<1> QED
  BY <1>5 DEF Over

\* What a read asks for.
LEMMA ListOptionsType ==
    ASSUME TypeOK, NEW s \in Scope
    PROVE  /\ ListOptions(s).since \in Int
           /\ ListOptions(s).window \in BOOLEAN
           /\ ListOptions(s).full \in BOOLEAN
<1>1. /\ run.opt \in PullOptions
      /\ cursor[s] \in Nat
  BY DEF TypeOK, Run
<1>2. /\ run.opt.since \in Nat
      /\ run.opt.window \in BOOLEAN
  BY <1>1 DEF PullOptions
<1>3. Overlap \in Nat
  BY PullAssumption DEF PullAssumption
<1> DEFINE everything == run.opt.mode = "full" \/ ~HonoursFilter \/ cursor[s] = 0
<1>4. CASE run.opt.mode = "ad-hoc"
  BY <1>2, <1>4 DEF ListOptions
<1>5. CASE run.opt.mode # "ad-hoc" /\ everything
  BY <1>5 DEF ListOptions
<1>6. CASE run.opt.mode # "ad-hoc" /\ ~everything
  BY <1>1, <1>3, <1>6 DEF ListOptions
<1> QED
  BY <1>4, <1>5, <1>6

LEMMA InitTypeOK == Init => TypeOK
  BY EmptyTypes, PullAssumption
  DEF Init, TypeOK, FarInit, FarType, FarRecord, RunRows, PullAssumption

\* The far end's steps.
LEMMA EnvironmentTypeOK ==
    ASSUME TypeOK, Environment
    PROVE  TypeOK'
<1> USE DEF TypeOK, FarType
<1>1. CASE Tick
  BY <1>1 DEF Tick, FarTick, dbVars
<1>2. ASSUME NEW r \in Rec, Edit(r)
      PROVE  TypeOK'
  BY <1>2 DEF Edit, FarEdit, dbVars
<1>3. ASSUME NEW r \in Rec, Displace(r)
      PROVE  job' \in [Scope -> Job]
  <2>1. CASE UNCHANGED job
    BY <2>1
  <2>2. ASSUME NEW missed, job' = [job EXCEPT ![ScopeOf[r]].owed = @ \ {missed}]
        PROVE  job' \in [Scope -> Job]
    <3>1. /\ ScopeOf[r] \in Scope
          /\ job[ScopeOf[r]] \in Job
      BY PullAssumption DEF PullAssumption
    <3>2. [job[ScopeOf[r]] EXCEPT !.owed = @ \ {missed}] \in Job
      BY <3>1 DEF Job
    <3> QED
      BY <3>1, <3>2, <2>2
  <2> QED
    BY <1>3, <2>1, <2>2 DEF Displace
<1>4. ASSUME NEW r \in Rec, Publish(r)
      PROVE  TypeOK'
  BY <1>4, <1>3 DEF Publish, FarPublish, FarRecord, dbVars
<1>5. ASSUME NEW r \in Rec, Delete(r)
      PROVE  TypeOK'
  BY <1>5, <1>3 DEF Delete, FarDelete, FarRecord, dbVars
<1> QED
  BY <1>1, <1>2, <1>4, <1>5 DEF Environment

LEMMA RunTypeOK ==
    ASSUME TypeOK,
           \/ \E opt \in Options : StartRun(opt)
           \/ Plan \/ PlanFails \/ ReadingOver
           \/ NotSwept \/ SweepRefused \/ SweepFails \/ SweepApplied
           \/ Stamp \/ StampFails \/ FinishRun \/ FinishFails
           \/ Interruption
    PROVE  TypeOK'
<1> USE DEF TypeOK, FarType, farVars, dbVars
<1>1. /\ run \in Run
      /\ job \in [Scope -> Job]
  OBVIOUS
<1>2. ASSUME EndRun
      PROVE  run' \in Run /\ job' \in [Scope -> Job] /\ held' \in Nat
  BY <1>2, EmptyTypes DEF EndRun
<1>3. ASSUME NEW phase \in Phases
      PROVE  /\ [run EXCEPT !.phase = phase] \in Run
             /\ [run EXCEPT !.phase = phase, !.failed = TRUE] \in Run
  BY <1>1 DEF Run
<1>4. \A phase \in {"reading", "sweeping", "stamping", "finishing"} : phase \in Phases
  BY DEF Phases
<1>5. ASSUME NEW opt \in Options, StartRun(opt)
      PROVE  TypeOK'
  <2>1. run' \in Run
    BY <1>5, EmptyTypes, PullAssumption DEF StartRun, Run, Phases, PullAssumption
  <2>2. held' \in Nat
    BY <1>5, CardinalityOfRecords DEF StartRun, Live
  <2> QED
    BY <1>5, <2>1, <2>2 DEF StartRun, RunRows
<1>6. CASE Plan
  <2>1. [NoJob EXCEPT !.pc = "queued"] \in Job
    BY EmptyTypes DEF Job, JobSteps
  <2> QED
    BY <1>6, <2>1, <1>3, <1>4 DEF Plan
<1>7. CASE PlanFails
  BY <1>7, <1>2 DEF PlanFails, Fault, NoFault
<1>8. CASE ReadingOver
  BY <1>8, <1>3, <1>4 DEF ReadingOver
<1>9. CASE NotSwept \/ SweepRefused
  BY <1>9, <1>3, <1>4 DEF NotSwept, SweepRefused
<1>10. CASE SweepFails \/ StampFails
  <2>1. /\ run' = [run EXCEPT !.phase = "finishing", !.failed = TRUE]
        /\ faults' \in Nat
        /\ UNCHANGED <<farVars, dbVars, job, held>>
    BY <1>10 DEF SweepFails, StampFails, Fault, NoFault
  <2> QED
    BY <2>1, <1>3, <1>4
<1>11. CASE SweepApplied
  <2>1. ASSUME NEW start
        PROVE  [r \in Rec |-> SweptRow(arch[r], start)] \in [Rec -> Row]
    BY DEF SweptRow, Row, RowStates
  <2> QED
    BY <1>11, <2>1, <1>3, <1>4 DEF SweepApplied
<1>12. CASE Stamp
  <2>1. \A s \in Scope : job[s].start \in Nat
    BY <1>1 DEF Job
  <2> QED
    BY <1>12, <2>1, <1>3, <1>4 DEF Stamp
<1>13. CASE FinishRun
  BY <1>13, <1>2 DEF FinishRun, RunOutcome, Outcome, RunRows, Outcomes
<1>14. CASE FinishFails
  BY <1>14, <1>2 DEF FinishFails, Fault, NoFault
<1>15. CASE Crash
  BY <1>15, <1>2 DEF Crash, Fault
<1>16. CASE Cancel \/ BudgetRunsOut
  <2>1. /\ [run EXCEPT !.cancelled = TRUE] \in Run
        /\ [run EXCEPT !.spent = TRUE] \in Run
    BY <1>1 DEF Run
  <2>2. /\ \/ run' = [run EXCEPT !.cancelled = TRUE]
           \/ run' = [run EXCEPT !.spent = TRUE]
        /\ faults' \in Nat
        /\ UNCHANGED <<farVars, dbVars, job, held>>
    BY <1>16 DEF Cancel, BudgetRunsOut, Fault
  <2> QED
    BY <2>1, <2>2
<1> QED
  BY <1>5, <1>6, <1>7, <1>8, <1>9, <1>10, <1>11, <1>12, <1>13, <1>14, <1>15, <1>16
  DEF Interruption

LEMMA JobStepTypeOK ==
    ASSUME TypeOK, NEW s \in Scope, JobStep(s)
    PROVE  TypeOK'
<1> USE DEF TypeOK, FarType, farVars, dbVars
<1>1. /\ job[s] \in Job
      /\ run \in Run
      /\ run.opt \in PullOptions
  BY DEF Run
<1>2. ASSUME NEW j \in Job, job' = [job EXCEPT ![s] = j]
      PROVE  job' \in [Scope -> Job]
  BY <1>2
<1>3. CASE JobNotStarted(s)
  <2>1. [NoJob EXCEPT !.pc = "done", !.err = TRUE] \in Job
    BY EmptyTypes DEF Job, JobSteps
  <2>2. run' \in Run
    BY <1>3, <1>1 DEF JobNotStarted, Run
  <2> QED
    BY <1>3, <1>2, <2>1, <2>2 DEF JobNotStarted, Fault, NoFault
<1>4. CASE JobStart(s)
  <2>1. /\ ListOptions(s).since \in Int
        /\ ListOptions(s).window \in BOOLEAN
        /\ ListOptions(s).full \in BOOLEAN
    BY ListOptionsType
  <2>2. [NoJob EXCEPT !.pc = "reading", !.start = clock, !.ok = TRUE,
                      !.since = ListOptions(s).since, !.window = ListOptions(s).window,
                      !.full = ListOptions(s).full,
                      !.owed = {r \in Rec : Lists(s, ListOptions(s), r)}] \in Job
    BY <2>1, EmptyTypes DEF Job, JobSteps
  <2> QED
    BY <1>4, <1>2, <2>2 DEF JobStart
<1>5. CASE ReadPage(s)
  <2>1. PICK recs \in SUBSET Rec, last \in BOOLEAN :
          /\ arch' = [r \in Rec |-> IF r \in recs
                                    THEN Upsert(arch[r], far[r].upd, clock)
                                    ELSE arch[r]]
          /\ job' = [job EXCEPT ![s] =
                [@ EXCEPT !.pc = "attaching", !.batch = recs, !.last = last,
                          !.owed = Rest(s, recs),
                          !.fresh = Cardinality({r \in recs : MadeLive(arch[r])})]]
    BY <1>5 DEF ReadPage
  <2>2. Cardinality({r \in recs : MadeLive(arch[r])}) \in Nat
    BY CardinalityOfRecords
  <2>3. Rest(s, recs) \in SUBSET Rec
    BY DEF Rest, Listed
  <2>4. [job[s] EXCEPT !.pc = "attaching", !.batch = recs, !.last = last,
                       !.owed = Rest(s, recs),
                       !.fresh = Cardinality({r \in recs : MadeLive(arch[r])})] \in Job
    BY <1>1, <2>2, <2>3 DEF Job, JobSteps
  <2>5. arch' \in [Rec -> Row]
    BY <2>1 DEF Upsert, Row, RowStates, FarRecord
  <2> QED
    BY <1>5, <1>2, <2>1, <2>4, <2>5 DEF ReadPage
<1>6. CASE AttachPage(s)
  <2>1. PICK high \in {job[s].high} \cup {arch[r].upd : r \in job[s].batch} :
          job' = [job EXCEPT ![s] =
                [@ EXCEPT !.pc = IF run.spent \/ job[s].last THEN "closing"
                                                             ELSE "reading",
                          !.ok = ~run.spent, !.err = run.spent, !.high = high,
                          !.batch = {}, !.fresh = 0, !.last = FALSE]]
    BY <1>6 DEF AttachPage
  <2>2. high \in Nat
    BY <1>1 DEF Job, Row
  <2>3. [job[s] EXCEPT !.pc = IF run.spent \/ job[s].last THEN "closing"
                                                          ELSE "reading",
                       !.ok = ~run.spent, !.err = run.spent, !.high = high,
                       !.batch = {}, !.fresh = 0, !.last = FALSE] \in Job
    BY <1>1, <2>2 DEF Job, JobSteps, Run
  <2>4. run' \in Run
    <3>1. run.added + job[s].fresh \in Nat
      BY <1>1 DEF Run, Job
    <3>2. (run.tripped \/ run.spent) \in BOOLEAN
      BY <1>1 DEF Run
    <3>3. run' = [run EXCEPT !.tripped = run.tripped \/ run.spent,
                             !.added = run.added + job[s].fresh]
      BY <1>6 DEF AttachPage
    <3> QED
      BY <1>1, <3>1, <3>2, <3>3 DEF Run
  <2>5. queue' \in [Rec -> Nat]
    BY <1>6 DEF AttachPage, Row
  <2> QED
    BY <1>6, <1>2, <2>1, <2>3, <2>4, <2>5 DEF AttachPage
<1>7. CASE PageFails(s)
  <2>1. [job[s] EXCEPT !.pc = "closing", !.ok = FALSE, !.err = TRUE,
                       !.batch = {}, !.fresh = 0, !.last = FALSE] \in Job
    BY <1>1 DEF Job, JobSteps
  <2> QED
    BY <1>7, <1>2, <2>1 DEF PageFails, Fault, NoFault
<1>8. CASE PageForbidden(s)
  <2>1. [job[s] EXCEPT !.pc = "closing", !.ok = TRUE, !.unavailable = TRUE] \in Job
    BY <1>1 DEF Job, JobSteps
  <2> QED
    BY <1>8, <1>2, <2>1 DEF PageForbidden, Fault
<1>9. /\ Over(job[s]) \in Job
      /\ [Over(job[s]) EXCEPT !.err = TRUE] \in Job
  <2>1. Over(job[s]) \in Job
    BY <1>1, OverType
  <2> QED
    BY <2>1 DEF Job
<1>10. CASE Close(s)
  <2>1. cursor' \in [Scope -> Nat]
    BY <1>1, <1>10 DEF Close, Job
  <2> QED
    BY <1>10, <1>2, <1>9, <2>1 DEF Close
<1>11. CASE CloseFails(s)
  BY <1>11, <1>2, <1>9 DEF CloseFails, Fault, NoFault
<1> QED
  BY <1>3, <1>4, <1>5, <1>6, <1>7, <1>8, <1>10, <1>11 DEF JobStep

\* The archive, the run in progress and its jobs are well typed in every state
\* that any far end, schedule of runs and faults can lead to.
THEOREM TypeCorrect == Spec => []TypeOK
<1>1. TypeOK /\ [Next]_vars => TypeOK'
  <2> SUFFICES ASSUME TypeOK, [Next]_vars
               PROVE  TypeOK'
    OBVIOUS
  <2>1. CASE Environment
    BY <2>1, EnvironmentTypeOK
  <2>2. CASE (\E opt \in Options : StartRun(opt)) \/ Interruption
    BY <2>2, RunTypeOK
  <2>3. CASE RunStep
    BY <2>3, RunTypeOK, JobStepTypeOK DEF RunStep
  <2>4. CASE UNCHANGED vars
    BY <2>4 DEF vars, farVars, dbVars, TypeOK, FarType
  <2> QED
    BY <2>1, <2>2, <2>3, <2>4 DEF Next
<1> QED
  BY InitTypeOK, <1>1, PTL DEF Spec

----------------------------------------------------------------------------
(* The bound of a sweep: what it is measured against is counted down from  *)
(* what is live when the reads are over, so what has to be followed is     *)
(* every row a page brings to life, from its commit to addedThisRun.       *)

\* The rows the pages in hand have brought to life and addedThisRun does not
\* count yet, one pair for each.
Unrecorded == {u \in Scope \X Nat : u[2] \in 1..job[u[1]].fresh}

\* A job that has not completed keeps the family from being swept.
SomeJobFailed == \E s \in Scope : job[s].pc \in {"closing", "done"} /\ ~job[s].ok

\* Before the sweep of a run that may sweep, what is live is what was held when
\* it started and what its pages have brought to life since.
Balanced == Cardinality(Live) = held + run.added + Cardinality(Unrecorded)

MaySweep ==
    /\ run.phase \in {"planning", "reading", "sweeping"}
    /\ run.opt.sweep # "never"
    /\ ~SomeJobFailed

BoundInv ==
    /\ \A s \in Scope : job[s].pc # "attaching" => job[s].fresh = 0
    /\ run.phase \in {"idle", "planning"} => \A s \in Scope : job[s].pc = "none"
    /\ run.phase # "reading" => \A s \in Scope : job[s].pc \notin Active
    /\ IsFiniteSet(Unrecorded)
    /\ MaySweep => Balanced

LEMMA BoundNumbers ==
    ASSUME TypeOK
    PROVE  /\ run \in Run /\ run.added \in Nat /\ held \in Nat
           /\ \A s \in Scope : /\ job[s] \in Job /\ job[s].fresh \in Nat
                               /\ job[s].ok \in BOOLEAN
           /\ Live \subseteq Rec /\ IsFiniteSet(Live) /\ Cardinality(Live) \in Nat
<1>1. Live \in SUBSET Rec
  BY DEF Live
<1>2. IsFiniteSet(Live)
  BY <1>1, PullAssumption, FS_Subset DEF PullAssumption
<1> QED
  BY <1>1, <1>2, CardinalityOfRecords DEF TypeOK, Run, Job

\* One pair for each of k rows.
LEMMA PairsOf ==
    ASSUME NEW s, NEW k \in Nat
    PROVE  IsFiniteSet({s} \X (1..k)) /\ Cardinality({s} \X (1..k)) = k
<1> DEFINE One == {s}
           Many == 1..k
<1>1. IsFiniteSet(One) /\ Cardinality(One) = 1
  BY FS_Singleton
<1>2. IsFiniteSet(Many) /\ Cardinality(Many) = k
  BY FS_Interval
<1> HIDE DEF One, Many
<1>3. /\ IsFiniteSet(One \X Many)
      /\ Cardinality(One \X Many) = Cardinality(One) * Cardinality(Many)
  BY <1>1, <1>2, FS_Product
<1> QED
  BY <1>1, <1>2, <1>3 DEF One, Many

LEMMA DisjointUnion ==
    ASSUME NEW S, NEW T, IsFiniteSet(S), IsFiniteSet(T), S \cap T = {}
    PROVE  /\ IsFiniteSet(S \cup T)
           /\ Cardinality(S \cup T) = Cardinality(S) + Cardinality(T)
<1>1. Cardinality(S \cap T) = 0
  BY FS_EmptySet
<1>2. Cardinality(S) \in Nat /\ Cardinality(T) \in Nat
  BY FS_CardinalityType
<1>3. /\ IsFiniteSet(S \cup T)
      /\ Cardinality(S \cup T) = Cardinality(S) + Cardinality(T) - Cardinality(S \cap T)
  BY FS_Union
<1> QED
  BY <1>1, <1>2, <1>3

\* No page is committed and nothing is counted.
LEMMA BoundQuiet ==
    ASSUME TypeOK, BoundInv,
           UNCHANGED <<arch, held>>,
           \A s \in Scope : /\ job'[s].pc = job[s].pc /\ job'[s].ok = job[s].ok
                            /\ job'[s].fresh = job[s].fresh,
           run'.opt = run.opt, run'.added = run.added,
           \/ run'.phase = run.phase
           \/ run.phase \notin {"idle", "planning", "reading"} /\ run'.phase = "finishing"
           \/ run.phase = "reading" /\ run'.phase = "sweeping"
              /\ \A s \in Scope : job[s].pc \notin Active
    PROVE  BoundInv'
<1>1. Unrecorded' = Unrecorded
  BY DEF Unrecorded
<1>2. SomeJobFailed' = SomeJobFailed
  BY DEF SomeJobFailed
<1>3. Balanced' = Balanced
  BY <1>1 DEF Balanced, Live
<1>4. MaySweep' => MaySweep
  BY <1>2 DEF MaySweep
<1>5. \A s \in Scope : job'[s].pc # "attaching" => job'[s].fresh = 0
  BY DEF BoundInv
<1>6. /\ run'.phase \in {"idle", "planning"} => \A s \in Scope : job'[s].pc = "none"
      /\ run'.phase # "reading" => \A s \in Scope : job'[s].pc \notin Active
  BY DEF BoundInv
<1> QED
  BY <1>1, <1>3, <1>4, <1>5, <1>6 DEF BoundInv

\* A run starts, is planned or ends: no page is in hand.
LEMMA BoundStart ==
    ASSUME TypeOK, TypeOK', BoundInv,
           (\E opt \in Options : StartRun(opt)) \/ Plan \/ EndRun
    PROVE  BoundInv'
<1>1. \A s \in Scope : job'[s].pc \in {"none", "queued"} /\ job'[s].fresh = 0
  <2>1. CASE \E opt \in Options : StartRun(opt)
    BY <2>1 DEF StartRun, BoundInv
  <2>2. CASE Plan \/ EndRun
    BY <2>2 DEF Plan, EndRun, NoJob
  <2> QED
    BY <2>1, <2>2
<1>2. Unrecorded' = {} /\ ~SomeJobFailed'
  BY <1>1 DEF Unrecorded, SomeJobFailed
<1>3. IsFiniteSet(Unrecorded') /\ Cardinality(Unrecorded') = 0
  BY <1>2, FS_EmptySet
<1>4. run'.phase \in {"idle", "planning"} => \A s \in Scope : job'[s].pc = "none"
  <2>1. CASE \E opt \in Options : StartRun(opt)
    BY <2>1 DEF StartRun, BoundInv
  <2>2. CASE Plan
    BY <2>2, BoundNumbers DEF Plan, Run
  <2>3. CASE EndRun
    BY <2>3 DEF EndRun, NoJob
  <2> QED
    BY <2>1, <2>2, <2>3
<1>5. MaySweep' => Balanced'
  <2>1. CASE \E opt \in Options : StartRun(opt)
    <3>1. PICK opt \in Options : StartRun(opt)
      BY <2>1
    <3>2. run'.opt = opt /\ run'.added = 0 /\ Live' = Live
      BY <3>1 DEF StartRun, NoRun, Live
    <3>3. opt.sweep # "never" => held' = Cardinality(Live)
      BY <3>1 DEF StartRun
    <3> QED
      BY <1>3, <3>2, <3>3, BoundNumbers DEF MaySweep, Balanced
  <2>2. CASE Plan
    <3>1. \A s \in Scope : job[s].pc = "none" /\ job[s].fresh = 0
      BY <2>2 DEF Plan, BoundInv
    <3>2. Unrecorded = {} /\ ~SomeJobFailed
      BY <3>1 DEF Unrecorded, SomeJobFailed
    <3>3. /\ run.phase = "planning" /\ run'.opt = run.opt /\ run'.added = run.added
          /\ held' = held /\ Live' = Live
      BY <2>2, BoundNumbers DEF Plan, Run, dbVars, Live
    <3>4. MaySweep' => MaySweep
      BY <3>2, <3>3 DEF MaySweep
    <3> QED
      BY <1>2, <3>2, <3>3, <3>4 DEF BoundInv, Balanced
  <2>3. CASE EndRun
    BY <2>3 DEF EndRun, NoRun, MaySweep
  <2> QED
    BY <2>1, <2>2, <2>3
<1> QED
  BY <1>1, <1>3, <1>4, <1>5 DEF BoundInv, Active

\* A page is committed: what it brings to life is in hand.
LEMMA BoundRead ==
    ASSUME TypeOK, BoundInv, NEW s \in Scope, ReadPage(s)
    PROVE  BoundInv'
<1>1. PICK recs \in SUBSET Rec, last \in BOOLEAN :
        /\ arch' = [r \in Rec |-> IF r \in recs
                                  THEN Upsert(arch[r], far[r].upd, clock)
                                  ELSE arch[r]]
        /\ job' = [job EXCEPT ![s] =
              [@ EXCEPT !.pc = "attaching", !.batch = recs, !.last = last,
                        !.owed = Rest(s, recs),
                        !.fresh = Cardinality({r \in recs : MadeLive(arch[r])})]]
  BY DEF ReadPage
<1> DEFINE New == {r \in recs : MadeLive(arch[r])}
           k   == Cardinality(New)
           In  == {s} \X (1..k)
<1>2. IsFiniteSet(New) /\ k \in Nat
  <2>1. New \in SUBSET Rec
    OBVIOUS
  <2> QED
    BY <2>1, PullAssumption, FS_Subset, CardinalityOfRecords DEF PullAssumption
<1>3. /\ job'[s].pc = "attaching" /\ job'[s].fresh = k /\ job'[s].ok = job[s].ok
      /\ \A t \in Scope \ {s} : job'[t] = job[t]
      /\ job[s].pc = "reading" /\ job[s].fresh = 0
      /\ UNCHANGED <<run, held>>
  BY <1>1, BoundNumbers DEF ReadPage, BoundInv, TypeOK, Job
<1>4. Live' = Live \cup New /\ Live \cap New = {}
  BY <1>1 DEF Live, LiveRow, MadeLive, Upsert, TypeOK, Row
<1>5. Cardinality(Live') = Cardinality(Live) + k
  <2> HIDE DEF New
  <2> QED
    BY <1>2, <1>4, BoundNumbers, DisjointUnion
<1>6. Unrecorded' = Unrecorded \cup In /\ Unrecorded \cap In = {}
  <2>1. ASSUME NEW t \in Scope, NEW n \in Nat
        PROVE  /\ <<t, n>> \in Unrecorded <=> n \in 1..job[t].fresh
               /\ <<t, n>> \in Unrecorded' <=> n \in 1..job'[t].fresh
               /\ <<t, n>> \in In <=> t = s /\ n \in 1..k
    <3> HIDE DEF k
    <3> QED
      BY DEF Unrecorded
  <2>2. /\ Unrecorded \subseteq Scope \X Nat /\ Unrecorded' \subseteq Scope \X Nat
        /\ In \subseteq Scope \X Nat
    BY <1>2 DEF Unrecorded
  <2>3. ASSUME NEW t \in Scope, NEW n \in Nat
        PROVE  /\ <<t, n>> \in Unrecorded' <=> <<t, n>> \in Unrecorded \cup In
               /\ ~(<<t, n>> \in Unrecorded /\ <<t, n>> \in In)
    BY <1>2, <1>3, <2>1
  <2> HIDE DEF In
  <2> QED
    BY <2>2, <2>3
<1>7. IsFiniteSet(In) /\ Cardinality(In) = k
  <2> HIDE DEF k
  <2> QED
    BY <1>2, PairsOf
<1>8. IsFiniteSet(Unrecorded') /\ Cardinality(Unrecorded') = Cardinality(Unrecorded) + k
  <2> HIDE DEF In, k
  <2>1. IsFiniteSet(Unrecorded)
    BY DEF BoundInv
  <2> QED
    BY <1>6, <1>7, <2>1, DisjointUnion
<1>9. MaySweep' => MaySweep
  <2>1. SomeJobFailed => SomeJobFailed'
    BY <1>3 DEF SomeJobFailed
  <2> QED
    BY <1>3, <2>1 DEF MaySweep
<1>10. MaySweep' => Balanced'
  <2>1. Cardinality(Unrecorded) \in Nat
    BY FS_CardinalityType DEF BoundInv
  <2> QED
    BY <1>2, <1>3, <1>5, <1>8, <1>9, <2>1, BoundNumbers DEF BoundInv, Balanced
<1>11. run.phase = "reading"
  BY <1>3 DEF BoundInv, Active
<1> QED
  BY <1>3, <1>8, <1>10, <1>11 DEF BoundInv

\* Its attachments are too: addedThisRun counts it, unless the budget ends the job.
LEMMA BoundAttach ==
    ASSUME TypeOK, BoundInv, NEW s \in Scope, AttachPage(s)
    PROVE  BoundInv'
<1>1. PICK high :
        job' = [job EXCEPT ![s] =
                [@ EXCEPT !.pc = IF run.spent \/ job[s].last THEN "closing"
                                                           ELSE "reading",
                          !.ok = ~run.spent, !.err = run.spent, !.high = high,
                          !.batch = {}, !.fresh = 0, !.last = FALSE]]
  BY DEF AttachPage
<1> DEFINE k   == job[s].fresh
           Out == {s} \X (1..k)
<1>2. /\ job'[s].pc = IF run.spent \/ job[s].last THEN "closing" ELSE "reading"
      /\ job'[s].ok = ~run.spent /\ job'[s].fresh = 0
      /\ \A t \in Scope \ {s} : job'[t] = job[t]
      /\ job[s].pc = "attaching"
      /\ k \in Nat
  BY <1>1, BoundNumbers DEF AttachPage, TypeOK, Job
<1>3. /\ run'.added = run.added + k /\ run'.opt = run.opt /\ run'.phase = run.phase
      /\ UNCHANGED <<arch, held>>
  BY BoundNumbers DEF AttachPage, Run
<1>4. Unrecorded' = Unrecorded \ Out /\ Unrecorded \cap Out = Out
  <2>1. ASSUME NEW t \in Scope, NEW n \in Nat
        PROVE  /\ <<t, n>> \in Unrecorded <=> n \in 1..job[t].fresh
               /\ <<t, n>> \in Unrecorded' <=> n \in 1..job'[t].fresh
               /\ <<t, n>> \in Out <=> t = s /\ n \in 1..k
    BY DEF Unrecorded
  <2>2. /\ Unrecorded \subseteq Scope \X Nat /\ Unrecorded' \subseteq Scope \X Nat
        /\ Out \subseteq Scope \X Nat
    BY <1>2 DEF Unrecorded
  <2>3. ASSUME NEW t \in Scope, NEW n \in Nat
        PROVE  /\ <<t, n>> \in Unrecorded' <=> <<t, n>> \in Unrecorded \ Out
               /\ <<t, n>> \in Out => <<t, n>> \in Unrecorded
    BY <1>2, <2>1
  <2> HIDE DEF Out
  <2> QED
    BY <2>2, <2>3
<1>5. Cardinality(Out) = k
  <2> HIDE DEF k
  <2> QED
    BY <1>2, PairsOf
<1>6. /\ IsFiniteSet(Unrecorded')
      /\ Cardinality(Unrecorded') = Cardinality(Unrecorded) - k
  <2> HIDE DEF Out, k
  <2>1. IsFiniteSet(Unrecorded)
    BY DEF BoundInv
  <2>2. /\ IsFiniteSet(Unrecorded \ Out)
        /\ Cardinality(Unrecorded \ Out)
             = Cardinality(Unrecorded) - Cardinality(Unrecorded \cap Out)
    BY <2>1, FS_Difference
  <2> QED
    BY <1>4, <1>5, <2>2
<1>7. MaySweep' => MaySweep
  <2>1. SomeJobFailed => SomeJobFailed'
    BY <1>2 DEF SomeJobFailed
  <2> QED
    BY <1>3, <2>1 DEF MaySweep
<1>8. MaySweep' => Balanced'
  <2>1. Cardinality(Unrecorded) \in Nat
    BY FS_CardinalityType DEF BoundInv
  <2>2. Live' = Live
    BY <1>3 DEF Live
  <2> QED
    BY <1>2, <1>3, <1>6, <1>7, <2>1, <2>2, BoundNumbers DEF BoundInv, Balanced
<1>9. run.phase = "reading"
  BY <1>2 DEF BoundInv, Active
<1> QED
  BY <1>2, <1>3, <1>6, <1>8, <1>9 DEF BoundInv

\* A step of a job that commits no page: what it had in hand stays uncounted, and
\* then the job has failed.
LEMMA BoundJob ==
    ASSUME TypeOK, BoundInv, NEW s \in Scope, JobStep(s)
    PROVE  BoundInv'
<1>1. CASE ReadPage(s) \/ AttachPage(s)
  BY <1>1, BoundRead, BoundAttach
<1>2. CASE ~ReadPage(s) /\ ~AttachPage(s)
  <2>1. /\ UNCHANGED <<arch, held>>
        /\ run'.phase = run.phase /\ run'.opt = run.opt /\ run'.added = run.added
        /\ \A t \in Scope \ {s} : job'[t] = job[t]
    BY <1>2, BoundNumbers
    DEF JobStep, JobNotStarted, JobStart, PageFails, PageForbidden, Close, CloseFails,
        dbVars, TypeOK, Run
  <2>2. /\ job'[s].pc # "attaching" /\ job'[s].fresh = 0
        /\ job[s].pc = "queued" \/ job[s].pc \in Active
        /\ \/ job'[s].pc \in {"closing", "done"} /\ ~job'[s].ok
           \/ /\ job[s].fresh = 0
              /\ job[s].pc \in {"closing", "done"} => job'[s].ok = job[s].ok
              /\ job[s].pc \in {"closing", "done"} => job'[s].pc \in {"closing", "done"}
    <3>1. CASE JobNotStarted(s)
      BY <3>1 DEF JobNotStarted, Dispatchable, NoJob, TypeOK
    <3>2. CASE JobStart(s)
      BY <3>2 DEF JobStart, Dispatchable, NoJob, TypeOK, BoundInv
    <3>3. CASE PageFails(s)
      BY <3>3, BoundNumbers DEF PageFails, Active, TypeOK, Job
    <3>4. CASE PageForbidden(s)
      BY <3>4, BoundNumbers DEF PageForbidden, Active, TypeOK, Job, BoundInv
    <3>5. CASE Close(s) \/ CloseFails(s)
      <4>1. /\ job[s].pc = "closing" /\ job[s].fresh = 0
            /\ job'[s] \in {Over(job[s]), [Over(job[s]) EXCEPT !.err = TRUE]}
        BY <3>5 DEF Close, CloseFails, TypeOK, BoundInv
      <4>2. /\ Over(job[s]).pc = "done" /\ Over(job[s]).fresh = job[s].fresh
            /\ Over(job[s]).ok = job[s].ok /\ Over(job[s]) \in Job
        BY BoundNumbers, OverType DEF Over, Job
      <4> QED
        BY <4>1, <4>2 DEF Active, Job
    <3> QED
      BY <1>2, <3>1, <3>2, <3>3, <3>4, <3>5 DEF JobStep
  <2>3. Unrecorded' \subseteq Unrecorded
    BY <2>1, <2>2, BoundNumbers DEF Unrecorded
  <2>4. IsFiniteSet(Unrecorded')
    BY <2>3, FS_Subset DEF BoundInv
  <2>5. MaySweep' => MaySweep /\ job[s].fresh = 0
    BY <2>1, <2>2 DEF MaySweep, SomeJobFailed
  <2>6. job[s].fresh = 0 => Unrecorded' = Unrecorded
    BY <2>1, <2>2 DEF Unrecorded
  <2>7. MaySweep' => Balanced'
    BY <2>1, <2>5, <2>6 DEF BoundInv, Balanced, Live
  <2>8. run.phase = "reading"
    <3>1. job[s].pc = "queued" => run.phase = "reading"
      BY DEF JobStep, JobNotStarted, JobStart, Dispatchable, ReadPage, AttachPage,
             PageFails, PageForbidden, Close, CloseFails
    <3> QED
      BY <2>2, <3>1 DEF BoundInv
  <2>9. \A t \in Scope : job'[t].pc # "attaching" => job'[t].fresh = 0
    BY <2>1, <2>2 DEF BoundInv
  <2> QED
    BY <2>1, <2>4, <2>7, <2>8, <2>9 DEF BoundInv
<1> QED
  BY <1>1, <1>2

LEMMA BoundStep ==
    ASSUME TypeOK, TypeOK', BoundInv, [Next]_vars
    PROVE  BoundInv'
<1>1. CASE Environment \/ UNCHANGED vars
  <2>1. UNCHANGED <<arch, held, run>>
    BY <1>1 DEF Environment, Tick, Edit, Publish, Delete, dbVars, vars
  <2>2. \A s \in Scope : /\ job'[s].pc = job[s].pc /\ job'[s].ok = job[s].ok
                         /\ job'[s].fresh = job[s].fresh
    <3>1. ASSUME NEW r \in Rec, Displace(r), job' # job
          PROVE  \A s \in Scope : /\ job'[s].pc = job[s].pc /\ job'[s].ok = job[s].ok
                                  /\ job'[s].fresh = job[s].fresh
      <4>1. PICK owed : job' = [job EXCEPT ![ScopeOf[r]].owed = owed]
        BY <3>1 DEF Displace
      <4> QED
        BY <4>1 DEF TypeOK, Job
    <3> QED
      BY <1>1, <3>1 DEF Environment, Tick, Edit, Publish, Delete, vars
  <2> QED
    BY <2>1, <2>2, BoundQuiet
<1>2. CASE (\E opt \in Options : StartRun(opt)) \/ Plan
  BY <1>2, BoundStart
<1>3. CASE PlanFails \/ FinishRun \/ FinishFails \/ Crash
  BY <1>3, BoundStart DEF PlanFails, FinishRun, FinishFails, Crash
<1>4. CASE \E s \in Scope : JobStep(s)
  BY <1>4, BoundJob
<1>5. CASE ReadingOver \/ Cancel \/ BudgetRunsOut
  <2>1. UNCHANGED <<arch, held, job>>
    BY <1>5 DEF ReadingOver, Cancel, BudgetRunsOut, dbVars
  <2>2. /\ run'.opt = run.opt /\ run'.added = run.added
        /\ \/ run'.phase = run.phase
           \/ run.phase = "reading" /\ run'.phase = "sweeping"
              /\ \A s \in Scope : job[s].pc \notin Active
    BY <1>5, BoundNumbers DEF ReadingOver, Cancel, BudgetRunsOut, Run
  <2> QED
    BY <2>1, <2>2, BoundQuiet
<1>6. CASE NotSwept \/ SweepRefused \/ SweepFails \/ Stamp \/ StampFails
  <2>1. UNCHANGED <<arch, held, job>>
    BY <1>6 DEF NotSwept, SweepRefused, SweepFails, Stamp, StampFails, dbVars
  <2>2. /\ run'.opt = run.opt /\ run'.added = run.added
        /\ run.phase \in {"sweeping", "stamping"} /\ run'.phase = "finishing"
    BY <1>6, BoundNumbers DEF NotSwept, SweepRefused, SweepFails, Stamp, StampFails, Sweeping, Run
  <2> QED
    BY <2>1, <2>2, BoundQuiet
<1>7. CASE SweepApplied
  <2>1. run.phase = "sweeping" /\ run'.phase = "stamping" /\ UNCHANGED job
    BY <1>7, BoundNumbers DEF SweepApplied, Sweeping, Run
  <2>2. Unrecorded' = Unrecorded
    BY <2>1 DEF Unrecorded
  <2> QED
    BY <2>1, <2>2 DEF BoundInv, MaySweep
<1> QED
  BY <1>1, <1>2, <1>3, <1>4, <1>5, <1>6, <1>7 DEF Next, RunStep, Interruption

\* No row but the sweep's loses its liveness.
LEMMA OnlySweepsDelete ==
    ASSUME TypeOK, [Next]_vars, ~SweepApplied
    PROVE  Swept = {}
<1>1. arch \in [Rec -> Row]
  BY DEF TypeOK
<1>2. ASSUME NEW s \in Scope, ReadPage(s), NEW r \in Rec, LiveRow(arch[r])
      PROVE  LiveRow(arch'[r])
  BY <1>1, <1>2 DEF ReadPage, Upsert, LiveRow, Row
<1>3. ASSUME NEW s \in Scope, JobStep(s), ~ReadPage(s)
      PROVE  arch' = arch
  BY <1>3 DEF JobStep, JobNotStarted, JobStart, AttachPage, PageFails, PageForbidden,
              Close, CloseFails, dbVars
<1>4. CASE Environment
  BY <1>4 DEF Environment, Tick, Edit, Publish, Delete, dbVars, Swept
<1>5. CASE \/ \E opt \in Options : StartRun(opt)
           \/ Plan \/ PlanFails \/ ReadingOver
           \/ NotSwept \/ SweepRefused \/ SweepFails
           \/ Stamp \/ StampFails \/ FinishRun \/ FinishFails
           \/ Interruption
  <2>1. arch' = arch
    BY <1>5 DEF StartRun, Plan, PlanFails, ReadingOver, NotSwept, SweepRefused,
                SweepFails, Stamp, StampFails, FinishRun, FinishFails, Interruption,
                Cancel, Crash, BudgetRunsOut, dbVars
  <2> QED
    BY <2>1 DEF Swept
<1>6. ASSUME NEW s \in Scope, JobStep(s)
      PROVE  Swept = {}
  BY <1>2, <1>3, <1>6 DEF Swept
<1>7. CASE UNCHANGED vars
  BY <1>7 DEF vars, dbVars, Swept
<1> QED
  BY <1>4, <1>5, <1>6, <1>7 DEF Next, RunStep

\* A bounded sweep takes at most the allowed share of what the family held before
\* the run, however many workers read how many scopes, whatever pages were
\* committed and not counted when a walk broke off, and however many rows the run
\* itself added or restored (checkSweepBound, addedThisRun, CountUnseen).
THEOREM BoundCorrect == Spec => SweepBounded
<1>1. Init => BoundInv
  <2> SUFFICES ASSUME Init PROVE BoundInv
    OBVIOUS
  <2>1. \A s \in Scope : job[s] = NoJob /\ job[s].fresh = 0 /\ job[s].pc = "none"
    BY DEF Init, NoJob
  <2>2. Unrecorded = {}
    BY <2>1 DEF Unrecorded
  <2> QED
    BY <2>1, <2>2, FS_EmptySet DEF Init, BoundInv, MaySweep, NoRun, Active
<1>2. TypeOK /\ TypeOK' /\ BoundInv /\ [Next]_vars => BoundInv'
  BY BoundStep
<1>3. ASSUME TypeOK, BoundInv, [Next]_vars, run.opt.bounded, held >= MinSweepFloor
      PROVE  Cardinality(Swept) * SweepDen <= SweepNum * held
  <2>0. SweepDen \in Nat /\ SweepNum \in Nat /\ MinSweepFloor \in Nat /\ held \in Nat
    BY <1>3, PullAssumption, BoundNumbers DEF PullAssumption
  <2>1. CASE Swept = {}
    <3>1. Cardinality(Swept) = 0 /\ Cardinality(Swept) * SweepDen = 0
      BY <2>0, <2>1, FS_EmptySet
    <3>2. 0 <= SweepNum * held
      BY <2>0
    <3> QED
      BY <3>1, <3>2
  <2>2. CASE Swept # {}
    <3>1. SweepApplied
      BY <1>3, <2>2, OnlySweepsDelete
    <3>2. PICK s \in Scope : /\ ~BoundExceeded(job[s].start)
                             /\ arch' = [r \in Rec |-> SweptRow(arch[r], job[s].start)]
      BY <3>1 DEF SweepApplied
    <3>3. Swept = UnseenRecords(job[s].start)
      BY <1>3, <3>2 DEF Swept, UnseenRecords, SweptRow, Unseen, LiveRow, TypeOK, Row
    <3>4. MaySweep
      BY <1>3, <3>1 DEF SweepApplied, Sweeping, Sweepable, SweepAsked, ReadCoveredFamily, Results,
                  MaySweep, SomeJobFailed, BoundInv, Active
    <3>5. Unrecorded = {}
      BY <1>3, <3>1 DEF SweepApplied, Sweeping, BoundInv, Active, Unrecorded
    <3>6. Cardinality(Live) - run.added = held
      BY <1>3, <3>4, <3>5, FS_EmptySet, BoundNumbers DEF BoundInv, Balanced
    <3>7. Cardinality(Swept) # 0
      <4>1. Swept \in SUBSET Rec
        BY DEF Swept
      <4>2. IsFiniteSet(Swept)
        BY <4>1, PullAssumption, FS_Subset DEF PullAssumption
      <4> QED
        BY <2>2, <4>2, FS_EmptySet
    <3>8. /\ Cardinality(Swept) \in Nat
          /\ ~(Cardinality(Swept) * SweepDen > SweepNum * held)
      <4>1. Swept \in SUBSET Rec
        BY DEF Swept
      <4> QED
        BY <1>3, <3>2, <3>3, <3>6, <3>7, <4>1, CardinalityOfRecords DEF BoundExceeded
    <3>9. Cardinality(Swept) * SweepDen \in Int /\ SweepNum * held \in Int
      BY <2>0, <3>8
    <3> QED
      BY <3>8, <3>9
  <2> QED
    BY <2>1, <2>2
<1>4. TypeOK /\ BoundInv /\ [Next]_vars =>
        [run.opt.bounded /\ held >= MinSweepFloor
            => Cardinality(Swept) * SweepDen <= SweepNum * held]_vars
  BY <1>3
<1> QED
  BY <1>1, <1>2, <1>4, TypeCorrect, PTL DEF Spec, SweepBounded

----------------------------------------------------------------------------
(* Stamps: the date of a sweep is that of the earliest read of the run, so *)
(* what has to be followed is what the sweep leaves live between its       *)
(* commit and the one of the date.                                         *)

\* Reads began in the past, and none goes on beside a sweep.
ReadsInv ==
    /\ clock >= 1
    /\ reconciled <= clock
    /\ \A s \in Scope :
          /\ job[s].start <= clock
          /\ job[s].pc \in Active \/ job[s].ok => 1 <= job[s].start
          /\ run.phase \in {"sweeping", "stamping"} => job[s].pc \notin Active

\* The first read that ran is that of s, or one that began with it.
First(s) == EarliestSweepStart(job[s].start)

\* Nothing live was last seen before t.
SeenSince(t) == \A r \in Rec : LiveRow(arch[r]) => arch[r].seen >= t

\* Between the sweep and its date: what the sweep left was seen by the reads.
SweptInv ==
    run.phase = "stamping" =>
        \A s \in Scope : First(s) => SeenSince(job[s].start)

StampInv == ReadsInv /\ SweptInv /\ StampHonest

LEMMA StampNumbers ==
    ASSUME TypeOK
    PROVE  /\ clock \in Nat /\ reconciled \in Nat
           /\ \A r \in Rec : arch[r] \in Row /\ arch[r].seen \in Nat
           /\ \A s \in Scope : job[s] \in Job /\ job[s].start \in Nat
  BY DEF TypeOK, FarType, Row, Job

\* Time passes and the far end moves: of a job at most what its pages still owe.
LEMMA StampEnvironment ==
    ASSUME TypeOK, TypeOK', StampInv, Environment
    PROVE  StampInv'
<1> DEFINE Still == \A s \in Scope : /\ job'[s].start = job[s].start
                                     /\ job'[s].pc = job[s].pc
                                     /\ job'[s].ok = job[s].ok
<1>1. /\ UNCHANGED <<dbVars, run>>
      /\ clock' >= clock
      /\ Still
  <2>1. CASE Tick
    BY <2>1, StampNumbers DEF Tick, FarTick
  <2>2. ASSUME NEW r \in Rec, Edit(r)
        PROVE  UNCHANGED <<clock, dbVars, run, job>>
    BY <2>2 DEF Edit, FarEdit
  <2>3. ASSUME NEW r \in Rec, Displace(r)
        PROVE  Still
    <3>1. CASE UNCHANGED job
      BY <3>1
    <3>2. CASE job' # job
      <4>1. PICK owed : job' = [job EXCEPT ![ScopeOf[r]].owed = owed]
        BY <2>3, <3>2 DEF Displace
      <4> QED
        BY <4>1 DEF TypeOK, Job
    <3> QED
      BY <3>1, <3>2
  <2>4. ASSUME NEW r \in Rec, Publish(r) \/ Delete(r)
        PROVE  UNCHANGED <<clock, dbVars, run>> /\ Displace(r)
    BY <2>4 DEF Publish, FarPublish, Delete, FarDelete
  <2> QED
    BY <2>1, <2>2, <2>3, <2>4, StampNumbers DEF Environment
<1>2. ASSUME NEW s \in Scope, First(s)'
      PROVE  First(s)
  BY <1>1, <1>2 DEF First, EarliestSweepStart, Results
<1>3. ReadsInv'
  <2>1. clock' \in Nat
    BY DEF TypeOK, FarType
  <2> QED
    BY <1>1, <2>1, StampNumbers DEF StampInv, ReadsInv, dbVars
<1>4. StampHonest'
  BY <1>1 DEF StampInv, StampHonest, dbVars
<1>5. SweptInv'
  BY <1>1, <1>2 DEF StampInv, SweptInv, SeenSince, dbVars
<1> QED
  BY <1>3, <1>4, <1>5 DEF StampInv

\* A run starts or ends: no job has begun.
LEMMA StampIdle ==
    ASSUME TypeOK, StampInv,
           UNCHANGED <<farVars, arch, reconciled>>,
           \A s \in Scope : job'[s] = NoJob \/ job'[s] = [NoJob EXCEPT !.pc = "queued"],
           run'.phase # "stamping"
    PROVE  StampInv'
<1>1. \A s \in Scope : /\ job'[s].start = 0 /\ ~job'[s].ok
                       /\ job'[s].pc \notin Active
  BY DEF NoJob, Active
<1>2. ReadsInv'
  BY <1>1, StampNumbers DEF StampInv, ReadsInv, farVars
<1>3. StampHonest' /\ SweptInv'
  BY DEF StampInv, StampHonest, SweptInv
<1> QED
  BY <1>2, <1>3 DEF StampInv

\* Neither the jobs nor the archive move, and no sweep is applied.
LEMMA StampQuiet ==
    ASSUME TypeOK, StampInv,
           UNCHANGED <<farVars, arch, reconciled, job>>,
           \/ run'.phase \in {run.phase, "finishing"}
           \/ run'.phase = "sweeping" /\ \A s \in Scope : job[s].pc \notin Active
    PROVE  StampInv'
<1>1. ReadsInv'
  BY DEF StampInv, ReadsInv, farVars
<1>2. StampHonest'
  BY DEF StampInv, StampHonest
<1>3. ASSUME NEW s \in Scope, First(s)'
      PROVE  First(s)
  BY <1>3 DEF First, EarliestSweepStart, Results
<1>4. SweptInv'
  BY <1>3 DEF StampInv, SweptInv, SeenSince
<1> QED
  BY <1>1, <1>2, <1>4 DEF StampInv

\* A step of one job: it begins now or goes on, and what it archives it sees now.
LEMMA StampJob ==
    ASSUME TypeOK, StampInv, NEW s \in Scope, JobStep(s)
    PROVE  StampInv'
<1>1. /\ UNCHANGED <<farVars, reconciled>>
      /\ run'.phase = run.phase
      /\ \A t \in Scope \ {s} : job'[t] = job[t]
  BY StampNumbers
  DEF JobStep, JobNotStarted, JobStart, ReadPage, AttachPage, PageFails, PageForbidden,
      Close, CloseFails, dbVars, TypeOK, Run
<1>2. run.phase \notin {"sweeping", "stamping"}
  <2>1. job[s].pc \in Active \/ run.phase = "reading"
    BY DEF JobStep, JobNotStarted, JobStart, Dispatchable, ReadPage, AttachPage,
           PageFails, PageForbidden, Close, CloseFails, Active
  <2> QED
    BY <2>1 DEF StampInv, ReadsInv
<1>3. \/ job'[s].start = clock
      \/ job'[s].start = 0 /\ job'[s].pc \notin Active /\ ~job'[s].ok
      \/ job[s].pc \in Active /\ job'[s].start = job[s].start
  <2>1. CASE JobNotStarted(s)
    BY <2>1 DEF JobNotStarted, NoJob, TypeOK, Active
  <2>2. CASE JobStart(s)
    BY <2>2 DEF JobStart, NoJob, TypeOK
  <2>3. CASE ReadPage(s)
    BY <2>3, StampNumbers DEF ReadPage, TypeOK, Job, Active
  <2>4. CASE AttachPage(s)
    BY <2>4, StampNumbers DEF AttachPage, TypeOK, Job, Active
  <2>5. CASE PageFails(s)
    BY <2>5, StampNumbers DEF PageFails, TypeOK, Job, Active
  <2>6. CASE PageForbidden(s)
    BY <2>6, StampNumbers DEF PageForbidden, TypeOK, Job, Active
  <2>7. Over(job[s]).start = job[s].start
    BY StampNumbers DEF Over, Job
  <2>8. Over(job[s]) \in Job
    BY StampNumbers, OverType
  <2>9. CASE Close(s) \/ CloseFails(s)
    <3>1. /\ job[s].pc = "closing"
          /\ job'[s] \in {Over(job[s]), [Over(job[s]) EXCEPT !.err = TRUE]}
      BY <2>9 DEF Close, CloseFails, TypeOK
    <3> QED
      BY <3>1, <2>7, <2>8 DEF Job, Active
  <2> QED
    BY <2>1, <2>2, <2>3, <2>4, <2>5, <2>6, <2>9 DEF JobStep
<1>4. ReadsInv'
  BY <1>1, <1>2, <1>3, StampNumbers DEF StampInv, ReadsInv, farVars
<1>5. \A r \in Rec : arch'[r] = arch[r] \/ arch'[r].seen = clock
  <2>1. CASE ReadPage(s)
    BY <2>1, StampNumbers DEF ReadPage, Upsert, Row
  <2>2. CASE ~ReadPage(s)
    BY <2>2 DEF JobStep, JobNotStarted, JobStart, AttachPage, PageFails,
                PageForbidden, Close, CloseFails, dbVars
  <2> QED
    BY <2>1, <2>2
<1>6. StampHonest'
  BY <1>1, <1>5, StampNumbers DEF StampInv, ReadsInv, StampHonest
<1> QED
  BY <1>1, <1>2, <1>4, <1>6 DEF StampInv, SweptInv

\* The sweep deletes what was last seen before the first read, and every read
\* that ran has a beginning.
LEMMA StampSweep ==
    ASSUME TypeOK, StampInv, SweepApplied
    PROVE  StampInv'
<1>1. PICK s \in Scope :
        /\ First(s)
        /\ arch' = [r \in Rec |-> SweptRow(arch[r], job[s].start)]
  BY DEF SweepApplied, First
<1>2. UNCHANGED <<farVars, reconciled, job>> /\ run.phase = "sweeping"
  BY DEF SweepApplied, Sweeping
<1>3. \A t \in Results : 1 <= job[t].start
  BY DEF SweepApplied, Sweepable, ReadCoveredFamily, StampInv, ReadsInv, Results
<1>4. \A r \in Rec : LiveRow(arch'[r]) =>
        arch'[r] = arch[r] /\ LiveRow(arch[r]) /\ arch[r].seen >= job[s].start
  BY <1>1, StampNumbers DEF SweptRow, Unseen, LiveRow, Row
<1>5. ReadsInv'
  BY <1>2 DEF StampInv, ReadsInv, farVars
<1>6. StampHonest'
  BY <1>2, <1>4 DEF StampInv, StampHonest
<1>7. ASSUME NEW t \in Scope, First(t)'
      PROVE  SeenSince(job[t].start)'
  <2>1. First(t)
    BY <1>2, <1>7 DEF First, EarliestSweepStart, Results
  <2>2. job[t].start <= job[s].start
    BY <1>1, <1>3, <2>1, StampNumbers DEF First, EarliestSweepStart, Results
  <2> QED
    BY <1>2, <1>4, <2>2, StampNumbers DEF SeenSince
<1> QED
  BY <1>5, <1>6, <1>7 DEF StampInv, SweptInv

LEMMA StampDated ==
    ASSUME TypeOK, StampInv, Stamp
    PROVE  StampInv'
<1>1. PICK s \in Scope : First(s) /\ reconciled' = job[s].start
  BY DEF Stamp, First
<1>2. UNCHANGED <<farVars, arch, job>> /\ run.phase = "stamping" /\ run'.phase = "finishing"
  BY DEF Stamp, TypeOK, Run
<1>3. ReadsInv'
  BY <1>1, <1>2 DEF StampInv, ReadsInv, farVars
<1>4. StampHonest' /\ SweptInv'
  BY <1>1, <1>2 DEF StampInv, SweptInv, SeenSince, StampHonest
<1> QED
  BY <1>3, <1>4 DEF StampInv

LEMMA StampStep ==
    ASSUME TypeOK, TypeOK', StampInv, [Next]_vars
    PROVE  StampInv'
<1>1. CASE Environment
  BY <1>1, StampEnvironment
<1>2. CASE \/ \E opt \in Options : StartRun(opt)
           \/ Plan \/ PlanFails \/ FinishRun \/ FinishFails \/ Crash
  <2>1. UNCHANGED <<farVars, arch, reconciled>>
    BY <1>2 DEF StartRun, Plan, PlanFails, FinishRun, FinishFails, Crash, dbVars
  <2>2. CASE \E opt \in Options : StartRun(opt)
    <3>1. run'.phase = "planning" /\ job' = job
      BY <2>2 DEF StartRun, NoRun
    <3> QED
      BY <2>1, <2>2, <3>1 DEF StampInv, ReadsInv, StampHonest, SweptInv, farVars
  <2>3. CASE Plan
    BY <2>1, <2>3, StampIdle DEF Plan, TypeOK, Run
  <2>4. CASE PlanFails \/ FinishRun \/ FinishFails \/ Crash
    BY <2>1, <2>4, StampIdle DEF PlanFails, FinishRun, FinishFails, Crash, EndRun, NoRun
  <2> QED
    BY <1>2, <2>2, <2>3, <2>4
<1>3. CASE \E s \in Scope : JobStep(s)
  BY <1>3, StampJob
<1>4. CASE \/ ReadingOver \/ NotSwept \/ SweepRefused \/ SweepFails \/ StampFails
           \/ Cancel \/ BudgetRunsOut
  <2>1. UNCHANGED <<farVars, arch, reconciled, job>>
    BY <1>4 DEF ReadingOver, NotSwept, SweepRefused, SweepFails, StampFails, Cancel,
                BudgetRunsOut, dbVars
  <2>2. \/ run'.phase \in {run.phase, "finishing"}
        \/ run'.phase = "sweeping" /\ \A s \in Scope : job[s].pc \notin Active
    BY <1>4 DEF ReadingOver, NotSwept, SweepRefused, SweepFails, StampFails, Cancel,
                BudgetRunsOut, TypeOK, Run
  <2> QED
    BY <2>1, <2>2, StampQuiet
<1>5. CASE SweepApplied
  BY <1>5, StampSweep
<1>6. CASE Stamp
  BY <1>6, StampDated
<1>7. CASE UNCHANGED vars
  <2>1. UNCHANGED <<farVars, arch, reconciled, job, run>>
    BY <1>7 DEF vars, dbVars
  <2> QED
    BY <2>1, StampQuiet
<1> QED
  BY <1>1, <1>2, <1>3, <1>4, <1>5, <1>6, <1>7 DEF Next, RunStep, Interruption

\* A family that is on record as swept at an instant has nothing live that was
\* last seen before it, whatever fails or is interrupted, and whether or not the
\* service shifts its pages or takes the API away in the middle of a walk
\* (earliestSweepStart, SoftDeleteUnseen, SaveReconcile).
THEOREM StampCorrect == Spec => []StampHonest
<1>1. Init => StampInv
  BY DEF Init, FarInit, StampInv, ReadsInv, SweptInv, StampHonest, NoRun, NoJob, NoRow,
         Active, LiveRow
<1>2. TypeOK /\ TypeOK' /\ StampInv /\ [Next]_vars => StampInv'
  BY StampStep
<1>3. StampInv => StampHonest
  BY DEF StampInv
<1> QED
  BY <1>1, <1>2, <1>3, TypeCorrect, PTL DEF Spec
=============================================================================
