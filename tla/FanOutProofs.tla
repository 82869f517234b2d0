---------------------------- MODULE FanOutProofs ----------------------------
(***************************************************************************)
(* Theorems about FanOut, for any records, scopes and commands.            *)
(***************************************************************************)
EXTENDS FanOut, TLAPS

----------------------------------------------------------------------------
(* Types.                                                                  *)

LEMMA RunFields ==
    ASSUME TypeOK
    PROVE  /\ run \in Run /\ run.phase \in Phases /\ run.opt \in Commands
           /\ run.scopes \subseteq Parents /\ run.owed \subseteq Parents
           /\ run.untried \subseteq Families /\ run.shown \subseteq Families
           /\ run.err \in BOOLEAN /\ run.gone \subseteq Rec /\ run.steady \in BOOLEAN
           /\ run.opt.families \subseteq Families
  BY DEF TypeOK, Run, Commands

LEMMA JobFields ==
    ASSUME TypeOK, NEW s \in Scopes
    PROVE  /\ job[s] \in Job /\ job[s].pc \in JobSteps /\ job[s].full \in BOOLEAN
           /\ job[s].owed \subseteq Rec /\ job[s].asked \subseteq Rec
           /\ job[s].read \subseteq Rec
           /\ job[s].ok \in BOOLEAN /\ job[s].unavailable \in BOOLEAN
  BY DEF TypeOK, Job

LEMMA EmptyTypes == NoRun \in Run /\ NoJob \in Job /\ [NoJob EXCEPT !.pc = "queued"] \in Job
  BY DEF NoRun, Run, Phases, NoCommand, Commands, NoJob, Job, JobSteps

LEMMA InitTypeOK == Init => TypeOK
  BY EmptyTypes DEF Init, TypeOK

\* What the far end does.
LEMMA FarTypeOK ==
    ASSUME TypeOK, NEW r \in Rec, Create(r) \/ Remove(r)
    PROVE  TypeOK'
<1>1. /\ changes' \in Nat /\ there' \subseteq Rec /\ moved' \subseteq Rec /\ calm' \in 0..2
      /\ UNCHANGED <<dbVars, faults>>
  BY DEF Create, Remove, Change, TypeOK
<1>2. run' \in Run
  <2>1. CASE run' = run
    BY <2>1, RunFields
  <2>2. CASE run' # run
    <3>1. PICK more : run' = [run EXCEPT !.gone = @ \cup (Rec \ more), !.steady = FALSE]
      BY <2>2 DEF Create, Remove, Change
    <3> QED
      BY <3>1, RunFields DEF Run
  <2> QED
    BY <2>1, <2>2
<1>3. job' \in [Scopes -> Job]
  <2>1. CASE Create(r)
    <3>1. \A s \in Scopes : [job[s] EXCEPT !.asked = @ \ {r}] \in Job
      BY JobFields DEF Job
    <3> QED
      BY <2>1, <3>1 DEF Create, Untouched
  <2>2. CASE Remove(r) /\ job' # job
    <3>1. PICK missed : job' = [job EXCEPT ![Plain].owed = @ \ {missed}]
      BY <2>2 DEF Remove
    <3>2. [job[Plain] EXCEPT !.owed = @ \ {missed}] \in Job
      BY JobFields DEF Job, Scopes
    <3> QED
      BY <3>1, <3>2 DEF TypeOK
  <2> QED
    BY <2>1, <2>2 DEF TypeOK
<1> QED
  BY <1>1, <1>2, <1>3 DEF TypeOK, dbVars

\* The steps of a run that are not those of one job.
LEMMA PlannedTypes ==
    ASSUME TypeOK, NEW refs \in SUBSET Parents, Planned(refs)
    PROVE  run' \in Run /\ job' \in [Scopes -> Job]
<1>1. CASE run.opt.probe
  <2>1. PICK few \in ProbeScopes(refs) :
          run' = [run EXCEPT !.phase = "probing", !.scopes = few, !.owed = {},
                             !.untried = run.opt.families]
    BY <1>1 DEF Planned
  <2>2. few \subseteq Parents
    BY <2>1 DEF ProbeScopes
  <2> QED
    BY <1>1, <2>1, <2>2, RunFields DEF Planned, Run, Phases, TypeOK
<1>2. CASE ~run.opt.probe
  <2>1. run' \in Run
    BY <1>2, RunFields DEF Planned, Run, Phases
  <2>2. job' \in [Scopes -> Job]
    BY <1>2, EmptyTypes DEF Planned
  <2> QED
    BY <2>1, <2>2
<1> QED
  BY <1>1, <1>2

LEMMA JobTypeOK ==
    ASSUME TypeOK, NEW s \in Scopes, JobStep(s)
    PROVE  TypeOK'
<1>1. \A full : Answer(s, full) \subseteq Rec
  BY DEF Answer, RecordsOf, Rec
<1>2. FullScan(s) \in BOOLEAN
  BY DEF FullScan
<1>3. CASE JobStart(s)
  <2>1. [NoJob EXCEPT !.pc = "reading", !.full = FullScan(s), !.owed = Answer(s, FullScan(s)),
                      !.asked = Answer(s, FullScan(s))] \in Job
    BY <1>1, <1>2, EmptyTypes DEF Job, JobSteps
  <2> QED
    BY <1>3, <2>1 DEF JobStart, farVars, dbVars, TypeOK
<1>4. CASE ReadPage(s)
  <2>1. PICK r \in Answer(s, job[s].full) :
          /\ live' = live \cup {r}
          /\ job' = [job EXCEPT ![s].owed = @ \ {r}, ![s].read = @ \cup {r}]
    BY <1>4 DEF ReadPage
  <2>2. [job[s] EXCEPT !.owed = @ \ {r}, !.read = @ \cup {r}] \in Job
    BY <1>1, <2>1, JobFields DEF Job
  <2>3. job' \in [Scopes -> Job]
    BY <2>1, <2>2 DEF TypeOK
  <2> QED
    BY <1>1, <1>4, <2>1, <2>3 DEF ReadPage, farVars, TypeOK
<1>5. CASE JobEnds(s)
  <2>1. [job[s] EXCEPT !.pc = "done", !.ok = TRUE, !.owed = {}, !.asked = {}] \in Job
    BY JobFields DEF Job, JobSteps
  <2>2. job' \in [Scopes -> Job]
    BY <1>5, <2>1 DEF JobEnds, TypeOK
  <2>3. cursor' \subseteq Scopes /\ moved' \subseteq Rec
    BY <1>5 DEF JobEnds, TypeOK
  <2> QED
    BY <1>5, <2>2, <2>3 DEF JobEnds, TypeOK
<1>6. CASE JobUnavailable(s)
  <2>1. [NoJob EXCEPT !.pc = "done", !.full = job[s].full, !.ok = TRUE, !.unavailable = TRUE] \in Job
    BY JobFields, EmptyTypes DEF Job, JobSteps
  <2>2. job' \in [Scopes -> Job]
    BY <1>6, <2>1 DEF JobUnavailable, TypeOK
  <2> QED
    BY <1>6, <2>2 DEF JobUnavailable, Fault, NoFault, farVars, dbVars, TypeOK
<1>7. CASE JobFails(s)
  <2>1. [job[s] EXCEPT !.pc = "done", !.owed = {}, !.asked = {}] \in Job
    BY JobFields DEF Job, JobSteps
  <2>2. job' \in [Scopes -> Job]
    BY <1>7, <2>1 DEF JobFails, TypeOK
  <2>3. run' \in Run
    BY <1>7, RunFields DEF JobFails, Run
  <2> QED
    BY <1>7, <2>2, <2>3 DEF JobFails, Fault, farVars, dbVars, TypeOK
<1> QED
  BY <1>3, <1>4, <1>5, <1>6, <1>7 DEF JobStep

LEMMA RunTypeOK ==
    ASSUME TypeOK,
           \/ \E opt \in Options : StartRun(opt)
           \/ Plan \/ ListParents \/ ListPage \/ PlanListed \/ PlanFails
           \/ ReadingOver
           \/ \E f \in Families : SweepNot(f) \/ Sweep(f) \/ SweepFails(f)
           \/ \E f \in Families : ProbeFirst(f) \/ ProbeSecond(f) \/ ProbeUntold(f)
           \/ ProbeOver \/ FinishRun \/ Crash
    PROVE  TypeOK'
<1>1. ArchivedRefs \subseteq Parents
  BY DEF ArchivedRefs
<1>2. \A p \in Phases : p \in DOMAIN After => After[p] \in Phases
  BY DEF After, Phases
<1>3. CASE \E opt \in Options : StartRun(opt)
  <2>1. PICK opt \in Options : StartRun(opt)
    BY <1>3
  <2>2. opt \in Commands /\ Rec \ Listed \subseteq Rec
    BY FanOutAssumption DEF FanOutAssumption
  <2>3. run' \in Run
    BY <2>1, <2>2, EmptyTypes DEF StartRun, Run, Phases
  <2> QED
    BY <2>1, <2>3 DEF StartRun, farVars, dbVars, TypeOK
<1>4. CASE Plan \/ PlanListed
  <2>1. run' \in Run /\ job' \in [Scopes -> Job]
    <3>1. \E refs \in SUBSET Parents : Planned(refs)
      BY <1>1, <1>4 DEF Plan, PlanListed
    <3> QED
      BY <3>1, PlannedTypes
  <2> QED
    BY <1>4, <2>1 DEF Plan, PlanListed, farVars, dbVars, TypeOK
<1>5. CASE ListParents
  <2>1. run' \in Run
    BY <1>5, RunFields DEF ListParents, Run, Phases
  <2> QED
    BY <1>5, <2>1 DEF ListParents, farVars, dbVars, TypeOK
<1>6. CASE ListPage
  <2>1. PICK p \in run.owed : live' = live \cup {p} /\ run' = [run EXCEPT !.owed = @ \ {p}]
    BY <1>6 DEF ListPage
  <2>2. run' \in Run /\ live' \subseteq Rec
    BY <2>1, RunFields DEF Run, TypeOK, Rec
  <2> QED
    BY <1>6, <2>2 DEF ListPage, farVars, TypeOK
<1>7. CASE PlanFails \/ FinishRun \/ Crash
  <2>1. run' \in Run /\ job' \in [Scopes -> Job]
    BY <1>7, EmptyTypes DEF PlanFails, FinishRun, Crash, EndRun
  <2>2. calm' \in 0..2 /\ faults' \in Nat
    BY <1>7 DEF PlanFails, FinishRun, Crash, Fault, TypeOK
  <2> QED
    BY <1>7, <2>1, <2>2 DEF PlanFails, FinishRun, Crash, farVars, dbVars, TypeOK
<1>8. CASE ReadingOver \/ ProbeOver
  <2>1. run' \in Run
    BY <1>8, RunFields DEF ReadingOver, ProbeOver, Run, Phases
  <2> QED
    BY <1>8, <2>1 DEF ReadingOver, ProbeOver, farVars, dbVars, TypeOK
<1>9. ASSUME NEW f \in Families, SweepNot(f) \/ Sweep(f) \/ SweepFails(f)
      PROVE  TypeOK'
  <2>1. run.phase \in DOMAIN After
    BY <1>9 DEF SweepNot, Sweep, SweepFails, Sweeping, After, Families
  <2>2. run' \in Run
    BY <1>2, <1>9, <2>1, RunFields DEF SweepNot, Sweep, SweepFails, Run
  <2> QED
    BY <1>9, <2>2 DEF SweepNot, Sweep, SweepFails, Fault, farVars, dbVars, TypeOK
<1>10. ASSUME NEW f \in Families, ProbeFirst(f) \/ ProbeSecond(f) \/ ProbeUntold(f)
       PROVE  TypeOK'
  <2>1. run' \in Run
    BY <1>10, RunFields DEF ProbeFirst, ProbeSecond, ProbeUntold, Run
  <2>2. support' \in [Families -> {"unknown", "honoured", "ignored"}] /\ faults' \in Nat
    BY <1>10 DEF ProbeFirst, ProbeSecond, ProbeUntold, Fault, NoFault, dbVars, TypeOK
  <2> QED
    BY <1>10, <2>1, <2>2 DEF ProbeFirst, ProbeSecond, ProbeUntold, farVars, dbVars, TypeOK
<1> QED
  BY <1>3, <1>4, <1>5, <1>6, <1>7, <1>8, <1>9, <1>10

LEMMA TypeStep ==
    ASSUME TypeOK, [Next]_vars
    PROVE  TypeOK'
<1>1. CASE UNCHANGED vars
  BY <1>1 DEF vars, farVars, dbVars, TypeOK
<1> QED
  BY <1>1, FarTypeOK, JobTypeOK, RunTypeOK DEF Next

\* The two families, the run and its jobs are well typed, whatever the company
\* and the commands do.
THEOREM TypeCorrect == Spec => []TypeOK
<1>1. TypeOK /\ [Next]_vars => TypeOK'
  BY TypeStep
<1> QED
  BY InitTypeOK, <1>1, PTL DEF Spec

----------------------------------------------------------------------------
(* What a sweep of the scoped family takes.                                *)

\* What a run has not been able to list it remembers as gone.
GoneInv == run.phase # "idle" => Rec \ Listed \subseteq run.gone

\* Every scope of the plan has a job for as long as the run reads and sweeps,
\* and no job is under way but while it reads.
Settled == {"sweeping parents", "sweeping children"}

PlanInv ==
    /\ run.phase \in Settled \cup {"reading"} =>
          \A s \in run.scopes : job[s].pc # "none"
    /\ run.phase # "reading" => \A s \in Scopes : job[s].pc \in {"none", "done"}
    /\ run.phase = "idle" => \A s \in Scopes : job[s].pc = "none"

\* A full walk over a scope still owes, or has read, each child it lists that the
\* company has listed all along.
Followed(s) ==
    /\ job[s].pc \in {"queued", "reading"} => ~job[s].ok
    /\ job[s].pc = "reading" /\ job[s].full =>
          \A c \in RecordsOf(s) : c \in run.gone \cup job[s].owed \cup job[s].read
    /\ job[s].pc = "done" /\ job[s].full /\ job[s].ok /\ ~job[s].unavailable =>
          \A c \in RecordsOf(s) : c \in run.gone \cup job[s].read

CoverInv == GoneInv /\ PlanInv /\ \A s \in Parents : Followed(s)

LEMMA ScopeFacts ==
    /\ Plain \notin Parents /\ Parents \subseteq Scopes /\ Plain \in Scopes
    /\ \A s \in Parents : RecordsOf(s) \subseteq Rec /\ FamilyOf(s) = "children"
    /\ \A c \in Children : ParentOf[c] \in Parents /\ c \in RecordsOf(ParentOf[c])
  BY FanOutAssumption DEF FanOutAssumption, Scopes, RecordsOf, FamilyOf, Rec

\* The company changes: a scope's job feels nothing of it, and what is no longer
\* listed counts as gone.
LEMMA FarCover ==
    ASSUME TypeOK, CoverInv, NEW r \in Rec, Create(r) \/ Remove(r)
    PROVE  CoverInv'
<1>1. PICK company : /\ there' = company
                     /\ run' = IF run.phase = "idle" THEN run
                               ELSE [run EXCEPT !.gone = @ \cup (Rec \ ListedIn(company)),
                                                !.steady = FALSE]
  BY DEF Create, Remove, Change
<1>2. /\ run'.phase = run.phase /\ run'.scopes = run.scopes
      /\ run.gone \subseteq run'.gone
      /\ run.phase # "idle" => Rec \ ListedIn(company) \subseteq run'.gone
  BY <1>1, RunFields DEF Run
<1>3. \A s \in Scopes : job'[s].pc = job[s].pc
  BY JobFields DEF Create, Remove, Untouched, TypeOK, Job
<1>4. \A s \in Parents : /\ job'[s].pc = job[s].pc /\ job'[s].full = job[s].full
                         /\ job'[s].owed = job[s].owed /\ job'[s].read = job[s].read
                         /\ job'[s].ok = job[s].ok
                         /\ job'[s].unavailable = job[s].unavailable
  <2>1. CASE job' = Untouched(r)
    BY <2>1, JobFields, ScopeFacts DEF Untouched, Job
  <2>2. CASE \E missed \in Rec : job' = [job EXCEPT ![Plain].owed = @ \ {missed}]
    BY <2>2, ScopeFacts DEF TypeOK
  <2>3. CASE job' = job
    BY <2>3
  <2> QED
    BY <2>1, <2>2, <2>3, JobFields, ScopeFacts DEF Create, Remove
<1>5. GoneInv'
  BY <1>1, <1>2 DEF GoneInv, Listed
<1>6. PlanInv'
  <2>1. \A s \in run.scopes : s \in Scopes
    BY RunFields, ScopeFacts
  <2>2. run'.phase \in Settled \cup {"reading"} =>
           \A s \in run'.scopes : job'[s].pc # "none"
    BY <1>2, <1>3, <2>1 DEF CoverInv, PlanInv
  <2>3. run'.phase # "reading" => \A s \in Scopes : job'[s].pc \in {"none", "done"}
    BY <1>2, <1>3 DEF CoverInv, PlanInv
  <2>4. run'.phase = "idle" => \A s \in Scopes : job'[s].pc = "none"
    BY <1>2, <1>3 DEF CoverInv, PlanInv
  <2> QED
    BY <2>2, <2>3, <2>4 DEF PlanInv, Settled
<1>7. \A s \in Parents : Followed(s)'
  BY <1>2, <1>4 DEF CoverInv, Followed
<1> QED
  BY <1>5, <1>6, <1>7 DEF CoverInv

\* The steps that leave the jobs and the company alone.
LEMMA QuietCover ==
    ASSUME TypeOK, CoverInv,
           UNCHANGED <<there, job>>,
           run'.gone = run.gone, run'.scopes = run.scopes,
           run'.phase = "idle" <=> run.phase = "idle",
           \/ run.phase # "reading" /\ run'.phase \notin Settled \cup {"idle", "reading"}
           \/ run'.phase = run.phase
           \/ run.phase \in Settled /\ run'.phase \in Settled
           \/ run.phase = "reading" /\ \A s \in Scopes : job[s].pc \in {"none", "done"}
    PROVE  CoverInv'
<1>1. GoneInv'
  BY DEF CoverInv, GoneInv, Listed
<1>2. PlanInv'
  <2>1. run'.phase \in Settled \cup {"reading"} =>
           \A s \in run'.scopes : job'[s].pc # "none"
    BY DEF CoverInv, PlanInv, Settled
  <2>2. run'.phase # "reading" => \A s \in Scopes : job'[s].pc \in {"none", "done"}
    BY DEF CoverInv, PlanInv, Settled
  <2>3. run'.phase = "idle" => \A s \in Scopes : job'[s].pc = "none"
    BY DEF CoverInv, PlanInv, Settled
  <2> QED
    BY <2>1, <2>2, <2>3 DEF PlanInv, Settled
<1>3. \A s \in Parents : Followed(s)'
  BY DEF CoverInv, Followed
<1> QED
  BY <1>1, <1>2, <1>3 DEF CoverInv

\* A run begins, is planned or ends: no walk is under way.
LEMMA FreshCover ==
    ASSUME TypeOK, CoverInv, UNCHANGED there,
           \A s \in Scopes : job'[s] = NoJob \/ job'[s] = [NoJob EXCEPT !.pc = "queued"],
           run'.phase \notin Settled,
           run'.phase # "reading" => \A s \in Scopes : job'[s] = NoJob,
           run'.phase # "idle" => Rec \ Listed \subseteq run'.gone,
           run'.phase = "reading" => \A s \in run'.scopes : job'[s].pc # "none"
    PROVE  CoverInv'
<1>1. GoneInv'
  BY DEF GoneInv, Listed
<1>2. PlanInv'
  <2>1. run'.phase # "reading" => \A s \in Scopes : job'[s].pc = "none"
    BY DEF NoJob
  <2>2. run'.phase \in Settled \cup {"reading"} =>
           \A s \in run'.scopes : job'[s].pc # "none"
    OBVIOUS
  <2> QED
    BY <2>1, <2>2 DEF PlanInv, Settled
<1>3. \A s \in Parents : Followed(s)'
  BY ScopeFacts DEF Followed, NoJob
<1> QED
  BY <1>1, <1>2, <1>3 DEF CoverInv

\* A step of a scope's job, in a run that counts as gone what is not listed.
LEMMA FollowedJob ==
    ASSUME TypeOK, TypeOK', NEW s \in Scopes, JobStep(s), Followed(s),
           \A c \in RecordsOf(s) : c \in Listed \/ c \in run.gone
    PROVE  Followed(s)'
<1>1. there' = there /\ run'.gone = run.gone
  BY RunFields DEF JobStep, JobStart, ReadPage, JobEnds, JobUnavailable, JobFails, farVars,
                   Run, TypeOK
<1>2. CASE JobStart(s)
  <2>1. /\ job'[s].pc = "reading" /\ job'[s].full = FullScan(s)
        /\ job'[s].owed = Answer(s, FullScan(s)) /\ ~job'[s].ok
    BY <1>2 DEF JobStart, NoJob, TypeOK
  <2> QED
    BY <1>1, <2>1 DEF Followed, Answer
<1>3. CASE ReadPage(s)
  <2>1. PICK r : job' = [job EXCEPT ![s].owed = @ \ {r}, ![s].read = @ \cup {r}]
    BY <1>3 DEF ReadPage
  <2>2. /\ job'[s].owed = job[s].owed \ {r} /\ job'[s].read = job[s].read \cup {r}
        /\ job'[s].pc = job[s].pc /\ job'[s].full = job[s].full
        /\ job'[s].ok = job[s].ok
    BY <2>1, JobFields DEF TypeOK, Job
  <2>3. job[s].pc = "reading"
    BY <1>3 DEF ReadPage
  <2> QED
    BY <1>1, <2>2, <2>3 DEF Followed
<1>4. CASE JobEnds(s)
  <2>1. /\ job'[s].read = job[s].read /\ job'[s].full = job[s].full
        /\ job'[s].pc = "done" /\ job[s].pc = "reading"
        /\ job[s].owed \cap Listed = {}
    BY <1>4, JobFields DEF JobEnds, TypeOK, Job
  <2> QED
    BY <1>1, <2>1 DEF Followed
<1>5. CASE JobUnavailable(s)
  <2>1. job'[s].pc = "done" /\ job'[s].unavailable
    BY <1>5 DEF JobUnavailable, NoJob, TypeOK
  <2> QED
    BY <2>1 DEF Followed
<1>6. CASE JobFails(s)
  <2>1. /\ job'[s].pc = "done" /\ job'[s].ok = job[s].ok
        /\ job[s].pc \in {"queued", "reading"}
    BY <1>6, JobFields DEF JobFails, TypeOK, Job
  <2> QED
    BY <2>1 DEF Followed
<1> QED
  BY <1>2, <1>3, <1>4, <1>5, <1>6 DEF JobStep

LEMMA JobCover ==
    ASSUME TypeOK, TypeOK', CoverInv, NEW s \in Scopes, JobStep(s)
    PROVE  CoverInv'
<1>1. /\ there' = there /\ run'.phase = run.phase /\ run'.scopes = run.scopes
      /\ run'.gone = run.gone
      /\ \A t \in Scopes \ {s} : job'[t] = job[t]
  BY RunFields DEF JobStep, JobStart, ReadPage, JobEnds, JobUnavailable, JobFails, farVars,
                   Run, TypeOK
<1>2. job[s].pc \in {"queued", "reading"} /\ job'[s].pc \in {"reading", "done"}
  <2>1. CASE JobStart(s) \/ JobUnavailable(s)
    BY <2>1 DEF JobStart, JobUnavailable, NoJob, TypeOK
  <2>2. CASE ReadPage(s)
    <3>1. PICK r : job' = [job EXCEPT ![s].owed = @ \ {r}, ![s].read = @ \cup {r}]
      BY <2>2 DEF ReadPage
    <3> QED
      BY <2>2, <3>1, JobFields DEF ReadPage, TypeOK, Job
  <2>3. CASE JobEnds(s) \/ JobFails(s)
    BY <2>3, JobFields DEF JobEnds, JobFails, TypeOK, Job
  <2> QED
    BY <2>1, <2>2, <2>3 DEF JobStep
<1>3. run.phase = "reading"
  BY <1>2 DEF CoverInv, PlanInv
<1>4. GoneInv'
  BY <1>1 DEF CoverInv, GoneInv, Listed
<1>5. PlanInv'
  <2>1. \A t \in run.scopes : t \in Scopes
    BY RunFields, ScopeFacts
  <2> QED
    BY <1>1, <1>2, <1>3, <2>1 DEF CoverInv, PlanInv, Settled
<1>6. ASSUME s \in Parents
      PROVE  Followed(s)'
  <2>1. \A c \in RecordsOf(s) : c \in Listed \/ c \in run.gone
    BY <1>3, <1>6, ScopeFacts DEF CoverInv, GoneInv
  <2> QED
    BY <1>6, <2>1, FollowedJob DEF CoverInv
<1>7. \A t \in Parents : Followed(t)'
  BY <1>1, <1>6, ScopeFacts DEF CoverInv, Followed
<1> QED
  BY <1>4, <1>5, <1>7 DEF CoverInv

LEMMA CoverStep ==
    ASSUME TypeOK, TypeOK', CoverInv, [Next]_vars
    PROVE  CoverInv'
<1>1. CASE UNCHANGED vars
  <2>1. UNCHANGED <<there, job, run>>
    BY <1>1 DEF vars, farVars
  <2> QED
    BY <2>1, QuietCover
<1>2. ASSUME NEW opt \in Options, StartRun(opt)
      PROVE  CoverInv'
  <2>1. /\ UNCHANGED <<there, job>>
        /\ run'.phase = "planning" /\ run'.gone = Rec \ Listed
    BY <1>2 DEF StartRun, NoRun, farVars
  <2>2. \A s \in Scopes : job[s].pc = "none"
    BY <1>2 DEF StartRun, CoverInv, PlanInv
  <2>3. GoneInv'
    BY <2>1 DEF GoneInv, Listed
  <2>4. PlanInv' /\ \A s \in Parents : Followed(s)'
    BY <2>1, <2>2, ScopeFacts DEF PlanInv, Settled, Followed
  <2> QED
    BY <2>3, <2>4 DEF CoverInv
<1>3. CASE Plan \/ PlanListed
  <2>1. PICK refs \in SUBSET Parents : Planned(refs)
    BY <1>3 DEF Plan, PlanListed, ArchivedRefs
  <2>2. there' = there /\ run.phase \in {"planning", "listing"}
    BY <1>3 DEF Plan, PlanListed, farVars
  <2>3. run'.gone = run.gone
    BY <2>1, RunFields DEF Planned, Run
  <2>4. CASE run.opt.probe
    <3>1. job' = job /\ run'.phase = "probing"
      BY <2>1, <2>4, RunFields DEF Planned, Run
    <3> QED
      BY <2>2, <2>3, <3>1 DEF CoverInv, GoneInv, PlanInv, Followed, Settled, Listed
  <2>5. CASE ~run.opt.probe
    <3>1. run'.phase = "reading" /\ run'.scopes = refs
      BY <2>1, <2>5, RunFields DEF Planned, Run
    <3>2. \A s \in Scopes : job'[s] = NoJob \/ job'[s] = [NoJob EXCEPT !.pc = "queued"]
      BY <2>1, <2>5 DEF Planned
    <3>3. \A s \in refs : job'[s].pc # "none"
      BY <2>1, <2>5, ScopeFacts DEF Planned, NoJob
    <3>4. Rec \ Listed \subseteq run'.gone
      BY <2>2, <2>3 DEF CoverInv, GoneInv
    <3> QED
      BY <2>2, <3>1, <3>2, <3>3, <3>4, FreshCover DEF Settled
  <2> QED
    BY <2>4, <2>5
<1>4. CASE PlanFails \/ FinishRun \/ Crash
  <2>1. there' = there /\ EndRun
    BY <1>4 DEF PlanFails, FinishRun, Crash, farVars
  <2>2. run'.phase = "idle" /\ \A s \in Scopes : job'[s] = NoJob
    BY <2>1 DEF EndRun, NoRun
  <2> QED
    BY <2>1, <2>2, FreshCover DEF Settled
<1>5. ASSUME NEW s \in Scopes, JobStep(s)
      PROVE  CoverInv'
  BY <1>5, JobCover
<1>6. CASE ListParents \/ ListPage \/ ProbeOver
  BY <1>6, RunFields, QuietCover
  DEF ListParents, ListPage, ProbeOver, Settled, farVars, Run, Phases
<1>7. CASE ReadingOver
  BY <1>7, RunFields, QuietCover DEF ReadingOver, farVars, Run, Phases
<1>8. ASSUME NEW f \in Families, SweepNot(f) \/ Sweep(f) \/ SweepFails(f)
      PROVE  CoverInv'
  <2>1. /\ UNCHANGED <<there, job>> /\ run.phase \in Settled
        /\ run'.gone = run.gone /\ run'.scopes = run.scopes
        /\ run'.phase = After[run.phase]
    BY <1>8, RunFields
    DEF SweepNot, Sweep, SweepFails, Sweeping, Settled, farVars, Run
  <2>2. After[run.phase] \in {"sweeping children", "finishing"}
    BY <2>1 DEF After, Settled
  <2> QED
    BY <2>1, <2>2, QuietCover DEF Settled
<1>9. ASSUME NEW f \in Families, ProbeFirst(f) \/ ProbeSecond(f) \/ ProbeUntold(f)
      PROVE  CoverInv'
  <2>1. /\ UNCHANGED <<there, job>> /\ run.phase = "probing"
        /\ run'.gone = run.gone /\ run'.scopes = run.scopes
        /\ run'.phase = run.phase
    BY <1>9, RunFields
    DEF ProbeFirst, ProbeSecond, ProbeUntold, Probing, farVars, Run
  <2> QED
    BY <2>1, QuietCover
<1> QED
  BY <1>1, <1>2, <1>3, <1>4, <1>5, <1>6, <1>7, <1>8, <1>9, FarCover DEF Next

\* No sweep takes a child the company has listed all through the run under a
\* scope of the plan, however many scopes there are, however their jobs
\* interleave and whichever of them fail or answer 404 (plan,
\* readCoveredFamily, SoftDeleteUnseen).
THEOREM SweepOfScopes == Spec => SweptKnownGone
<1>1. Init => CoverInv
  BY ScopeFacts DEF Init, CoverInv, GoneInv, PlanInv, Followed, NoRun, NoJob, Settled
<1>2. TypeOK /\ TypeOK' /\ CoverInv /\ [Next]_vars => CoverInv'
  BY CoverStep
<1>3. ASSUME TypeOK, CoverInv, [Next]_vars, NEW c \in Children, c \in live, c \notin live'
      PROVE  c \in run.gone \/ ParentOf[c] \notin run.scopes
  <2> DEFINE s == ParentOf[c]
  <2>1. PICK f \in Families : Sweep(f)
    <3>1. \A t \in Scopes : JobStep(t) => live \subseteq live'
      BY DEF JobStep, JobStart, ReadPage, JobEnds, JobUnavailable, JobFails, dbVars
    <3> QED
      BY <1>3, <3>1 DEF Next, Create, Remove, Change, StartRun, Plan, ListParents, ListPage,
           PlanListed, PlanFails, ReadingOver, SweepNot, SweepFails, ProbeFirst, ProbeSecond,
           ProbeUntold, ProbeOver, FinishRun, Crash, vars, dbVars
  <2>2. f = "children" /\ c \notin Seen
    BY <1>3, <2>1, FanOutAssumption DEF Sweep, Family, Families, FanOutAssumption
  <2>3. run.phase = "sweeping children" /\ Covered("children")
    BY <2>1, <2>2 DEF Sweep, Sweeping, Swept
  <2>4. CASE s \in run.scopes
    <3>1. s \in Parents /\ s \in Scopes /\ FamilyOf(s) = "children" /\ c \in RecordsOf(s)
      BY ScopeFacts
    <3>2. job[s].pc = "done"
      BY <1>3, <2>3, <2>4, <3>1 DEF CoverInv, PlanInv, Settled
    <3>3. job[s].ok /\ job[s].full /\ ~job[s].unavailable
      BY <2>3, <3>1, <3>2 DEF Covered, Results
    <3>4. c \in run.gone \cup job[s].read
      BY <1>3, <3>1, <3>2, <3>3 DEF CoverInv, Followed
    <3> QED
      BY <2>2, <3>1, <3>4 DEF Seen
  <2> QED
    BY <2>4
<1>4. TypeOK /\ CoverInv /\ [Next]_vars =>
        [\A c \in Children :
           c \in live /\ c \notin live' => c \in run.gone \/ ParentOf[c] \notin run.scopes]_vars
  BY <1>3
<1> QED
  BY <1>1, <1>2, <1>4, TypeCorrect, PTL DEF Spec, SweptKnownGone

----------------------------------------------------------------------------
(* What two clean runs bring about.                                        *)

Walking == Settled \cup {"reading"}

\* Nothing of the last run is left between two runs, and a run that is steady
\* misses only what the company never listed.
SteadyInv ==
    /\ run.phase = "idle" => run = NoRun
    /\ run.steady => run.gone \cap Listed = {}
    /\ run.steady => Followed(Plain)

\* A job has archived what it has read, and has completed unless the run has an
\* error.
Walked(s) ==
    /\ job[s].pc \in {"none", "queued"} => job[s].read = {}
    /\ job[s].pc # "done" => ~job[s].ok
    /\ job[s].pc = "done" => job[s].ok \/ run.err
    /\ run.opt.full /\ (job[s].pc = "reading" \/ job[s].ok) => job[s].full
    /\ job[s].read \subseteq live \cap RecordsOf(s)
    /\ run.steady => job[s].read \subseteq Listed

ParentsKnown  == live \cap Parents = there \cap Parents
ChildrenKnown == live \cap Children = Listed \cap Children
Populated     == there \cap Parents # {}

HasJob(s) ==
    \/ s = Plain /\ "parents" \in run.opt.families
    \/ s \in run.scopes

\* The jobs are those of the plan, and after a clean run the plan holds the scopes
\* the company has.
PlannedInv ==
    /\ run.phase = "listing" => "children" \in run.opt.families
    /\ run.phase \in Walking =>
          /\ \A s \in Scopes : HasJob(s) <=> job[s].pc # "none"
          /\ "children" \notin run.opt.families => run.scopes = {}
          /\ calm >= 1 /\ Populated /\ "children" \in run.opt.families
                => run.scopes = there \cap Parents

\* One clean run leaves the parents known, and the next plan is right; the second
\* leaves the children known.  Each is known when its family has been swept, which
\* is before the run counts.
CalmInv ==
    /\ calm >= 1 => ParentsKnown
    /\ calm = 2 /\ Populated => ChildrenKnown
    /\ calm >= 1 /\ run.phase # "idle" => run.steady
    /\ run.phase = "probing" => run.opt.probe
    /\ run.phase \in {"sweeping children", "finishing"} /\ Clean => ParentsKnown
    /\ run.phase = "finishing" /\ Clean /\ calm >= 1 /\ Populated => ChildrenKnown

MirrorInv == SteadyInv /\ (\A s \in Scopes : Walked(s)) /\ PlannedInv /\ CalmInv

LEMMA ListedFacts ==
    /\ Listed \subseteq there
    /\ Listed \cap Parents = there \cap Parents
    /\ \A s \in Scopes, full \in BOOLEAN : Answer(s, full) \subseteq Listed \cap RecordsOf(s)
    /\ RecordsOf(Plain) = Parents
    /\ \A s \in Parents : RecordsOf(s) \subseteq Children
    /\ Parents \cap Children = {}
    /\ \A c \in Listed \cap Children : ParentOf[c] \in there \cap Parents
  BY FanOutAssumption, ScopeFacts
  DEF FanOutAssumption, Listed, ListedIn, Answer, RecordsOf

\* A step of a run that neither starts nor ends it, of a company that stays.
GoesOn ==
    /\ run.phase # "idle" /\ run'.phase # "idle"
    /\ run'.gone = run.gone /\ run'.steady = run.steady /\ run'.opt = run.opt
    /\ run.err => run'.err

LEMMA RunGoesOn ==
    ASSUME TypeOK, CoverInv,
           \/ Plan \/ ListParents \/ ListPage \/ PlanListed
           \/ \E s \in Scopes : JobStep(s)
           \/ ReadingOver
           \/ \E f \in Families : SweepNot(f) \/ Sweep(f) \/ SweepFails(f)
           \/ \E f \in Families : ProbeFirst(f) \/ ProbeSecond(f) \/ ProbeUntold(f)
           \/ ProbeOver
    PROVE  GoesOn
<1> USE DEF GoesOn
<1>1. CASE Plan \/ PlanListed
  <2>1. PICK refs : Planned(refs)
    BY <1>1 DEF Plan, PlanListed
  <2>2. /\ run'.phase \in {"probing", "reading"}
        /\ run'.gone = run.gone /\ run'.steady = run.steady /\ run'.opt = run.opt
        /\ run'.err = run.err
    BY <2>1, RunFields DEF Planned, Run
  <2>3. run.phase # "idle"
    BY <1>1 DEF Plan, PlanListed
  <2> QED
    BY <2>2, <2>3
<1>2. CASE ListParents \/ ListPage \/ ReadingOver \/ ProbeOver
  BY <1>2, RunFields DEF ListParents, ListPage, ReadingOver, ProbeOver, Run
<1>3. ASSUME NEW s \in Scopes, JobStep(s)
      PROVE  GoesOn
  <2>1. run.phase # "idle"
    BY <1>3 DEF CoverInv, PlanInv, JobStep, JobStart, ReadPage, JobEnds, JobUnavailable,
                JobFails
  <2> QED
    BY <1>3, <2>1, RunFields
    DEF JobStep, JobStart, ReadPage, JobEnds, JobUnavailable, JobFails, Run
<1>4. ASSUME NEW f \in Families, SweepNot(f) \/ Sweep(f) \/ SweepFails(f)
      PROVE  GoesOn
  <2>1. run.phase \in Settled /\ After[run.phase] # "idle"
    BY <1>4 DEF SweepNot, Sweep, SweepFails, Sweeping, Settled, After
  <2>2. \/ run' = [run EXCEPT !.phase = After[run.phase]]
        \/ run' = [run EXCEPT !.phase = After[run.phase], !.err = TRUE]
    BY <1>4 DEF SweepNot, Sweep, SweepFails
  <2>3. /\ run'.phase = After[run.phase] /\ run'.gone = run.gone
        /\ run'.steady = run.steady /\ run'.opt = run.opt
    BY <2>2, RunFields DEF Run
  <2>4. run'.err = run.err \/ run'.err = TRUE
    BY <2>2, RunFields DEF Run
  <2> QED
    BY <2>1, <2>3, <2>4 DEF Settled
<1>5. ASSUME NEW f \in Families, ProbeFirst(f) \/ ProbeSecond(f) \/ ProbeUntold(f)
      PROVE  GoesOn
  BY <1>5, RunFields DEF ProbeFirst, ProbeSecond, ProbeUntold, Probing, Run
<1> QED
  BY <1>1, <1>2, <1>3, <1>4, <1>5

\* Whatever is not a change of the company leaves it alone, and starts the run,
\* ends it or goes on with it.
LEMMA Steps ==
    ASSUME TypeOK, CoverInv, [Next]_vars
    PROVE  \/ \E r \in Rec : Create(r) \/ Remove(r)
           \/ /\ there' = there /\ Listed' = Listed
              /\ \/ UNCHANGED vars
                 \/ \E opt \in Options : StartRun(opt)
                 \/ EndRun
                 \/ GoesOn
<1>1. ASSUME NEW s \in Scopes, JobStep(s)
      PROVE  there' = there
  BY <1>1 DEF JobStep, JobStart, ReadPage, JobEnds, JobUnavailable, JobFails, farVars
<1>2. CASE \/ \E opt \in Options : StartRun(opt)
           \/ Plan \/ ListParents \/ ListPage \/ PlanListed \/ PlanFails
           \/ ReadingOver
           \/ \E f \in Families : SweepNot(f) \/ Sweep(f) \/ SweepFails(f)
           \/ \E f \in Families : ProbeFirst(f) \/ ProbeSecond(f) \/ ProbeUntold(f)
           \/ ProbeOver \/ FinishRun \/ Crash \/ UNCHANGED vars
  <2>1. there' = there
    BY <1>2 DEF StartRun, Plan, ListParents, ListPage, PlanListed, PlanFails, ReadingOver,
         SweepNot, Sweep, SweepFails, ProbeFirst, ProbeSecond, ProbeUntold, ProbeOver,
         FinishRun, Crash, farVars, vars
  <2> QED
    BY <1>2, <2>1, RunGoesOn DEF Listed, PlanFails, FinishRun, Crash
<1> QED
  BY <1>1, <1>2, RunGoesOn DEF Next, Listed

\* The company changes: a run that goes on is not steady any more.
LEMMA Unsteady ==
    ASSUME TypeOK, SteadyInv, NEW r \in Rec, Create(r) \/ Remove(r)
    PROVE  /\ ~run'.steady /\ run'.phase = run.phase /\ run'.opt = run.opt
           /\ run'.scopes = run.scopes /\ run'.err = run.err
           /\ run.phase = "idle" => run' = run
           /\ calm' = 0 /\ live' = live
<1>1. PICK company :
        run' = IF run.phase = "idle" THEN run
               ELSE [run EXCEPT !.gone = @ \cup (Rec \ ListedIn(company)), !.steady = FALSE]
  BY DEF Create, Remove, Change
<1>2. run.phase = "idle" => ~run.steady
  BY DEF SteadyInv, NoRun
<1>3. calm' = 0 /\ live' = live
  BY DEF Create, Remove, Change, dbVars
<1> QED
  BY <1>1, <1>2, <1>3, RunFields DEF Run

LEMMA SteadyStep ==
    ASSUME TypeOK, TypeOK', CoverInv, SteadyInv, [Next]_vars
    PROVE  SteadyInv'
<1>1. CASE \E r \in Rec : Create(r) \/ Remove(r)
  BY <1>1, Unsteady DEF SteadyInv
<1>2. CASE EndRun
  BY <1>2 DEF EndRun, SteadyInv, NoRun
<1>3. ASSUME NEW opt \in Options, StartRun(opt), Listed' = Listed
      PROVE  SteadyInv'
  <2>1. run'.phase = "planning" /\ run'.gone = Rec \ Listed /\ job' = job
    BY <1>3 DEF StartRun, NoRun
  <2>2. job[Plain].pc = "none"
    BY <1>3, ScopeFacts DEF StartRun, CoverInv, PlanInv
  <2> QED
    BY <1>3, <2>1, <2>2 DEF SteadyInv, Followed
<1>4. CASE UNCHANGED vars
  <2>1. UNCHANGED <<there, run, job>>
    BY <1>4 DEF vars, farVars
  <2> QED
    BY <2>1 DEF SteadyInv, Followed, Listed
<1>5. CASE GoesOn /\ Listed' = Listed /\ \A r \in Rec : ~Create(r) /\ ~Remove(r)
  <2>1. run'.steady => Followed(Plain)
    BY <1>5 DEF GoesOn, SteadyInv
  <2>2. ASSUME Followed(Plain)
        PROVE  Followed(Plain)'
    <3>1. CASE JobStep(Plain)
      <4>1. \A c \in RecordsOf(Plain) : c \in Listed \/ c \in run.gone
        BY <1>5, ListedFacts DEF GoesOn, CoverInv, GoneInv, Rec
      <4> QED
        BY <2>2, <3>1, <4>1, ScopeFacts, FollowedJob
    <3>2. CASE job'[Plain] = job[Plain]
      BY <1>5, <2>2, <3>2 DEF GoesOn, Followed
    <3>3. CASE \E refs : Planned(refs) /\ job' # job
      <4>1. job'[Plain] = NoJob \/ job'[Plain] = [NoJob EXCEPT !.pc = "queued"]
        BY <3>3, ScopeFacts DEF Planned
      <4> QED
        BY <4>1 DEF Followed, NoJob
    <3>4. ASSUME NEW s \in Scopes, JobStep(s), s # Plain
          PROVE  job'[Plain] = job[Plain]
      BY <3>4, ScopeFacts
      DEF JobStep, JobStart, ReadPage, JobEnds, JobUnavailable, JobFails, TypeOK
    <3>5. CASE \/ ListParents \/ ListPage \/ ReadingOver
               \/ \E f \in Families : SweepNot(f) \/ Sweep(f) \/ SweepFails(f)
               \/ \E f \in Families : ProbeFirst(f) \/ ProbeSecond(f) \/ ProbeUntold(f)
               \/ ProbeOver
      BY <3>2, <3>5 DEF ListParents, ListPage, ReadingOver, SweepNot, Sweep, SweepFails,
                        ProbeFirst, ProbeSecond, ProbeUntold, ProbeOver
    <3>6. CASE Plan \/ PlanListed
      BY <3>2, <3>3, <3>6 DEF Plan, PlanListed
    <3>7. ~(\E opt \in Options : StartRun(opt)) /\ ~PlanFails /\ ~FinishRun /\ ~Crash
      <4>1. ~EndRun
        BY <1>5 DEF GoesOn, EndRun, NoRun
      <4> QED
        BY <1>5, <4>1 DEF GoesOn, StartRun, PlanFails, FinishRun, Crash
    <3>8. CASE UNCHANGED vars
      BY <3>2, <3>8 DEF vars
    <3> QED
      BY <1>5, <3>1, <3>2, <3>4, <3>5, <3>6, <3>7, <3>8 DEF Next
  <2> QED
    BY <1>5, <2>1, <2>2 DEF GoesOn, SteadyInv
<1> QED
  BY <1>1, <1>2, <1>3, <1>4, <1>5, Steps

\* No job moves, and no row a job has read goes.
LEMMA WalkedQuiet ==
    ASSUME TypeOK, NEW s \in Scopes, Walked(s),
           job'[s].pc = job[s].pc, job'[s].ok = job[s].ok, job'[s].full = job[s].full,
           job'[s].read = job[s].read,
           job[s].read \subseteq live',
           run'.opt = run.opt, run.err => run'.err,
           run'.steady => run.steady /\ Listed' = Listed
    PROVE  Walked(s)'
<1>1. job[s].read \subseteq RecordsOf(s)
  BY DEF Walked
<1>2. run'.steady => job'[s].read \subseteq Listed'
  BY DEF Walked
<1> QED
  BY <1>1, <1>2 DEF Walked

\* A job that has not begun.
LEMMA WalkedFresh ==
    ASSUME NEW s \in Scopes, job'[s] = NoJob \/ job'[s] = [NoJob EXCEPT !.pc = "queued"]
    PROVE  Walked(s)'
  BY DEF Walked, NoJob

LEMMA WalkedJob ==
    ASSUME TypeOK, NEW s \in Scopes, Walked(s), JobStep(s), Listed' = Listed,
           run'.steady = run.steady, run'.opt = run.opt
    PROVE  Walked(s)'
<1>1. CASE JobStart(s)
  <2>1. /\ job'[s].pc = "reading" /\ job'[s].full = FullScan(s) /\ job'[s].read = {}
        /\ ~job'[s].ok
    BY <1>1 DEF JobStart, NoJob, TypeOK
  <2> QED
    BY <2>1 DEF Walked, FullScan
<1>2. CASE ReadPage(s)
  <2>1. PICK r \in Answer(s, job[s].full) :
          /\ live' = live \cup {r}
          /\ job' = [job EXCEPT ![s].owed = @ \ {r}, ![s].read = @ \cup {r}]
    BY <1>2 DEF ReadPage
  <2>2. /\ job'[s].pc = job[s].pc /\ job'[s].ok = job[s].ok /\ job'[s].full = job[s].full
        /\ job'[s].read = job[s].read \cup {r} /\ job[s].pc = "reading"
    BY <1>2, <2>1, JobFields DEF ReadPage, TypeOK, Job
  <2>3. r \in Listed /\ r \in RecordsOf(s)
    BY <2>1 DEF Answer
  <2>4. /\ job'[s].read \subseteq live' \cap RecordsOf(s)
        /\ run'.steady => job'[s].read \subseteq Listed'
    BY <2>1, <2>2, <2>3 DEF Walked
  <2> QED
    BY <2>2, <2>4 DEF Walked
<1>3. CASE JobEnds(s)
  <2>1. /\ job'[s].pc = "done" /\ job'[s].ok /\ job'[s].full = job[s].full
        /\ job'[s].read = job[s].read /\ job[s].pc = "reading" /\ live' = live
    BY <1>3, JobFields DEF JobEnds, TypeOK, Job
  <2> QED
    BY <2>1 DEF Walked
<1>4. CASE JobUnavailable(s)
  <2>1. /\ job'[s].pc = "done" /\ job'[s].ok /\ job'[s].full = job[s].full
        /\ job'[s].read = {} /\ job[s].pc = "reading"
    BY <1>4 DEF JobUnavailable, NoJob, TypeOK
  <2> QED
    BY <2>1 DEF Walked
<1>5. CASE JobFails(s)
  <2>1. /\ job'[s].pc = "done" /\ job'[s].ok = job[s].ok /\ job'[s].full = job[s].full
        /\ job'[s].read = job[s].read /\ job[s].pc # "done" /\ live' = live /\ run'.err
    BY <1>5, JobFields, RunFields DEF JobFails, TypeOK, Job, Run, dbVars
  <2> QED
    BY <2>1 DEF Walked
<1> QED
  BY <1>1, <1>2, <1>3, <1>4, <1>5 DEF JobStep

LEMMA WalkedStep ==
    ASSUME TypeOK, TypeOK', CoverInv, SteadyInv, \A s \in Scopes : Walked(s), [Next]_vars
    PROVE  \A s \in Scopes : Walked(s)'
<1> SUFFICES ASSUME NEW s \in Scopes
             PROVE  Walked(s)'
  OBVIOUS
<1>1. ASSUME NEW r \in Rec, Create(r) \/ Remove(r)
      PROVE  Walked(s)'
  <2>1. /\ job'[s].pc = job[s].pc /\ job'[s].ok = job[s].ok /\ job'[s].full = job[s].full
        /\ job'[s].read = job[s].read
    <3>1. CASE job' = Untouched(r)
      BY <3>1, JobFields DEF Untouched, Job
    <3>2. CASE \E missed \in Rec : job' = [job EXCEPT ![Plain].owed = @ \ {missed}]
      BY <3>2, JobFields, ScopeFacts DEF TypeOK, Job
    <3>3. CASE job' = job
      BY <3>3
    <3> QED
      BY <1>1, <3>1, <3>2, <3>3, JobFields, ScopeFacts DEF Create, Remove
  <2>2. job[s].read \subseteq live'
    BY <1>1, Unsteady DEF Walked
  <2> QED
    BY <1>1, <2>1, <2>2, Unsteady, WalkedQuiet
<1>2. CASE EndRun
  BY <1>2, WalkedFresh DEF EndRun
<1>3. ASSUME NEW opt \in Options, StartRun(opt)
      PROVE  Walked(s)'
  <2>1. job'[s].pc = "none" /\ job'[s] = job[s]
    BY <1>3 DEF StartRun, CoverInv, PlanInv
  <2>2. job[s].read = {} /\ ~job[s].ok
    BY <2>1 DEF Walked
  <2> QED
    BY <2>1, <2>2 DEF Walked
<1>4. CASE UNCHANGED vars
  <2>1. UNCHANGED <<there, live, run, job>>
    BY <1>4 DEF vars, farVars, dbVars
  <2> QED
    BY <2>1 DEF Walked, Listed
<1>5. CASE GoesOn /\ Listed' = Listed /\ \A r \in Rec : ~Create(r) /\ ~Remove(r)
  <2>1. /\ run'.steady = run.steady /\ run'.opt = run.opt
        /\ run.err => run'.err
    BY <1>5 DEF GoesOn
  <2>2. CASE JobStep(s)
    BY <1>5, <2>1, <2>2, WalkedJob
  <2>3. CASE job'[s] = job[s] /\ job[s].read \subseteq live'
    BY <1>5, <2>1, <2>3, WalkedQuiet
  <2>4. live \subseteq live' => job[s].read \subseteq live'
    BY DEF Walked
  <2>5. ASSUME NEW o \in Scopes, JobStep(o), o # s
        PROVE  job'[s] = job[s] /\ live \subseteq live'
    BY <2>5 DEF JobStep, JobStart, ReadPage, JobEnds, JobUnavailable, JobFails, TypeOK, dbVars
  <2>6. CASE Plan \/ PlanListed
    <3>1. live' = live
      BY <2>6 DEF Plan, PlanListed, dbVars
    <3>2. job' = job \/ job'[s] = NoJob \/ job'[s] = [NoJob EXCEPT !.pc = "queued"]
      BY <2>6 DEF Plan, PlanListed, Planned
    <3> QED
      BY <2>3, <2>4, <3>1, <3>2, WalkedFresh
  <2>7. CASE ListParents \/ ListPage \/ ReadingOver \/ ProbeOver
    BY <2>3, <2>4, <2>7 DEF ListParents, ListPage, ReadingOver, ProbeOver, dbVars
  <2>8. CASE \E f \in Families : ProbeFirst(f) \/ ProbeSecond(f) \/ ProbeUntold(f)
    BY <2>3, <2>4, <2>8 DEF ProbeFirst, ProbeSecond, ProbeUntold, dbVars
  <2>9. CASE \E f \in Families : SweepNot(f) \/ Sweep(f) \/ SweepFails(f)
    <3>1. job' = job
      BY <2>9 DEF SweepNot, Sweep, SweepFails
    <3>2. job[s].read \subseteq live'
      BY <2>9 DEF SweepNot, Sweep, SweepFails, dbVars, Walked, Seen
    <3> QED
      BY <2>3, <3>1, <3>2
  <2>10. CASE UNCHANGED vars
    BY <1>4, <2>10
  <2>11. ~(\E opt \in Options : StartRun(opt)) /\ ~PlanFails /\ ~FinishRun /\ ~Crash
    <3>1. ~EndRun
      BY <1>5 DEF GoesOn, EndRun, NoRun
    <3> QED
      BY <1>5, <3>1 DEF GoesOn, StartRun, PlanFails, FinishRun, Crash
  <2> QED
    BY <1>5, <2>2, <2>3, <2>4, <2>5, <2>6, <2>7, <2>8, <2>9, <2>10, <2>11 DEF Next
<1> QED
  BY <1>1, <1>2, <1>3, <1>4, <1>5, Steps

LEMMA PlannedStep ==
    ASSUME TypeOK, TypeOK', CoverInv, MirrorInv, [Next]_vars
    PROVE  PlannedInv'
<1>1. ASSUME NEW r \in Rec, Create(r) \/ Remove(r)
      PROVE  PlannedInv'
  <2>1. \A s \in Scopes : job'[s].pc = job[s].pc
    BY <1>1, JobFields DEF Create, Remove, Untouched, TypeOK, Job
  <2> QED
    BY <1>1, <2>1, Unsteady DEF MirrorInv, PlannedInv, HasJob
<1>2. CASE EndRun
  BY <1>2 DEF EndRun, NoRun, PlannedInv, Walking, Settled
<1>3. ASSUME NEW opt \in Options, StartRun(opt)
      PROVE  PlannedInv'
  BY <1>3 DEF StartRun, NoRun, PlannedInv, Walking, Settled
<1>4. CASE Plan \/ PlanListed
  <2>1. /\ there' = there /\ calm' = calm /\ run.phase \in {"planning", "listing"}
    BY <1>4 DEF Plan, PlanListed, farVars
  <2>2. PICK refs \in SUBSET Parents :
          /\ Planned(refs)
          /\ "children" \in run.opt.families => refs = ArchivedRefs
          /\ "children" \notin run.opt.families => refs = {}
    BY <1>4 DEF Plan, PlanListed, ArchivedRefs, MirrorInv, PlannedInv
  <2>3. CASE run.opt.probe
    <3>1. run'.phase = "probing"
      BY <2>2, <2>3, RunFields DEF Planned, Run
    <3> QED
      BY <3>1 DEF PlannedInv, Walking, Settled
  <2>4. CASE ~run.opt.probe
    <3>1. run'.phase = "reading" /\ run'.scopes = refs /\ run'.opt = run.opt
      BY <2>2, <2>4, RunFields DEF Planned, Run
    <3>2. \A s \in Scopes : HasJob(s)' <=> job'[s].pc # "none"
      BY <2>2, <2>4, <3>1 DEF Planned, HasJob, NoJob
    <3>3. calm >= 1 => ArchivedRefs = there \cap Parents
      BY DEF MirrorInv, CalmInv, ParentsKnown, ArchivedRefs
    <3> QED
      BY <2>1, <2>2, <3>1, <3>2, <3>3 DEF PlannedInv, Populated
  <2> QED
    BY <2>3, <2>4
<1>5. ASSUME NEW s \in Scopes, JobStep(s)
      PROVE  PlannedInv'
  <2>1. /\ there' = there /\ calm' = calm /\ run'.phase = run.phase
        /\ run'.scopes = run.scopes /\ run'.opt = run.opt
        /\ \A t \in Scopes \ {s} : job'[t] = job[t]
    BY <1>5, RunFields DEF JobStep, JobStart, ReadPage, JobEnds, JobUnavailable, JobFails,
                           farVars, Run, TypeOK
  <2>2. job[s].pc # "none" /\ job'[s].pc # "none"
    <3>1. CASE JobStart(s) \/ JobUnavailable(s)
      BY <3>1 DEF JobStart, JobUnavailable, NoJob, TypeOK
    <3>2. CASE JobEnds(s) \/ JobFails(s)
      BY <3>2, JobFields DEF JobEnds, JobFails, TypeOK, Job
    <3>3. CASE ReadPage(s)
      <4>1. PICK r : job' = [job EXCEPT ![s].owed = @ \ {r}, ![s].read = @ \cup {r}]
        BY <3>3 DEF ReadPage
      <4> QED
        BY <3>3, <4>1, JobFields DEF ReadPage, TypeOK, Job
    <3> QED
      BY <1>5, <3>1, <3>2, <3>3 DEF JobStep
  <2> QED
    BY <2>1, <2>2 DEF MirrorInv, PlannedInv, HasJob, Populated
<1>6. CASE \/ ListParents \/ ListPage \/ ReadingOver \/ ProbeOver
           \/ \E f \in Families : SweepNot(f) \/ Sweep(f) \/ SweepFails(f)
           \/ \E f \in Families : ProbeFirst(f) \/ ProbeSecond(f) \/ ProbeUntold(f)
           \/ UNCHANGED vars
  <2>1. UNCHANGED <<there, calm, job>>
    BY <1>6 DEF ListParents, ListPage, ReadingOver, ProbeOver, SweepNot, Sweep, SweepFails,
                ProbeFirst, ProbeSecond, ProbeUntold, farVars, vars
  <2>2. /\ run'.scopes = run.scopes /\ run'.opt = run.opt
        /\ run'.phase \in Walking => run.phase \in Walking
        /\ run'.phase = "listing" => run.phase = "listing" \/ "children" \in run.opt.families
    <3>1. CASE ListParents \/ ListPage \/ ReadingOver \/ ProbeOver
      BY <3>1, RunFields
      DEF ListParents, ListPage, ReadingOver, ProbeOver, Walking, Settled, Run
    <3>2. ASSUME NEW f \in Families, SweepNot(f) \/ Sweep(f) \/ SweepFails(f)
          PROVE  /\ run'.scopes = run.scopes /\ run'.opt = run.opt
                 /\ run.phase \in Walking /\ run'.phase # "listing"
      <4>1. run.phase \in Settled /\ After[run.phase] # "listing"
        BY <3>2 DEF SweepNot, Sweep, SweepFails, Sweeping, Settled, After
      <4>2. \/ run' = [run EXCEPT !.phase = After[run.phase]]
            \/ run' = [run EXCEPT !.phase = After[run.phase], !.err = TRUE]
        BY <3>2 DEF SweepNot, Sweep, SweepFails
      <4> QED
        BY <4>1, <4>2, RunFields DEF Run, Walking
    <3>3. ASSUME NEW f \in Families, ProbeFirst(f) \/ ProbeSecond(f) \/ ProbeUntold(f)
          PROVE  /\ run'.scopes = run.scopes /\ run'.opt = run.opt
                 /\ run'.phase = run.phase
      BY <3>3, RunFields DEF ProbeFirst, ProbeSecond, ProbeUntold, Run
    <3>4. CASE UNCHANGED vars
      BY <3>4 DEF vars
    <3> QED
      BY <1>6, <3>1, <3>2, <3>3, <3>4
  <2> QED
    BY <2>1, <2>2 DEF MirrorInv, PlannedInv, HasJob, Populated
<1> QED
  BY <1>1, <1>2, <1>3, <1>4, <1>5, <1>6
  DEF Next, PlanFails, FinishRun, Crash

\* Before any sweep of a run, and when none is going on, listed rows at most are
\* added.
LEMMA CalmGrows ==
    ASSUME TypeOK, CalmInv,
           there' = there, Listed' = Listed, calm' = calm,
           live \subseteq live', live' \subseteq live \cup Listed,
           run'.phase \notin {"probing", "sweeping children", "finishing"},
           calm >= 1 /\ run'.phase # "idle" => run'.steady
    PROVE  CalmInv'
<1>1. ParentsKnown => ParentsKnown'
  BY ListedFacts DEF ParentsKnown
<1>2. ChildrenKnown => ChildrenKnown'
  BY DEF ChildrenKnown
<1>3. Populated' = Populated
  BY DEF Populated
<1> QED
  BY <1>1, <1>2, <1>3 DEF CalmInv

\* A completed full walk of a steady run has read all its scope lists.
LEMMA ReadAll ==
    ASSUME TypeOK, CoverInv, SteadyInv, run.steady, NEW s \in Scopes,
           job[s].pc = "done", job[s].ok, job[s].full, ~job[s].unavailable
    PROVE  RecordsOf(s) \cap Listed \subseteq job[s].read
<1>1. Followed(s)
  BY DEF CoverInv, SteadyInv, Scopes
<1> QED
  BY <1>1 DEF Followed, SteadyInv

\* A clean run sweeps a family none of whose scopes is gone.
LEMMA CleanSwept ==
    ASSUME TypeOK, MirrorInv, Clean, NEW f \in Families, Results(f) # {},
           \A s \in Results(f) : s \notin Parents \ there
    PROVE  Swept(f)
  BY DEF Clean, Swept, Covered, Results, MirrorInv, Walked

\* The sweep of the parents in a steady run leaves those of the company.
LEMMA ParentsSwept ==
    ASSUME TypeOK, CoverInv, MirrorInv, run.steady, Sweep("parents")
    PROVE  ParentsKnown' /\ live' \cap Children = live \cap Children
<1>1. /\ live' = {r \in live : r \in Parents => r \in Seen}
      /\ there' = there /\ Results("parents") # {} /\ Covered("parents")
  BY DEF Sweep, Swept, Family, farVars
<1>2. Results("parents") = {Plain}
  BY <1>1 DEF Results, FamilyOf
<1>3. /\ job[Plain].pc = "done" /\ job[Plain].ok /\ job[Plain].full
      /\ ~job[Plain].unavailable
  BY <1>1, <1>2 DEF Results, Covered
<1>4. there \cap Parents \subseteq job[Plain].read
  BY <1>3, ReadAll, ListedFacts, ScopeFacts DEF MirrorInv
<1>5. \A s \in Scopes : job[s].read \cap Parents \subseteq there \cap live
  BY ListedFacts DEF MirrorInv, Walked
<1>6. Seen \cap Parents = there \cap Parents /\ there \cap Parents \subseteq live
  BY <1>4, <1>5, ScopeFacts DEF Seen
<1>7. live' \cap Parents = there \cap Parents
  BY <1>1, <1>6
<1>8. live' \cap Children = live \cap Children
  BY <1>1, ListedFacts
<1> QED
  BY <1>1, <1>7, <1>8 DEF ParentsKnown

\* The sweep of the children after a plan that was right leaves those listed.
LEMMA ChildrenSwept ==
    ASSUME TypeOK, CoverInv, MirrorInv, run.steady, Sweep("children"),
           run.scopes = there \cap Parents
    PROVE  ChildrenKnown'
<1>1. /\ live' = {r \in live : r \in Children => r \in Seen}
      /\ there' = there /\ Covered("children") /\ run.phase = "sweeping children"
  BY DEF Sweep, Swept, Family, farVars, Sweeping
<1>2. ASSUME NEW c \in Listed \cap Children
      PROVE  c \in Seen /\ c \in live
  <2> DEFINE s == ParentOf[c]
  <2>1. s \in run.scopes /\ s \in Parents /\ s \in Scopes /\ c \in RecordsOf(s)
    BY ListedFacts, ScopeFacts
  <2>2. job[s].pc = "done"
    BY <1>1, <2>1 DEF CoverInv, PlanInv, Settled
  <2>3. job[s].ok /\ job[s].full /\ ~job[s].unavailable
    BY <1>1, <2>1, <2>2, ScopeFacts DEF Covered, Results
  <2>4. c \in job[s].read
    BY <2>1, <2>2, <2>3, ReadAll DEF MirrorInv
  <2> QED
    BY <2>1, <2>4 DEF Seen, MirrorInv, Walked
<1>3. Seen \subseteq Listed
  BY DEF Seen, MirrorInv, Walked
<1>4. live' \cap Children = Listed \cap Children
  BY <1>1, <1>2, <1>3
<1> QED
  BY <1>1, <1>4 DEF ChildrenKnown, Listed

\* Where a job of the children has ended, the plan fans out over scopes.
LEMMA ChildrenPlanned ==
    ASSUME TypeOK, CoverInv, MirrorInv, run.phase \in Settled, calm >= 1, Populated,
           "children" \in run.opt.families \/ Results("children") # {}
    PROVE  run.scopes = there \cap Parents
<1>1. ASSUME NEW s \in Results("children")
      PROVE  "children" \in run.opt.families
  <2>1. s \in Scopes /\ job[s].pc # "none" /\ s # Plain
    BY <1>1 DEF Results, FamilyOf
  <2>2. s \in run.scopes
    BY <2>1 DEF MirrorInv, PlannedInv, HasJob, Walking
  <2> QED
    BY <2>2 DEF MirrorInv, PlannedInv, Walking
<1> QED
  BY <1>1 DEF MirrorInv, PlannedInv, Walking

\* The sweep of the parents, done or not.
LEMMA CalmParents ==
    ASSUME TypeOK, TypeOK', CoverInv, MirrorInv,
           SweepNot("parents") \/ Sweep("parents") \/ SweepFails("parents")
    PROVE  CalmInv'
<1>1. /\ run.phase = "sweeping parents"
      /\ UNCHANGED <<there, calm, job>>
      /\ SweepNot("parents") \/ SweepFails("parents") => live' = live
  BY DEF SweepNot, Sweep, SweepFails, Sweeping, farVars, dbVars
<1>2. /\ run'.phase = "sweeping children" /\ run'.steady = run.steady /\ run'.opt = run.opt
      /\ SweepFails("parents") => run'.err
      /\ ~SweepFails("parents") => run'.err = run.err
  <2>1. After[run.phase] = "sweeping children"
    BY <1>1 DEF After
  <2>2. SweepFails("parents") => run' = [run EXCEPT !.phase = After[run.phase], !.err = TRUE]
    BY DEF SweepFails
  <2>3. ~SweepFails("parents") => run' = [run EXCEPT !.phase = After[run.phase]]
    BY DEF SweepNot, Sweep
  <2> QED
    BY <2>1, <2>2, <2>3, RunFields DEF Run
<1>3. Listed' = Listed /\ Populated' = Populated
  BY <1>1 DEF Listed, Populated
<1>4. calm >= 1 => run.steady
  BY <1>1 DEF MirrorInv, CalmInv
<1>5. calm >= 1 => ParentsKnown'
  <2>1. live' = live => ParentsKnown' = ParentsKnown
    BY <1>1 DEF ParentsKnown
  <2> QED
    BY <1>1, <1>4, <2>1, ParentsSwept DEF MirrorInv, CalmInv
<1>6. calm = 2 /\ Populated => ChildrenKnown'
  <2>1. live' \cap Children = live \cap Children /\ ChildrenKnown => ChildrenKnown'
    BY <1>3 DEF ChildrenKnown
  <2>2. calm = 2 => calm >= 1
    OBVIOUS
  <2>3. calm = 2 /\ Populated => ChildrenKnown
    BY DEF MirrorInv, CalmInv
  <2> QED
    BY <1>1, <1>4, <2>1, <2>2, <2>3, ParentsSwept
<1>7. Clean' => ParentsKnown'
  <2> SUFFICES ASSUME Clean'
               PROVE  ParentsKnown'
    OBVIOUS
  <2>1. ~run'.err
    BY DEF Clean
  <2>2. Clean
    BY <1>1, <1>2, <2>1 DEF Clean
  <2>3. job[Plain].pc = "done"
    BY <1>1, <2>2, ScopeFacts
    DEF Clean, MirrorInv, PlannedInv, HasJob, Walking, Settled, CoverInv, PlanInv, Families
  <2>4. Results("parents") = {Plain}
    BY <2>3, ScopeFacts DEF Results, FamilyOf
  <2>5. Swept("parents")
    BY <2>2, <2>4, ScopeFacts, CleanSwept DEF Families
  <2>6. Sweep("parents")
    BY <1>2, <2>1, <2>5 DEF SweepNot
  <2> QED
    BY <2>2, <2>6, ParentsSwept DEF Clean
<1> QED
  BY <1>1, <1>2, <1>3, <1>4, <1>5, <1>6, <1>7 DEF CalmInv

\* The sweep of the children, done or not.
LEMMA CalmChildren ==
    ASSUME TypeOK, TypeOK', CoverInv, MirrorInv,
           SweepNot("children") \/ Sweep("children") \/ SweepFails("children")
    PROVE  CalmInv'
<1>1. /\ run.phase = "sweeping children" /\ run.phase \in Settled
      /\ UNCHANGED <<there, calm, job>>
      /\ SweepNot("children") \/ SweepFails("children") => live' = live
  BY DEF SweepNot, Sweep, SweepFails, Sweeping, farVars, dbVars, Settled
<1>2. /\ run'.phase = "finishing" /\ run'.steady = run.steady /\ run'.opt = run.opt
      /\ SweepFails("children") => run'.err
      /\ ~SweepFails("children") => run'.err = run.err
  <2>1. After[run.phase] = "finishing"
    BY <1>1 DEF After
  <2>2. SweepFails("children") => run' = [run EXCEPT !.phase = After[run.phase], !.err = TRUE]
    BY DEF SweepFails
  <2>3. ~SweepFails("children") => run' = [run EXCEPT !.phase = After[run.phase]]
    BY DEF SweepNot, Sweep
  <2> QED
    BY <2>1, <2>2, <2>3, RunFields DEF Run
<1>3. Listed' = Listed /\ Populated' = Populated
  BY <1>1 DEF Listed, Populated
<1>4. calm >= 1 => run.steady
  BY <1>1 DEF MirrorInv, CalmInv
<1>5. ParentsKnown' = ParentsKnown
  <2>1. live' \cap Parents = live \cap Parents
    BY <1>1, ListedFacts DEF Sweep, Family
  <2> QED
    BY <1>1, <2>1 DEF ParentsKnown
<1>6. Sweep("children") /\ calm >= 1 /\ Populated => ChildrenKnown'
  <2>1. Sweep("children") => Results("children") # {}
    BY DEF Sweep, Swept
  <2> QED
    BY <1>1, <1>4, <2>1, ChildrenPlanned, ChildrenSwept
<1>7. calm = 2 /\ Populated => ChildrenKnown'
  <2>1. live' = live /\ ChildrenKnown => ChildrenKnown'
    BY <1>3 DEF ChildrenKnown
  <2>2. calm = 2 => calm >= 1
    OBVIOUS
  <2>3. calm = 2 /\ Populated => ChildrenKnown
    BY DEF MirrorInv, CalmInv
  <2> QED
    BY <1>1, <1>6, <2>1, <2>2, <2>3
<1>8. Clean' => Clean
  BY <1>1, <1>2 DEF Clean
<1>9. ASSUME Clean', calm >= 1, Populated
      PROVE  ChildrenKnown'
  <2>1. Clean /\ ~run'.err /\ "children" \in run.opt.families
    BY <1>8, <1>9 DEF Clean, Families
  <2>2. run.scopes = there \cap Parents
    BY <1>1, <1>9, <2>1, ChildrenPlanned
  <2>3. Results("children") = run.scopes
    <3>1. \A s \in Parents : s \in run.scopes <=> job[s].pc = "done"
      BY <1>1, <2>2, ScopeFacts
      DEF MirrorInv, PlannedInv, HasJob, Walking, CoverInv, PlanInv, Settled
    <3> QED
      BY <2>2, <3>1, ScopeFacts DEF Results, FamilyOf, Scopes
  <2>4. Swept("children")
    BY <1>9, <2>1, <2>2, <2>3, CleanSwept DEF Populated, Families
  <2>5. Sweep("children")
    BY <1>2, <2>1, <2>4 DEF SweepNot
  <2> QED
    BY <1>6, <1>9, <2>5
<1> QED
  BY <1>1, <1>2, <1>3, <1>4, <1>5, <1>7, <1>8, <1>9 DEF CalmInv, MirrorInv

\* A run ends in order: it counts if it was clean.
LEMMA CalmFinish ==
    ASSUME TypeOK, MirrorInv, FinishRun
    PROVE  CalmInv'
<1>1. /\ UNCHANGED <<there, live>> /\ run' = NoRun /\ run.phase = "finishing"
      /\ calm' = IF Clean /\ calm < 2 THEN calm + 1 ELSE calm
  BY DEF FinishRun, EndRun, farVars, dbVars
<1>2. /\ ParentsKnown' = ParentsKnown /\ ChildrenKnown' = ChildrenKnown
      /\ Populated' = Populated
  BY <1>1 DEF ParentsKnown, ChildrenKnown, Populated, Listed
<1>3. run'.phase = "idle"
  BY <1>1 DEF NoRun
<1>4. calm \in 0..2
  BY DEF TypeOK
<1>5. calm' >= 1 => ParentsKnown
  BY <1>1, <1>4 DEF MirrorInv, CalmInv
<1>6. calm' = 2 /\ Populated => ChildrenKnown
  BY <1>1, <1>4 DEF MirrorInv, CalmInv
<1> QED
  BY <1>2, <1>3, <1>5, <1>6 DEF CalmInv

LEMMA CalmStep ==
    ASSUME TypeOK, TypeOK', CoverInv, MirrorInv, [Next]_vars
    PROVE  CalmInv'
<1> USE DEF MirrorInv
<1>1. ASSUME NEW r \in Rec, Create(r) \/ Remove(r)
      PROVE  CalmInv'
  <2>1. calm' = 0 /\ run'.phase = run.phase /\ run'.opt = run.opt /\ ~run'.steady
    BY <1>1, Unsteady
  <2>2. ~Clean'
    BY <2>1 DEF Clean
  <2>3. ~(calm' >= 1) /\ calm' # 2
    BY <2>1
  <2>4. run.phase = "probing" => run.opt.probe
    BY DEF CalmInv
  <2> QED
    BY <2>1, <2>2, <2>3, <2>4 DEF CalmInv
<1>2. CASE PlanFails \/ Crash
  <2>1. UNCHANGED <<there, live, calm>> /\ run' = NoRun
    BY <1>2 DEF PlanFails, Crash, EndRun, farVars, dbVars
  <2> QED
    BY <2>1, CalmGrows DEF NoRun, Listed
<1>3. CASE FinishRun
  BY <1>3, CalmFinish
<1>4. ASSUME NEW opt \in Options, StartRun(opt)
      PROVE  CalmInv'
  <2>1. UNCHANGED <<there, live, calm>> /\ run'.phase = "planning" /\ run'.steady
    BY <1>4 DEF StartRun, NoRun, farVars, dbVars
  <2> QED
    BY <2>1, CalmGrows DEF Listed
<1>5. ASSUME GoesOn, calm >= 1
      PROVE  run'.steady
  BY <1>5 DEF GoesOn, CalmInv
<1>6. CASE Plan \/ PlanListed
  <2>1. UNCHANGED <<there, live, calm>> /\ GoesOn
    BY <1>6, RunGoesOn DEF Plan, PlanListed, farVars, dbVars
  <2>2. PICK refs : Planned(refs)
    BY <1>6 DEF Plan, PlanListed
  <2>3. CASE run.opt.probe
    <3>1. run'.phase = "probing" /\ run'.opt.probe
      BY <2>1, <2>2, <2>3, RunFields DEF Planned, Run, GoesOn
    <3>2. /\ ParentsKnown' = ParentsKnown /\ ChildrenKnown' = ChildrenKnown
          /\ Populated' = Populated
      BY <2>1 DEF ParentsKnown, ChildrenKnown, Populated, Listed
    <3> QED
      BY <1>5, <2>1, <3>1, <3>2 DEF CalmInv
  <2>4. CASE ~run.opt.probe
    <3>1. run'.phase = "reading"
      BY <2>2, <2>4, RunFields DEF Planned, Run
    <3> QED
      BY <1>5, <2>1, <3>1, CalmGrows DEF Listed
  <2> QED
    BY <2>3, <2>4
<1>7. CASE ListParents \/ ListPage \/ ReadingOver
  <2>1. UNCHANGED <<there, calm>> /\ GoesOn
    BY <1>7, RunGoesOn DEF ListParents, ListPage, ReadingOver, farVars
  <2>2. live \subseteq live' /\ live' \subseteq live \cup Listed
    BY <1>7 DEF ListParents, ListPage, ReadingOver, dbVars
  <2>3. run'.phase \in {"listing", "sweeping parents"}
    BY <1>7, RunFields DEF ListParents, ListPage, ReadingOver, Run
  <2> QED
    BY <1>5, <2>1, <2>2, <2>3, CalmGrows DEF Listed
<1>8. ASSUME NEW s \in Scopes, JobStep(s)
      PROVE  CalmInv'
  <2>1. UNCHANGED <<there, calm>> /\ GoesOn /\ run'.phase = run.phase
    BY <1>8, RunGoesOn, RunFields
    DEF JobStep, JobStart, ReadPage, JobEnds, JobUnavailable, JobFails, farVars, Run
  <2>2. live \subseteq live' /\ live' \subseteq live \cup Listed
    BY <1>8 DEF JobStep, JobStart, ReadPage, JobEnds, JobUnavailable, JobFails, dbVars, Answer
  <2>3. run.phase = "reading"
    BY <1>8 DEF CoverInv, PlanInv, JobStep, JobStart, ReadPage, JobEnds, JobUnavailable, JobFails
  <2> QED
    BY <1>5, <2>1, <2>2, <2>3, CalmGrows DEF Listed
<1>9. ASSUME NEW f \in Families, SweepNot(f) \/ Sweep(f) \/ SweepFails(f)
      PROVE  CalmInv'
  BY <1>9, CalmParents, CalmChildren DEF Families
<1>10. CASE ProbeOver \/ \E f \in Families : ProbeFirst(f) \/ ProbeSecond(f) \/ ProbeUntold(f)
  <2>1. UNCHANGED <<there, live, calm>> /\ GoesOn
    BY <1>10, RunGoesOn DEF ProbeOver, ProbeFirst, ProbeSecond, ProbeUntold, farVars, dbVars
  <2>2. run.phase = "probing" /\ run'.phase \in {"probing", "finishing"}
    BY <1>10, RunFields DEF ProbeOver, ProbeFirst, ProbeSecond, ProbeUntold, Probing, Run
  <2>3. run'.opt.probe /\ ~Clean'
    BY <2>1, <2>2 DEF CalmInv, GoesOn, Clean
  <2>4. /\ ParentsKnown' = ParentsKnown /\ ChildrenKnown' = ChildrenKnown
        /\ Populated' = Populated
    BY <2>1 DEF ParentsKnown, ChildrenKnown, Populated, Listed
  <2> QED
    BY <1>5, <2>1, <2>2, <2>3, <2>4 DEF CalmInv
<1>11. CASE UNCHANGED vars
  <2>1. UNCHANGED <<there, live, calm, run, job>>
    BY <1>11 DEF vars, farVars, dbVars
  <2> QED
    BY <2>1 DEF CalmInv, ParentsKnown, ChildrenKnown, Populated, Listed, ListedIn, Clean
<1> QED
  BY <1>1, <1>2, <1>3, <1>4, <1>6, <1>7, <1>8, <1>9, <1>10, <1>11 DEF Next

\* What every state of the two families satisfies.
LEMMA Invariance == Spec => [](TypeOK /\ CoverInv /\ MirrorInv)
<1>1. Init => CoverInv /\ MirrorInv
  <2> SUFFICES ASSUME Init
               PROVE  CoverInv /\ MirrorInv
    OBVIOUS
  <2>1. run.phase = "idle" /\ run = NoRun /\ ~run.steady /\ calm = 0
    BY DEF Init, NoRun
  <2>2. \A s \in Scopes : job[s] = NoJob
    BY DEF Init
  <2>3. CoverInv
    BY <2>1, <2>2, ScopeFacts DEF CoverInv, GoneInv, PlanInv, Followed, NoJob, Settled
  <2>4. SteadyInv /\ PlannedInv /\ CalmInv
    BY <2>1 DEF SteadyInv, PlannedInv, CalmInv, Walking, Settled
  <2>5. \A s \in Scopes : Walked(s)
    BY <2>2 DEF Walked, NoJob
  <2> QED
    BY <2>3, <2>4, <2>5 DEF MirrorInv
<1>2. (TypeOK /\ CoverInv /\ MirrorInv) /\ [Next]_vars => (TypeOK /\ CoverInv /\ MirrorInv)'
  <2> SUFFICES ASSUME TypeOK, CoverInv, MirrorInv, [Next]_vars
               PROVE  (TypeOK /\ CoverInv /\ MirrorInv)'
    OBVIOUS
  <2>1. TypeOK'
    BY TypeStep
  <2>2. CoverInv'
    BY <2>1, CoverStep
  <2>3. SteadyInv' /\ (\A s \in Scopes : Walked(s))' /\ PlannedInv' /\ CalmInv'
    BY <2>1, SteadyStep, WalkedStep, PlannedStep, CalmStep DEF MirrorInv
  <2> QED
    BY <2>1, <2>2, <2>3 DEF MirrorInv
<1> QED
  BY InitTypeOK, <1>1, <1>2, PTL DEF Spec

\* Two clean runs are enough, however many scopes and records there are: whatever
\* the plans, the sweeps and the failures of earlier runs have left behind, the
\* archive then holds what the company lists (bankScopes, recordRefs,
\* sweepFamilies).
THEOREM MirrorCorrect == Spec => []TwoRunsMirror
<1>1. TypeOK /\ CoverInv /\ MirrorInv => TwoRunsMirror
  <2> SUFFICES ASSUME TypeOK, MirrorInv, calm = 2, Populated
               PROVE  live = Listed
    BY DEF TwoRunsMirror, Populated
  <2>1. ParentsKnown /\ ChildrenKnown
    BY DEF MirrorInv, CalmInv
  <2>2. live \subseteq Rec /\ Listed \subseteq Rec
    BY ListedFacts DEF TypeOK
  <2> QED
    BY <2>1, <2>2, ListedFacts DEF ParentsKnown, ChildrenKnown, Rec
<1> QED
  BY <1>1, Invariance, PTL

----------------------------------------------------------------------------
(* What a probe puts on record.                                            *)

\* What a probe has been shown is still there, in a company that does not change.
ProbeInv ==
    /\ run.phase \in {"planning", "listing"} => run.shown = {}
    /\ run.phase = "probing" /\ run.steady => \A f \in run.shown : FirstPage(f) # {}

LEMMA ProbeStep ==
    ASSUME TypeOK, TypeOK', CoverInv, SteadyInv, ProbeInv, [Next]_vars
    PROVE  ProbeInv'
<1>1. ASSUME NEW r \in Rec, Create(r) \/ Remove(r)
      PROVE  ProbeInv'
  <2>1. run'.phase = run.phase /\ run'.shown = run.shown /\ ~run'.steady
    <3>1. PICK company :
            run' = IF run.phase = "idle" THEN run
                   ELSE [run EXCEPT !.gone = @ \cup (Rec \ ListedIn(company)),
                                    !.steady = FALSE]
      BY <1>1 DEF Create, Remove, Change
    <3> QED
      BY <1>1, <3>1, Unsteady, RunFields DEF Run
  <2> QED
    BY <2>1 DEF ProbeInv
<1>2. ASSUME NEW opt \in Options, StartRun(opt)
      PROVE  ProbeInv'
  BY <1>2 DEF StartRun, NoRun, ProbeInv
<1>3. CASE Plan \/ PlanListed
  <2>1. PICK refs : Planned(refs)
    BY <1>3 DEF Plan, PlanListed
  <2>2. run.shown = {}
    BY <1>3 DEF Plan, PlanListed, ProbeInv
  <2>3. run'.phase \in {"probing", "reading"} /\ run'.shown = {}
    BY <2>1, <2>2, RunFields DEF Planned, Run
  <2> QED
    BY <2>3 DEF ProbeInv
<1>4. CASE ListParents \/ ListPage
  BY <1>4, RunFields DEF ListParents, ListPage, Run, ProbeInv
<1>5. CASE PlanFails \/ FinishRun \/ Crash
  BY <1>5 DEF PlanFails, FinishRun, Crash, EndRun, NoRun, ProbeInv
<1>6. ASSUME NEW s \in Scopes, JobStep(s)
      PROVE  ProbeInv'
  <2>1. run'.phase = "reading"
    BY <1>6, RunFields
    DEF CoverInv, PlanInv, JobStep, JobStart, ReadPage, JobEnds, JobUnavailable, JobFails, Run
  <2> QED
    BY <2>1 DEF ProbeInv
<1>7. CASE ReadingOver \/ ProbeOver
  BY <1>7, RunFields DEF ReadingOver, ProbeOver, Run, ProbeInv
<1>8. ASSUME NEW f \in Families, SweepNot(f) \/ Sweep(f) \/ SweepFails(f)
      PROVE  ProbeInv'
  <2>1. After[run.phase] \in {"sweeping children", "finishing"}
    BY <1>8 DEF SweepNot, Sweep, SweepFails, Sweeping, After
  <2>2. \/ run' = [run EXCEPT !.phase = After[run.phase]]
        \/ run' = [run EXCEPT !.phase = After[run.phase], !.err = TRUE]
    BY <1>8 DEF SweepNot, Sweep, SweepFails
  <2> QED
    BY <2>1, <2>2, RunFields DEF Run, ProbeInv
<1>9. ASSUME NEW f \in Families, ProbeFirst(f) \/ ProbeSecond(f) \/ ProbeUntold(f)
      PROVE  ProbeInv'
  <2>1. /\ there' = there /\ run.phase = "probing"
        /\ run'.phase = run.phase /\ run'.scopes = run.scopes /\ run'.steady = run.steady
    BY <1>9, RunFields DEF ProbeFirst, ProbeSecond, ProbeUntold, Probing, farVars, Run
  <2>2. \A g \in Families : FirstPage(g)' = FirstPage(g)
    BY <2>1 DEF FirstPage, ProbeScope, Listed
  <2>3. \/ run'.shown = run.shown
        \/ FirstPage(f) # {} /\ run'.shown = run.shown \cup {f}
    <3>1. CASE ProbeFirst(f)
      BY <3>1, RunFields DEF ProbeFirst, Run
    <3>2. CASE ProbeSecond(f) \/ ProbeUntold(f)
      BY <3>2, RunFields DEF ProbeSecond, ProbeUntold, Run
    <3> QED
      BY <1>9, <3>1, <3>2
  <2>4. run.shown \subseteq Families
    BY RunFields
  <2> QED
    BY <1>9, <2>1, <2>2, <2>3, <2>4 DEF ProbeInv
<1>10. CASE UNCHANGED vars
  <2>1. there' = there /\ run' = run
    BY <1>10 DEF vars, farVars
  <2> QED
    BY <2>1 DEF ProbeInv, FirstPage, ProbeScope, Listed
<1> QED
  BY <1>1, <1>2, <1>3, <1>4, <1>5, <1>6, <1>7, <1>8, <1>9, <1>10 DEF Next

\* What a probe puts on record about a family is what its endpoint does, for any
\* records and scopes and whichever families ignore the filter: a scope with
\* nothing to show, a scope that is gone and a failure all leave the record as it
\* was (probeFamily, saveProbe).
THEOREM ProbeCorrect == Spec => ProbeHonest
<1>1. Init => ProbeInv
  BY DEF Init, NoRun, ProbeInv
<1>2. TypeOK /\ TypeOK' /\ CoverInv /\ MirrorInv /\ ProbeInv /\ [Next]_vars => ProbeInv'
  BY ProbeStep DEF MirrorInv
<1>3. ASSUME TypeOK, ProbeInv, [Next]_vars, NEW f \in Families,
             support'[f] # support[f], run.steady
      PROVE  support'[f] = IF f \in Ignores THEN "ignored" ELSE "honoured"
  <2>1. PICK g \in Families : ProbeSecond(g)
    <3>1. \A s \in Scopes : JobStep(s) => support' = support
      BY DEF JobStep, JobStart, ReadPage, JobEnds, JobUnavailable, JobFails, dbVars
    <3> QED
      BY <1>3, <3>1 DEF Next, Create, Remove, Change, StartRun, Plan, ListParents, ListPage,
           PlanListed, PlanFails, ReadingOver, SweepNot, Sweep, SweepFails, ProbeFirst,
           ProbeUntold, ProbeOver, FinishRun, Crash, vars, dbVars
  <2>2. g = f
    BY <1>3, <2>1 DEF ProbeSecond, TypeOK
  <2>3. FirstPage(f) # {}
    BY <1>3, <2>1, <2>2 DEF ProbeSecond, Probing, ProbeInv
  <2> QED
    BY <1>3, <2>1, <2>2, <2>3 DEF ProbeSecond, TypeOK
<1>4. TypeOK /\ ProbeInv /\ [Next]_vars =>
        [\A f \in Families :
           support'[f] # support[f] /\ run.steady
              => support'[f] = IF f \in Ignores THEN "ignored" ELSE "honoured"]_vars
  BY <1>3
<1> QED
  BY <1>1, <1>2, <1>4, Invariance, PTL DEF Spec, ProbeHonest
=============================================================================
