---------------------------- MODULE PapersProofs ----------------------------
(***************************************************************************)
(* Theorems about Papers, for any calendar, company and set of invoices.   *)
(***************************************************************************)
EXTENDS Papers, SequenceTheorems, FiniteSetTheorems, TLAPS

----------------------------------------------------------------------------
(* The years of payroll.                                                   *)

LEMMA CalendarTypes ==
    ASSUME NEW day \in Nat
    PROVE  CalendarYear(day) \in Nat /\ taxYearEnd(day) \in Nat
<1>1. day \div DaysInYear \in Nat
  BY PapersAssumption
<1> QED
  BY <1>1 DEF CalendarYear, taxYearEnd

\* The years of a company that is not known are those of any company.
LEMMA UsualYears ==
    ASSUME NEW day \in Nat, NEW known \in BOOLEAN
    PROVE  /\ Earliest(day, known) \in Int
           /\ Earliest(day, known) <= Earliest(day, FALSE)
           /\ Earliest(day, known) <= taxYearEnd(day)
           /\ payrollYears(day, FALSE) \subseteq payrollYears(day, known)
<1>1. taxYearEnd(day) \in Nat /\ CalendarYear(FirstYearEnd) \in Nat
  BY CalendarTypes, PapersAssumption
<1>2. /\ Earliest(day, known) \in Int /\ Earliest(day, FALSE) \in Int
      /\ Earliest(day, known) <= Earliest(day, FALSE)
      /\ Earliest(day, known) <= taxYearEnd(day)
  BY <1>1, PapersAssumption DEF Earliest
<1> DEFINE widened == Earliest(day, known)  usual == Earliest(day, FALSE)
           last == taxYearEnd(day)
<1>3. widened \in Int /\ usual \in Int /\ last \in Nat /\ widened <= usual
  BY Zenon, <1>1, <1>2
<1>4. payrollYears(day, known) = widened..last /\ payrollYears(day, FALSE) = usual..last
  BY DEF payrollYears
<1> HIDE DEF widened, usual, last
<1>5. usual..last \subseteq widened..last
  BY <1>3
<1> QED
  BY <1>2, <1>4, <1>5

LEMMA YearJobsAre ==
    ASSUME NEW day \in Nat, NEW known \in BOOLEAN
    PROVE  /\ YearJobs(day, known) \in Seq(Job)
           /\ \A y \in payrollYears(day, known) :
                 \E n \in DOMAIN YearJobs(day, known) : YearJobs(day, known)[n] = YearJob(y)
<1> DEFINE first == Earliest(day, known)  last == taxYearEnd(day)
<1>1. first \in Int /\ last \in Nat /\ first <= last
  BY CalendarTypes, UsualYears
<1>2. Cardinality(payrollYears(day, known)) = last - first + 1
  <2> HIDE DEF first, last
  <2>1. Cardinality(first..last) = last - first + 1
    BY <1>1, FS_Interval
  <2> QED
    BY <2>1 DEF payrollYears, first, last
<1>3. YearJobs(day, known) = [n \in 1..(last - first + 1) |-> YearJob(last - n + 1)]
  BY <1>2 DEF YearJobs
<1> HIDE DEF first, last
<1>4. \A n \in 1..(last - first + 1) : YearJob(last - n + 1) \in Job
  BY <1>1 DEF YearJob, Job
<1>5. YearJobs(day, known) \in Seq(Job)
  BY <1>1, <1>3, <1>4, IsASeq
<1>6. ASSUME NEW y \in first..last
      PROVE  \E n \in DOMAIN YearJobs(day, known) : YearJobs(day, known)[n] = YearJob(y)
  <2>1. last - y + 1 \in 1..(last - first + 1) /\ last - (last - y + 1) + 1 = y
    BY <1>1
  <2> QED
    BY <2>1, <1>3
<1> QED
  BY <1>5, <1>6 DEF payrollYears, first, last

----------------------------------------------------------------------------
(* The jobs of a pull.                                                     *)

Waiting(job) == \E n \in DOMAIN run.todo : run.todo[n] = job

LEMMA JobTypes ==
    /\ \A kind \in {"company", "invoices", "report"} : JobFor(kind) \in Job
    /\ \A y \in Int : YearJob(y) \in Job
  BY DEF JobFor, YearJob, Job

Jobs(day, known) ==
    <<JobFor("company"), JobFor("invoices")>> \o YearJobs(day, known) \o <<JobFor("report")>>

\* What a pull plans.
LEMMA Planned ==
    ASSUME NEW day \in Nat, NEW known \in BOOLEAN
    PROVE  /\ Jobs(day, known) \in Seq(Job)
           /\ \E n \in DOMAIN Jobs(day, known) : Jobs(day, known)[n] = JobFor("report")
           /\ \A y \in payrollYears(day, known) :
                 \E n \in DOMAIN Jobs(day, known) : Jobs(day, known)[n] = YearJob(y)
<1> DEFINE first  == <<JobFor("company"), JobFor("invoices")>>
           middle == YearJobs(day, known)
           last   == <<JobFor("report")>>
           most   == first \o middle
           all    == most \o last
<1>1. first \in Seq(Job) /\ Len(first) = 2 /\ last \in Seq(Job) /\ Len(last) = 1
      /\ last[1] = JobFor("report")
  BY JobTypes
<1>2. middle \in Seq(Job)
  BY YearJobsAre
<1>3. \A y \in payrollYears(day, known) : \E n \in DOMAIN middle : middle[n] = YearJob(y)
  BY YearJobsAre
<1>4. all = Jobs(day, known)
  BY DEF Jobs
<1> HIDE DEF first, middle, last
<1>5. /\ most \in Seq(Job) /\ Len(most) = 2 + Len(middle) /\ Len(middle) \in Nat
      /\ \A i \in DOMAIN middle : i + 2 \in DOMAIN most /\ most[i + 2] = middle[i]
  <2>1. /\ most \in Seq(Job) /\ Len(most) = Len(first) + Len(middle)
        /\ \A i \in 1..Len(first) + Len(middle) :
              most[i] = IF i <= Len(first) THEN first[i] ELSE middle[i - Len(first)]
    BY <1>1, <1>2, ConcatProperties
  <2>2. Len(middle) \in Nat /\ DOMAIN middle = 1..Len(middle)
        /\ DOMAIN most = 1..Len(most)
    BY <1>2, <2>1, LenProperties
  <2> QED
    BY <1>1, <2>1, <2>2
<1> HIDE DEF most
<1>6. /\ all \in Seq(Job) /\ Len(all) = Len(most) + 1
      /\ \A i \in DOMAIN most : i \in DOMAIN all /\ all[i] = most[i]
      /\ all[Len(all)] = JobFor("report") /\ Len(all) \in DOMAIN all
  <2>1. /\ all \in Seq(Job) /\ Len(all) = Len(most) + Len(last)
        /\ \A i \in 1..Len(most) + Len(last) :
              all[i] = IF i <= Len(most) THEN most[i] ELSE last[i - Len(most)]
    BY <1>1, <1>5, ConcatProperties
  <2>2. DOMAIN most = 1..Len(most) /\ DOMAIN all = 1..Len(all) /\ Len(most) \in Nat
    BY <1>5, <2>1, LenProperties
  <2> QED
    BY <1>1, <2>1, <2>2
<1> QED
  BY <1>3, <1>4, <1>5, <1>6

LEMMA TailOf ==
    ASSUME NEW todo \in Seq(Job), todo # <<>>, NEW n \in DOMAIN todo
    PROVE  /\ Tail(todo) \in Seq(Job) /\ Head(todo) = todo[1]
           /\ todo[n] = Head(todo) \/ \E m \in DOMAIN Tail(todo) : Tail(todo)[m] = todo[n]
<1>1. /\ Tail(todo) \in Seq(Job) /\ Len(Tail(todo)) = Len(todo) - 1
      /\ \A i \in 1..Len(Tail(todo)) : Tail(todo)[i] = todo[i + 1]
  BY HeadTailProperties
<1>2. DOMAIN todo = 1..Len(todo) /\ DOMAIN Tail(todo) = 1..Len(Tail(todo)) /\ Len(todo) \in Nat
  BY <1>1, LenProperties
<1>3. Head(todo) = todo[1]
  BY <1>2
<1>4. n # 1 => n - 1 \in DOMAIN Tail(todo) /\ Tail(todo)[n - 1] = todo[n]
  BY <1>1, <1>2
<1> QED
  BY <1>1, <1>3, <1>4

\* A job that waits is the next one, or waits behind it.
LEMMA StillWaiting ==
    ASSUME TypeOK, NEW job, Waiting(job), run'.todo = Tail(run.todo), Head(run.todo) # job
    PROVE  Waiting(job)'
<1>1. PICK n \in DOMAIN run.todo : run.todo[n] = job
  BY DEF Waiting
<1>2. run.todo \in Seq(Job) /\ run.todo # <<>>
  BY <1>1, EmptySeq DEF TypeOK, Run
<1> QED
  BY <1>1, <1>2, TailOf DEF Waiting

----------------------------------------------------------------------------
(* Types.                                                                  *)

LEMMA RunFields ==
    ASSUME TypeOK
    PROVE  /\ run \in Run /\ run.phase \in Phases /\ run.todo \in Seq(Job) /\ run.year \in Nat
           /\ run.owed \subseteq 1..MaxPeriods /\ run.queue \subseteq Task
           /\ run.made \subseteq Pdf /\ run.err \in BOOLEAN
  BY DEF TypeOK, Run

LEMMA IdleIsRun ==
    /\ Idle \in Run
    /\ Idle.phase = "idle" /\ Idle.todo = <<>> /\ Idle.queue = {} /\ Idle.made = {}
    /\ Idle.err = FALSE
  BY DEF Idle, Run, Phases

LEMMA InitTypeOK == Init => TypeOK
<1> SUFFICES ASSUME Init PROVE TypeOK
  OBVIOUS
<1>1. taxYearEnd(FirstDay) \in Nat
  BY CalendarTypes, PapersAssumption
<1>2. payroll \in [Years -> 0..MaxPeriods]
  BY <1>1, PapersAssumption DEF Init
<1>3. /\ document \in [Docs -> [shows : Nat, for : Nat]]
      /\ snapshots \in Seq([day : Nat, says : BOOLEAN])
      /\ edition \in [Docs -> Nat] /\ archived \in [Docs -> Nat]
      /\ year \in [Years -> Nat] /\ period \in [Years -> SUBSET (1..MaxPeriods)]
  BY DEF Init
<1> QED
  BY <1>2, <1>3, IdleIsRun, PapersAssumption DEF Init, TypeOK

\* What the company does leaves the archive alone.
LEMMA ArchiveKept ==
    TypeOK /\ UNCHANGED <<dbVars, run, faults>>
    => /\ company' \in BOOLEAN /\ year' \in [Years -> Nat]
       /\ period' \in [Years -> SUBSET (1..MaxPeriods)]
       /\ archived' \in [Docs -> Nat]
       /\ document' \in [Docs -> [shows : Nat, for : Nat]]
       /\ snapshots' \in Seq([day : Nat, says : BOOLEAN])
       /\ run' \in Run /\ faults' \in Nat
  BY DEF TypeOK, dbVars, payVars

LEMMA OutsideTypeOK == TypeOK /\ Outside => TypeOK'
<1> SUFFICES ASSUME TypeOK, Outside PROVE TypeOK'
  OBVIOUS
<1>1. CASE \E y \in Years : Pay(y)
  <2>1. PICK y \in Years : Pay(y)
    BY <1>1
  <2>2. payroll' \in [Years -> 0..MaxPeriods] /\ edition' \in [Docs -> Nat] /\ today' \in Nat
    BY <2>1, PapersAssumption DEF Pay, Changes, TypeOK
  <2>3. report' \in BOOLEAN
    BY <2>1 DEF Pay, TypeOK
  <2>4. changes' \in Nat /\ steady' = FALSE /\ UNCHANGED <<dbVars, run, faults>>
    BY <2>1 DEF Pay, Changes, TypeOK
  <2> QED
    BY <2>2, <2>3, <2>4, ArchiveKept DEF TypeOK
<1>2. CASE Move
  <2>1. payroll' \in [Years -> 0..MaxPeriods] /\ edition' \in [Docs -> Nat] /\ today' \in Nat
    BY <1>2 DEF Move, Changes, TypeOK
  <2>2. report' \in BOOLEAN
    BY <1>2 DEF Move, TypeOK
  <2>3. changes' \in Nat /\ steady' = FALSE /\ UNCHANGED <<dbVars, run, faults>>
    BY <1>2 DEF Move, Changes, TypeOK
  <2> QED
    BY <2>1, <2>2, <2>3, ArchiveKept DEF TypeOK
<1>3. CASE \E d \in Docs : Edit(d)
  <2>1. PICK d \in Docs : Edit(d)
    BY <1>3
  <2>2. payroll' \in [Years -> 0..MaxPeriods] /\ edition' \in [Docs -> Nat] /\ today' \in Nat
    BY <2>1 DEF Edit, Changes, TypeOK
  <2>3. report' \in BOOLEAN
    BY <2>1 DEF Edit, TypeOK
  <2>4. changes' \in Nat /\ steady' = FALSE /\ UNCHANGED <<dbVars, run, faults>>
    BY <2>1 DEF Edit, Changes, TypeOK
  <2> QED
    BY <2>2, <2>3, <2>4, ArchiveKept DEF TypeOK
<1>4. CASE Midnight
  <2>1. payroll' \in [Years -> 0..MaxPeriods] /\ edition' \in [Docs -> Nat] /\ today' \in Nat
        /\ changes' \in Nat
    BY <1>4 DEF Midnight, TypeOK
  <2>2. report' \in BOOLEAN
    BY <1>4 DEF Midnight, TypeOK
  <2>3. steady' = FALSE /\ UNCHANGED <<dbVars, run, faults>>
    BY <1>4 DEF Midnight
  <2> QED
    BY <2>1, <2>2, <2>3, ArchiveKept DEF TypeOK
<1> QED
  BY <1>1, <1>2, <1>3, <1>4 DEF Outside

LEMMA FaultType == TypeOK /\ (Fault \/ NoFault) => faults' \in Nat
  BY DEF TypeOK, Fault, NoFault

LEMMA StartTypeOK == TypeOK /\ (StartPull \/ StartRender) => TypeOK'
<1> SUFFICES ASSUME TypeOK, StartPull \/ StartRender PROVE TypeOK'
  OBVIOUS
<1>1. PICK r \in Run : Starts(r) /\ (Fault \/ NoFault)
  <2>1. CASE StartPull
    <3>1. PICK known \in {company, FALSE} :
             /\ Starts([Idle EXCEPT !.phase = "pulling", !.todo = Jobs(today, known)])
             /\ Fault \/ NoFault
      BY <2>1 DEF StartPull, Jobs
    <3>2. Jobs(today, known) \in Seq(Job)
      BY Planned DEF TypeOK
    <3>3. [Idle EXCEPT !.phase = "pulling", !.todo = Jobs(today, known)] \in Run
      BY <3>2, IdleIsRun DEF Run, Phases
    <3> QED
      BY <3>1, <3>3
  <2>2. CASE StartRender
    <3>1. [Idle EXCEPT !.phase = "listing"] \in Run
      BY IdleIsRun DEF Run, Phases
    <3> QED
      BY <2>2, <3>1 DEF StartRender
  <2> QED
    BY <2>1, <2>2
<1> QED
  BY <1>1, FaultType DEF Starts, TypeOK, dbVars, payVars

\* What a pull starts with.
LEMMA PullStarts ==
    ASSUME TypeOK, StartPull
    PROVE  /\ run.phase = "idle" /\ UNCHANGED <<today, payroll, report, edition, changes, dbVars>>
           /\ run'.phase = "pulling" /\ run'.queue = {} /\ run'.made = {}
           /\ \E known \in BOOLEAN : run'.todo = Jobs(today, known)
<1>1. PICK known \in {company, FALSE} :
         Starts([Idle EXCEPT !.phase = "pulling", !.todo = Jobs(today, known)])
  BY DEF StartPull, Jobs
<1>2. known \in BOOLEAN
  BY DEF TypeOK
<1> QED
  BY <1>1, <1>2, IdleIsRun DEF Starts, Run

LEMMA DoneType ==
    ASSUME TypeOK, run.todo # <<>>
    PROVE  /\ [run EXCEPT !.todo = Tail(@)] \in Run
           /\ [run EXCEPT !.todo = Tail(@), !.err = TRUE] \in Run
<1>1. Tail(run.todo) \in Seq(Job)
  BY RunFields, HeadTailProperties
<1> QED
  BY <1>1, RunFields DEF Run

LEMMA PullTypeOK == TypeOK /\ PullStep => TypeOK'
<1> SUFFICES ASSUME TypeOK, PullStep PROVE TypeOK'
  OBVIOUS
<1> USE DEF farVars, dbVars, payVars
<1>1. CASE PullCompany
  BY <1>1, DoneType DEF PullCompany, Takes, Done, NoFault, TypeOK
<1>2. CASE PullInvoices
  BY <1>2, DoneType DEF PullInvoices, Takes, Done, NoFault, TypeOK
<1>3. CASE PullReport
  <2>1. Append(snapshots, [day |-> today, says |-> report]) \in Seq([day : Nat, says : BOOLEAN])
    BY DEF TypeOK
  <2>2. snapshots' \in Seq([day : Nat, says : BOOLEAN]) /\ faults' \in Nat
    BY <1>3, <2>1, FaultType DEF PullReport, Capture, TypeOK
  <2> QED
    BY <1>3, <2>2, DoneType DEF PullReport, Takes, Done, TypeOK
<1>4. ASSUME NEW y \in 0..taxYearEnd(today), NoPayroll(y)
      PROVE  TypeOK'
  BY <1>4, DoneType DEF NoPayroll, Takes, Done, NoFault, TypeOK
<1>5. ASSUME NEW y \in 0..taxYearEnd(today), PullYear(y)
      PROVE  TypeOK'
  <2>1. y \in Years /\ payroll[y] \in 0..MaxPeriods
    BY <1>5 DEF PullYear, Periods, TypeOK
  <2>2. year' \in [Years -> Nat]
    BY <1>5, <2>1 DEF PullYear, TypeOK
  <2>3. run' \in Run
    <3>1. Tail(run.todo) \in Seq(Job)
      BY <1>5, RunFields, HeadTailProperties DEF PullYear, Takes
    <3>2. 1..payroll[y] \subseteq 1..MaxPeriods /\ y \in Nat
      BY <2>1, PapersAssumption
    <3> QED
      BY <1>5, <3>1, <3>2, RunFields DEF PullYear, Run, Phases
  <2> QED
    BY <1>5, <2>2, <2>3 DEF PullYear, Takes, NoFault, TypeOK
<1>6. CASE PullPeriod
  <2>1. PICK next \in run.owed :
           /\ period' = [period EXCEPT ![run.year] = @ \cup {next}]
           /\ run' = [run EXCEPT !.owed = @ \ {next}]
    BY <1>6 DEF PullPeriod
  <2>2. period' \in [Years -> SUBSET (1..MaxPeriods)]
    BY <2>1, RunFields DEF TypeOK
  <2>3. run' \in Run
    BY <2>1, RunFields DEF Run
  <2> QED
    BY <1>6, <2>2, <2>3 DEF PullPeriod, InYear, NoFault, TypeOK
<1>7. CASE YearDone
  <2>1. run' \in Run
    BY <1>7, RunFields DEF YearDone, Run, Phases
  <2> QED
    BY <1>7, <2>1 DEF YearDone, InYear, NoFault, TypeOK
<1>8. CASE PeriodFails
  <2>1. run' \in Run
    BY <1>8, RunFields DEF PeriodFails, Run, Phases
  <2> QED
    BY <1>8, <2>1, FaultType DEF PeriodFails, InYear, TypeOK
<1>9. CASE JobFails
  BY <1>9, DoneType, FaultType DEF JobFails, Takes, TypeOK
<1>10. CASE FinishPull
  BY <1>10, IdleIsRun DEF FinishPull, NoFault, TypeOK
<1> QED
  BY <1>1, <1>2, <1>3, <1>4, <1>5, <1>6, <1>7, <1>8, <1>9, <1>10 DEF PullStep

LEMMA RenderTypeOK == TypeOK /\ RenderStep => TypeOK'
<1> SUFFICES ASSUME TypeOK, RenderStep PROVE TypeOK'
  OBVIOUS
<1> USE DEF farVars, dbVars, payVars
<1>1. CASE List
  <2>1. \A d \in Pending : [doc |-> d, for |-> archived[d]] \in Task
    BY DEF Pending, Stale, Task, TypeOK
  <2>2. run' \in Run
    BY <1>1, <2>1, RunFields DEF List, Run, Phases
  <2> QED
    BY <1>1, <2>2 DEF List, NoFault, TypeOK
<1>2. CASE Render
  <2>1. PICK task \in run.queue :
           run' = [run EXCEPT !.queue = @ \ {task},
                              !.made = {[doc |-> task.doc, for |-> task.for,
                                         shows |-> edition[task.doc]]}]
    BY <1>2 DEF Render
  <2>2. [doc |-> task.doc, for |-> task.for, shows |-> edition[task.doc]] \in Pdf
    BY RunFields DEF Task, Pdf, TypeOK
  <2>3. run' \in Run
    BY <2>1, <2>2, RunFields DEF Run
  <2> QED
    BY <1>2, <2>3 DEF Render, Rendering, NoFault, TypeOK
<1>3. CASE SaveDocument
  <2>1. PICK pdf \in run.made :
           document' = [document EXCEPT ![pdf.doc] =
                          Replaced(@, [shows |-> pdf.shows, for |-> pdf.for])]
    BY <1>3 DEF SaveDocument
  <2>2. pdf \in Pdf
    BY RunFields
  <2>3. document' \in [Docs -> [shows : Nat, for : Nat]]
    BY <2>1, <2>2 DEF Replaced, Pdf, TypeOK
  <2>4. run' \in Run
    BY <1>3, RunFields DEF SaveDocument, Run
  <2> QED
    BY <1>3, <2>3, <2>4 DEF SaveDocument, NoFault, TypeOK
<1>4. CASE RenderFails
  <2>1. PICK task \in run.queue : run' = [run EXCEPT !.queue = @ \ {task}, !.err = TRUE]
    BY <1>4 DEF RenderFails
  <2>2. run' \in Run
    BY <2>1, RunFields DEF Run
  <2>3. Fault \/ NoFault
    BY <1>4 DEF RenderFails
  <2> QED
    BY <1>4, <2>2, <2>3, FaultType DEF RenderFails, Rendering, TypeOK
<1>5. CASE SaveFails
  <2>1. run' \in Run
    BY <1>5, RunFields DEF SaveFails, Run
  <2> QED
    BY <1>5, <2>1, FaultType DEF SaveFails, TypeOK
<1>6. CASE RenderBudgetRunsOut
  BY <1>6, IdleIsRun, FaultType DEF RenderBudgetRunsOut, Rendering, TypeOK
<1>7. CASE FinishRender
  BY <1>7, IdleIsRun DEF FinishRender, Rendering, NoFault, TypeOK
<1> QED
  BY <1>1, <1>2, <1>3, <1>4, <1>5, <1>6, <1>7 DEF RenderStep

LEMMA StepTypeOK == TypeOK /\ [Next]_vars => TypeOK'
<1> SUFFICES ASSUME TypeOK, [Next]_vars PROVE TypeOK'
  OBVIOUS
<1>1. CASE Crash
  BY <1>1, IdleIsRun, FaultType DEF Crash, TypeOK, farVars, dbVars, payVars
<1>2. CASE UNCHANGED vars
  BY <1>2 DEF vars, TypeOK, farVars, dbVars, payVars
<1> QED
  BY <1>1, <1>2, OutsideTypeOK, StartTypeOK, PullTypeOK, RenderTypeOK DEF Next

\* Whatever the calendar, and however pulls, passes and changes mix, every
\* variable keeps its type.
THEOREM TypeCorrect == Spec => []TypeOK
<1>1. Init => TypeOK
  BY InitTypeOK
<1>2. TypeOK /\ [Next]_vars => TypeOK'
  BY StepTypeOK
<1> QED
  BY <1>1, <1>2, PTL DEF Spec

----------------------------------------------------------------------------
(* What a PDF is recorded for.                                             *)

\* A version that is written down is one the invoice had: in the archive, in
\* the queue, and beside a PDF that shows it or a later one.
DocInv ==
    /\ \A d \in Docs : archived[d] <= edition[d]
    /\ \A task \in run.queue : task.for <= edition[task.doc]
    /\ \A pdf \in run.made : pdf.for <= pdf.shows
    /\ NeverPassesForNewer

LEMMA DocQuiet ==
    DocInv /\ UNCHANGED <<archived, edition, document>>
           /\ run'.queue \subseteq run.queue /\ run'.made \subseteq run.made => DocInv'
  BY DEF DocInv, NeverPassesForNewer

LEMMA DocOutside == TypeOK /\ DocInv /\ Outside => DocInv'
<1> SUFFICES ASSUME TypeOK, DocInv, Outside PROVE DocInv'
  OBVIOUS
<1>1. ASSUME NEW d \in Docs, Edit(d)
      PROVE  DocInv'
  <2>1. UNCHANGED <<archived, document, run>>
    BY <1>1 DEF Edit, Changes, dbVars
  <2>2. \A e \in Docs : edition'[e] \in Nat /\ edition[e] <= edition'[e]
    BY <1>1 DEF Edit, TypeOK
  <2>3. \A task \in run.queue : task.doc \in Docs /\ task.for \in Nat
    BY RunFields DEF Task
  <2> QED
    BY <2>1, <2>2, <2>3 DEF DocInv, NeverPassesForNewer, TypeOK
<1>2. CASE UNCHANGED <<edition, dbVars, run>>
  BY <1>2, DocQuiet DEF dbVars
<1> QED
  BY <1>1, <1>2 DEF Outside, Pay, Move, Midnight, Changes

LEMMA DocPull == TypeOK /\ DocInv /\ PullStep => DocInv'
<1> SUFFICES ASSUME TypeOK, DocInv, PullStep PROVE DocInv'
  OBVIOUS
<1>1. UNCHANGED <<edition, document>>
  BY DEF PullStep, PullCompany, PullInvoices, PullReport, NoPayroll, PullYear, PullPeriod,
         YearDone, PeriodFails, JobFails, FinishPull, Takes, InYear, farVars, dbVars
<1>2. run'.queue \subseteq run.queue /\ run'.made \subseteq run.made
  <2>1. CASE FinishPull
    BY <2>1, IdleIsRun DEF FinishPull
  <2>2. CASE ~FinishPull
    <3>1. CASE PullCompany \/ PullInvoices \/ PullReport \/ JobFails
      BY <3>1, RunFields DEF Run, PullCompany, PullInvoices, PullReport, Done, JobFails
    <3>2. CASE PullPeriod \/ YearDone \/ PeriodFails
      BY <3>2, RunFields DEF Run, PullPeriod, YearDone, PeriodFails
    <3>3. CASE \E y \in 0..taxYearEnd(today) : NoPayroll(y) \/ PullYear(y)
      BY <3>3, RunFields DEF Run, NoPayroll, PullYear, Done
    <3> QED
      BY <2>2, <3>1, <3>2, <3>3 DEF PullStep
  <2> QED
    BY <2>1, <2>2
<1>3. CASE PullInvoices
  <2>1. archived' = edition
    BY <1>3 DEF PullInvoices
  <2> QED
    BY <1>1, <1>2, <2>1 DEF DocInv, NeverPassesForNewer, TypeOK
<1>4. CASE UNCHANGED archived
  BY <1>1, <1>2, <1>4, DocQuiet
<1> QED
  BY <1>3, <1>4
     DEF PullStep, PullCompany, PullReport, NoPayroll, PullYear, PullPeriod,
         YearDone, PeriodFails, JobFails, FinishPull, dbVars

LEMMA DocRender == TypeOK /\ DocInv /\ RenderStep => DocInv'
<1> SUFFICES ASSUME TypeOK, DocInv, RenderStep PROVE DocInv'
  OBVIOUS
<1> USE DEF farVars, dbVars
<1>1. CASE List
  <2>1. run'.queue = {[doc |-> d, for |-> archived[d]] : d \in Pending}
        /\ Pending \subseteq Docs
        /\ run'.made = run.made /\ UNCHANGED <<archived, edition, document>>
    BY <1>1, RunFields DEF List, Pending, Run
  <2> QED
    BY <2>1 DEF DocInv, NeverPassesForNewer
<1>2. CASE Render
  <2>1. PICK task \in run.queue :
           run' = [run EXCEPT !.queue = @ \ {task},
                              !.made = {[doc |-> task.doc, for |-> task.for,
                                         shows |-> edition[task.doc]]}]
    BY <1>2 DEF Render
  <2>2. run'.queue \subseteq run.queue
        /\ run'.made = {[doc |-> task.doc, for |-> task.for, shows |-> edition[task.doc]]}
    BY <2>1, RunFields DEF Run
  <2>3. UNCHANGED <<archived, edition, document>>
    BY <1>2 DEF Render, Rendering
  <2> QED
    BY <2>2, <2>3 DEF DocInv, NeverPassesForNewer
<1>3. CASE SaveDocument
  <2>1. PICK pdf \in run.made :
           document' = [document EXCEPT ![pdf.doc] = [shows |-> pdf.shows, for |-> pdf.for]]
    BY <1>3 DEF SaveDocument, Replaced
  <2>2. pdf.for <= pdf.shows /\ pdf \in Pdf
    BY RunFields DEF DocInv
  <2>3. \A d \in Docs : document'[d].shows >= document'[d].for
    BY <2>1, <2>2 DEF DocInv, NeverPassesForNewer, TypeOK, Pdf
  <2>4. run'.queue = run.queue /\ run'.made = {} /\ UNCHANGED <<archived, edition>>
    BY <1>3, RunFields DEF SaveDocument, Run
  <2> QED
    BY <2>3, <2>4 DEF DocInv, NeverPassesForNewer
<1>4. CASE RenderFails \/ SaveFails \/ RenderBudgetRunsOut \/ FinishRender
  <2>1. run'.queue \subseteq run.queue /\ run'.made \subseteq run.made
    <3>1. CASE RenderFails \/ SaveFails
      BY <3>1, RunFields DEF Run, RenderFails, SaveFails
    <3>2. CASE RenderBudgetRunsOut \/ FinishRender
      BY <3>2, IdleIsRun DEF RenderBudgetRunsOut, FinishRender
    <3> QED
      BY <1>4, <3>1, <3>2
  <2>2. UNCHANGED <<archived, edition, document>>
    BY <1>4 DEF RenderFails, SaveFails, RenderBudgetRunsOut, FinishRender, Rendering
  <2> QED
    BY <2>1, <2>2, DocQuiet
<1> QED
  BY <1>1, <1>2, <1>3, <1>4 DEF RenderStep

LEMMA DocStep == TypeOK /\ DocInv /\ [Next]_vars => DocInv'
<1> SUFFICES ASSUME TypeOK, DocInv, [Next]_vars PROVE DocInv'
  OBVIOUS
<1>1. CASE StartPull \/ StartRender \/ Crash
  <2>1. UNCHANGED <<archived, edition, document>>
    BY <1>1, PullStarts DEF StartRender, Crash, Starts, farVars, dbVars
  <2>2. run'.queue = {} /\ run'.made = {}
    BY <1>1, PullStarts, IdleIsRun DEF StartRender, Crash, Starts, Run
  <2> QED
    BY <2>1, <2>2, DocQuiet
<1>2. CASE UNCHANGED vars
  BY <1>2, DocQuiet DEF vars, farVars, dbVars
<1> QED
  BY <1>1, <1>2, DocOutside, DocPull, DocRender DEF Next

LEMMA DocInit == Init => DocInv
  BY DEF Init, DocInv, NeverPassesForNewer, Idle

\* Whatever is edited while a pass works, what is recorded beside a PDF is no
\* newer than what it shows, so that an outdated one is always listed again.
THEOREM DocumentsCorrect == Spec => []NeverPassesForNewer
<1>1. Init => TypeOK /\ DocInv
  BY InitTypeOK, DocInit
<1>2. TypeOK /\ DocInv /\ [Next]_vars => TypeOK' /\ DocInv'
  BY StepTypeOK, DocStep
<1>3. DocInv => NeverPassesForNewer
  BY DEF DocInv
<1> QED
  BY <1>1, <1>2, <1>3, PTL DEF Spec

----------------------------------------------------------------------------
(* What a pull that nothing disturbs has done so far.                      *)

\* Nothing has changed under the pull, and nothing of it has failed.
Sound == run.phase \in {"pulling", "payroll year"} /\ steady /\ ~run.err

Works ==
    \/ PullCompany \/ PullInvoices \/ PullReport
    \/ \E y \in 0..taxYearEnd(today) : NoPayroll(y) \/ PullYear(y)
    \/ PullPeriod \/ YearDone

Rests ==
    /\ UNCHANGED <<farVars, payVars, snapshots>>
    /\ run'.phase = run.phase /\ run'.todo = run.todo
    /\ run'.year = run.year /\ run'.owed = run.owed

\* A sound pull has just begun, does one of its jobs, or is left alone.
LEMMA SoundStep ==
    ASSUME TypeOK, [Next]_vars, Sound'
    PROVE  StartPull \/ (Sound /\ Works /\ UNCHANGED farVars) \/ (Sound /\ Rests)
<1>1. CASE Outside
  <2>1. steady' = FALSE
    BY <1>1 DEF Outside, Pay, Move, Edit, Midnight, Changes
  <2> QED
    BY <2>1 DEF Sound
<1>2. CASE PullStep
  <2>1. CASE FinishPull
    BY <2>1, IdleIsRun DEF FinishPull, Sound
  <2>2. CASE PeriodFails \/ JobFails
    <3>1. run'.err = TRUE
      BY <2>2, RunFields DEF PeriodFails, JobFails, Run
    <3> QED
      BY <3>1 DEF Sound
  <2>3. CASE Works
    <3>1. UNCHANGED farVars
      BY <2>3 DEF Works, PullCompany, PullInvoices, PullReport, NoPayroll, PullYear, PullPeriod,
                  YearDone, Takes, InYear
    <3>2. run.phase \in {"pulling", "payroll year"}
      BY <2>3 DEF Works, PullCompany, PullInvoices, PullReport, NoPayroll, PullYear, PullPeriod,
                  YearDone, Takes, InYear
    <3>3. run'.err = run.err
      <4>1. CASE PullCompany \/ PullInvoices \/ PullReport
        BY <4>1, RunFields DEF PullCompany, PullInvoices, PullReport, Done, Run
      <4>2. CASE \E y \in 0..taxYearEnd(today) : NoPayroll(y) \/ PullYear(y)
        BY <4>2, RunFields DEF NoPayroll, PullYear, Done, Run
      <4>3. CASE PullPeriod \/ YearDone
        BY <4>3, RunFields DEF PullPeriod, YearDone, Run
      <4> QED
        BY <2>3, <4>1, <4>2, <4>3 DEF Works
    <3> QED
      BY <2>3, <3>1, <3>2, <3>3 DEF Sound, farVars
  <2> QED
    BY <1>2, <2>1, <2>2, <2>3 DEF PullStep, Works
<1>3. CASE StartRender \/ Crash
  <2>1. run'.phase \in {"idle", "listing"}
    BY <1>3, IdleIsRun DEF StartRender, Crash, Starts, Run
  <2> QED
    BY <2>1 DEF Sound
<1>4. CASE List \/ Render \/ RenderFails \/ RenderBudgetRunsOut \/ FinishRender
  <2>1. run'.phase \in {"idle", "rendering"}
    <3>1. CASE List
      BY <3>1, RunFields DEF List, Run
    <3>2. CASE Render \/ RenderFails
      BY <3>2, RunFields DEF Render, RenderFails, Rendering, Run
    <3>3. CASE RenderBudgetRunsOut \/ FinishRender
      BY <3>3, IdleIsRun DEF RenderBudgetRunsOut, FinishRender
    <3> QED
      BY <1>4, <3>1, <3>2, <3>3
  <2> QED
    BY <2>1 DEF Sound
<1>5. CASE SaveFails
  <2>1. run'.err = TRUE
    BY <1>5, RunFields DEF SaveFails, Run
  <2> QED
    BY <2>1 DEF Sound
<1>6. CASE SaveDocument
  <2>1. Rests /\ run'.err = run.err
    BY <1>6, RunFields DEF SaveDocument, Rests, Run
  <2> QED
    BY <2>1 DEF Rests, Sound, farVars
<1>7. CASE UNCHANGED vars
  <2>1. Rests /\ run' = run
    BY <1>7 DEF vars, dbVars, Rests
  <2> QED
    BY <2>1 DEF Rests, Sound, farVars
<1> QED
  BY <1>1, <1>2, <1>3, <1>4, <1>5, <1>6, <1>7 DEF Next, RenderStep

\* A job that is not the one taken still waits.
LEMMA Behind ==
    ASSUME TypeOK, NEW job, NEW taken, Takes(taken), Done, Waiting(job), taken # job
    PROVE  Waiting(job)'
<1>1. run'.todo = Tail(run.todo) /\ Head(run.todo) = taken
  BY RunFields DEF Takes, Done, Run
<1> QED
  BY <1>1, StillWaiting

LEMMA DistinctJobs ==
    /\ \A y, z : YearJob(y) = YearJob(z) => y = z
    /\ \A y : \A kind \in {"company", "invoices", "report"} : JobFor(kind) # YearJob(y)
    /\ JobFor("report") # JobFor("company") /\ JobFor("report") # JobFor("invoices")
  BY DEF JobFor, YearJob

----------------------------------------------------------------------------
(* The captures of a report.                                               *)

SnapInv == Sound => Waiting(JobFor("report")) \/ Captured

\* A capture, and what it leaves of those before it.
LEMMA CaptureAdds ==
    ASSUME TypeOK, Capture
    PROVE  /\ Len(snapshots) \in Nat /\ DOMAIN snapshots = 1..Len(snapshots)
           /\ DOMAIN snapshots' = 1..(Len(snapshots) + 1)
           /\ \A n \in 1..Len(snapshots) : snapshots'[n] = snapshots[n]
           /\ snapshots'[Len(snapshots) + 1] = [day |-> today, says |-> report]
<1> DEFINE Snapshot == [day : Nat, says : BOOLEAN]
           new == [day |-> today, says |-> report]
<1>1. snapshots \in Seq(Snapshot) /\ new \in Snapshot
  BY DEF TypeOK
<1>2. snapshots' = Append(snapshots, new)
  BY DEF Capture
<1> QED
  BY <1>1, <1>2

LEMMA ReportCaptured ==
    ASSUME TypeOK, PullReport
    PROVE  Captured'
<1> DEFINE Snapshot == [day : Nat, says : BOOLEAN]
<1>1. snapshots \in Seq(Snapshot) /\ UNCHANGED <<today, report>>
  BY DEF PullReport, Takes, farVars, TypeOK
<1>2. \A n \in DOMAIN snapshots : snapshots[n] \in Snapshot
  <2> HIDE DEF Snapshot
  <2> QED
    BY <1>1, ElementOfSeq, LenProperties
<1>3. CASE SameAsNewest /\ UNCHANGED snapshots
  <2>1. PICK n \in SameWindow : (\A m \in SameWindow : m <= n) /\ snapshots[n].says = report
    BY <1>3 DEF SameAsNewest
  <2>2. n \in DOMAIN snapshots /\ snapshots[n] = [day |-> today, says |-> report]
    BY <1>2, <2>1 DEF SameWindow
  <2> QED
    BY <1>1, <1>3, <2>1, <2>2 DEF Captured, SameWindow
<1>4. CASE Capture
  BY <1>1, <1>4, CaptureAdds DEF Captured
<1> QED
  BY <1>3, <1>4 DEF PullReport

\* Without a failure, what is added is not what the newest capture says.
LEMMA NothingRepeated ==
    ASSUME TypeOK, PullReport, faults' = faults,
           NEW n \in DOMAIN snapshots', n > 1, n \notin DOMAIN snapshots
    PROVE  snapshots'[n] # snapshots'[n - 1]
<1> DEFINE new == [day |-> today, says |-> report]
           last == Len(snapshots)
<1>1. ~SameAsNewest /\ Capture
  BY DEF PullReport, Fault, TypeOK
<1>2. /\ last \in Nat /\ DOMAIN snapshots = 1..last /\ DOMAIN snapshots' = 1..(last + 1)
      /\ \A m \in 1..last : snapshots'[m] = snapshots[m]
      /\ snapshots'[last + 1] = new
  BY <1>1, CaptureAdds
<1>3. n = last + 1 /\ last \in DOMAIN snapshots
  BY <1>2
<1>4. snapshots[last] # new
  BY <1>1, <1>2, <1>3 DEF SameAsNewest, SameWindow
<1> QED
  BY <1>2, <1>3, <1>4

LEMMA OnlyReports == [Next]_vars => PullReport \/ UNCHANGED snapshots
  BY DEF Next, vars, Outside, Pay, Move, Edit, Midnight, Changes, StartPull, StartRender, Starts,
         Crash, PullStep, PullCompany, PullInvoices, NoPayroll, PullYear, PullPeriod, YearDone,
         PeriodFails, JobFails, FinishPull, RenderStep, List, Render, SaveDocument, RenderFails,
         SaveFails, RenderBudgetRunsOut, FinishRender, dbVars

LEMMA SnapStep == TypeOK /\ SnapInv /\ [Next]_vars => SnapInv'
<1> SUFFICES ASSUME TypeOK, SnapInv, [Next]_vars PROVE SnapInv'
  OBVIOUS
<1>1. ASSUME Sound'
      PROVE  Waiting(JobFor("report"))' \/ Captured'
  <2>1. CASE StartPull
    <3>1. PICK known \in BOOLEAN : run'.todo = Jobs(today, known)
      BY <2>1, PullStarts
    <3>2. \E n \in DOMAIN Jobs(today, known) : Jobs(today, known)[n] = JobFor("report")
      BY Planned DEF TypeOK
    <3> QED
      BY <3>1, <3>2 DEF Waiting
  <2>2. CASE Sound /\ Rests
    <3>1. UNCHANGED <<snapshots, today, report>> /\ run'.todo = run.todo
      BY <2>2 DEF Rests, farVars
    <3> QED
      BY <2>2, <3>1 DEF SnapInv, Waiting, Captured
  <2>3. CASE Sound /\ Works /\ UNCHANGED farVars
    <3>1. CASE PullReport
      BY <3>1, ReportCaptured
    <3>2. CASE ~PullReport
      <4>1. UNCHANGED <<snapshots, today, report>>
        BY <2>3, <3>2, OnlyReports DEF farVars
      <4>2. Captured => Captured'
        BY <4>1 DEF Captured
      <4>3. Waiting(JobFor("report")) => Waiting(JobFor("report"))'
        <5>1. CASE PullCompany \/ PullInvoices
          BY <5>1, Behind, DistinctJobs DEF PullCompany, PullInvoices
        <5>2. ASSUME NEW y, NoPayroll(y)
              PROVE  Waiting(JobFor("report")) => Waiting(JobFor("report"))'
          BY <5>2, Behind, DistinctJobs DEF NoPayroll
        <5>3. ASSUME NEW y, PullYear(y)
              PROVE  Waiting(JobFor("report")) => Waiting(JobFor("report"))'
          <6>1. run'.todo = Tail(run.todo) /\ Head(run.todo) = YearJob(y)
            BY <5>3, RunFields DEF PullYear, Takes, Run
          <6> QED
            BY <6>1, StillWaiting, DistinctJobs
        <5>4. CASE PullPeriod \/ YearDone
          <6>1. run'.todo = run.todo
            BY <5>4, RunFields DEF PullPeriod, YearDone, Run
          <6> QED
            BY <6>1 DEF Waiting
        <5> QED
          BY <2>3, <3>2, <5>1, <5>2, <5>3, <5>4 DEF Works
      <4> QED
        BY <2>3, <4>2, <4>3 DEF SnapInv
    <3> QED
      BY <3>1, <3>2
  <2> QED
    BY <1>1, <2>1, <2>2, <2>3, SoundStep
<1> QED
  BY <1>1 DEF SnapInv

LEMMA SnapInit == Init => SnapInv
<1> SUFFICES ASSUME Init PROVE SnapInv
  OBVIOUS
<1>1. ~Sound
  BY IdleIsRun DEF Init, Sound
<1> QED
  BY <1>1 DEF SnapInv

\* When the report job of a pull that nothing changed under is done without an
\* error, the newest capture of the window says what the report says, and no
\* capture taken without a failure repeats the one before it.
THEOREM SnapshotsCorrect == Spec => SnapshotsFollow
<1> DEFINE Inv == TypeOK /\ SnapInv
           Follows ==
             /\ ReportDone' => Captured'
             /\ \A n \in DOMAIN snapshots' :
                   n > 1 /\ n \notin DOMAIN snapshots /\ faults' = faults
                      => snapshots'[n] # snapshots'[n - 1]
<1>1. Init => Inv
  BY InitTypeOK, SnapInit
<1>2. Inv /\ [Next]_vars => Inv'
  BY StepTypeOK, SnapStep
<1>3. Inv /\ [Next]_vars => Follows
  <2> SUFFICES ASSUME TypeOK, SnapInv, [Next]_vars PROVE Follows
    OBVIOUS
  <2>1. ReportDone' => Captured'
    <3>1. ReportDone' => Sound' /\ ~Waiting(JobFor("report"))'
      BY DEF ReportDone, Sound, Waiting
    <3> QED
      BY <3>1, SnapStep DEF SnapInv
  <2>2. \A n \in DOMAIN snapshots' :
           n > 1 /\ n \notin DOMAIN snapshots /\ faults' = faults
              => snapshots'[n] # snapshots'[n - 1]
    BY OnlyReports, NothingRepeated
  <2> QED
    BY <2>1, <2>2
<1>4. SnapshotsFollow <=> [][Follows]_vars
  BY DEF SnapshotsFollow
<1> HIDE DEF Inv, Follows
<1> QED
  BY <1>1, <1>2, <1>3, <1>4, PTL DEF Spec

----------------------------------------------------------------------------
(* Years of payroll.                                                       *)

\* The archive never lists more of a year than there is, and a year in hand is
\* one the company has payroll for.
PayInv ==
    /\ \A y \in Years : year[y] <= payroll[y] /\ period[y] \subseteq 1..payroll[y]
    /\ run.phase = "payroll year" =>
          run.year \in Years /\ run.owed \subseteq 1..payroll[run.year]

\* The year is archived as it is, and what it lists is archived or still owed.
InHand(y) ==
    /\ run.phase = "payroll year" /\ run.year = y
    /\ year[y] = payroll[y] /\ 1..payroll[y] \subseteq period[y] \cup run.owed

WholeInv ==
    Sound => \A y \in Years :
                y \in payrollYears(today, FALSE) => Waiting(YearJob(y)) \/ InHand(y) \/ Whole(y)

LEMMA Wider ==
    ASSUME NEW m \in Nat, NEW n \in Nat, m <= n
    PROVE  1..m \subseteq 1..n
  OBVIOUS

LEMMA PayQuiet ==
    /\ PayInv /\ UNCHANGED <<payroll, year, period>>
    /\ run'.phase = "payroll year" =>
          run.phase = "payroll year" /\ run'.year = run.year /\ run'.owed \subseteq run.owed
    => PayInv'
  BY DEF PayInv

LEMMA PayPull == TypeOK /\ PayInv /\ PullStep => PayInv'
<1> SUFFICES ASSUME TypeOK, PayInv, PullStep PROVE PayInv'
  OBVIOUS
<1>1. CASE PullCompany \/ PullInvoices \/ PullReport \/ JobFails
           \/ \E y \in 0..taxYearEnd(today) : NoPayroll(y)
  <2>1. UNCHANGED <<payroll, year, period>>
    BY <1>1 DEF PullCompany, PullInvoices, PullReport, JobFails, NoPayroll, Takes, farVars, dbVars,
                payVars
  <2>2. run.phase = "pulling" /\ run'.phase = run.phase
    BY <1>1, RunFields
       DEF PullCompany, PullInvoices, PullReport, JobFails, NoPayroll, Takes, Done, Run
  <2> QED
    BY <2>1, <2>2, PayQuiet
<1>2. ASSUME NEW y \in 0..taxYearEnd(today), PullYear(y)
      PROVE  PayInv'
  <2>1. y \in Years /\ payroll[y] \in Nat
    BY <1>2 DEF PullYear, Periods, TypeOK
  <2>2. year' = [year EXCEPT ![y] = payroll[y]] /\ UNCHANGED <<payroll, period>>
    BY <1>2 DEF PullYear, Takes, farVars
  <2>3. run'.year = y /\ run'.owed = 1..payroll[y]
    BY <1>2, RunFields DEF PullYear, Run
  <2>4. \A z \in Years : year'[z] <= payroll'[z] /\ period'[z] \subseteq 1..payroll'[z]
    <3>1. year'[y] = payroll[y] /\ \A z \in Years \ {y} : year'[z] = year[z]
      BY <2>1, <2>2 DEF TypeOK
    <3>2. \A z \in Years : year[z] <= payroll[z] /\ period[z] \subseteq 1..payroll[z]
      BY DEF PayInv
    <3>3. \A z \in Years : year'[z] <= payroll[z]
      BY <2>1, <3>1, <3>2
    <3> QED
      BY <2>2, <3>2, <3>3
  <2>5. run'.year \in Years /\ run'.owed \subseteq 1..payroll'[run'.year]
    BY <2>1, <2>2, <2>3
  <2> QED
    BY <2>4, <2>5 DEF PayInv
<1>3. CASE PullPeriod
  <2>1. PICK next \in run.owed :
           /\ period' = [period EXCEPT ![run.year] = @ \cup {next}]
           /\ run' = [run EXCEPT !.owed = @ \ {next}]
    BY <1>3 DEF PullPeriod
  <2>2. run.phase = "payroll year" /\ UNCHANGED <<payroll, year>>
    BY <1>3 DEF PullPeriod, InYear, farVars
  <2>3. run'.phase = run.phase /\ run'.year = run.year /\ run'.owed = run.owed \ {next}
    BY <2>1, RunFields DEF Run
  <2>4. run.year \in Years /\ next \in 1..payroll[run.year]
    BY <2>2 DEF PayInv
  <2>5. \A y \in Years : period'[y] \subseteq 1..payroll[y]
    BY <2>1, <2>4 DEF PayInv, TypeOK
  <2> QED
    BY <2>2, <2>3, <2>4, <2>5 DEF PayInv
<1>4. CASE YearDone \/ PeriodFails \/ FinishPull
  <2>1. UNCHANGED <<payroll, year, period>>
    BY <1>4 DEF YearDone, PeriodFails, FinishPull, InYear, farVars, dbVars, payVars
  <2>2. run'.phase \in {"idle", "pulling"}
    BY <1>4, IdleIsRun, RunFields DEF YearDone, PeriodFails, FinishPull, Run
  <2> QED
    BY <2>1, <2>2, PayQuiet
<1> QED
  BY <1>1, <1>2, <1>3, <1>4 DEF PullStep

LEMMA PayStep == TypeOK /\ PayInv /\ [Next]_vars => PayInv'
<1> SUFFICES ASSUME TypeOK, PayInv, [Next]_vars PROVE PayInv'
  OBVIOUS
<1>1. CASE Outside
  <2>1. UNCHANGED <<year, period, run>>
    BY <1>1 DEF Outside, Pay, Move, Edit, Midnight, Changes, dbVars, payVars
  <2>2. \A y \in Years : payroll'[y] \in Nat /\ payroll[y] <= payroll'[y]
    <3>1. CASE UNCHANGED payroll
      BY <3>1 DEF TypeOK
    <3>2. ASSUME NEW z \in Years, Pay(z)
          PROVE  \A y \in Years : payroll'[y] \in Nat /\ payroll[y] <= payroll'[y]
      BY <3>2 DEF Pay, TypeOK
    <3> QED
      BY <1>1, <3>1, <3>2 DEF Outside, Move, Edit, Midnight
  <2>3. \A y \in Years : year[y] \in Nat /\ payroll[y] \in Nat
    BY DEF TypeOK
  <2>4. \A y \in Years : year'[y] <= payroll'[y] /\ period'[y] \subseteq 1..payroll'[y]
    <3>1. \A y \in Years : 1..payroll[y] \subseteq 1..payroll'[y]
      BY <2>2, <2>3, Wider
    <3>2. \A y \in Years : year[y] <= payroll[y] /\ period[y] \subseteq 1..payroll[y]
      BY DEF PayInv
    <3>3. \A y \in Years : year[y] <= payroll'[y]
      BY <2>2, <2>3, <3>2
    <3>4. \A y \in Years : period[y] \subseteq 1..payroll'[y]
      BY <3>1, <3>2
    <3> QED
      BY <2>1, <3>3, <3>4
  <2>5. ASSUME run'.phase = "payroll year"
        PROVE  run'.year \in Years /\ run'.owed \subseteq 1..payroll'[run'.year]
    <3>1. run.year \in Years /\ run.owed \subseteq 1..payroll[run.year]
      BY <2>1, <2>5 DEF PayInv
    <3>2. 1..payroll[run.year] \subseteq 1..payroll'[run.year]
      BY <2>2, <2>3, <3>1, Wider
    <3> QED
      BY <2>1, <3>1, <3>2
  <2> QED
    BY Zenon, <2>4, <2>5 DEF PayInv
<1>2. CASE StartPull \/ StartRender \/ Crash
  <2>1. UNCHANGED <<payroll, year, period>>
    BY <1>2, PullStarts DEF StartRender, Crash, Starts, farVars, dbVars, payVars
  <2>2. run'.phase \in {"idle", "pulling", "listing"}
    BY <1>2, PullStarts, IdleIsRun DEF StartRender, Crash, Starts, Run
  <2> QED
    BY <2>1, <2>2, PayQuiet
<1>3. CASE RenderStep
  <2>1. UNCHANGED <<payroll, year, period>>
    BY <1>3 DEF RenderStep, List, Render, SaveDocument, RenderFails, SaveFails,
                RenderBudgetRunsOut, FinishRender, Rendering, farVars, dbVars, payVars
  <2>2. CASE List \/ RenderBudgetRunsOut \/ FinishRender
    <3>1. run'.phase \in {"idle", "rendering"}
      BY <2>2, IdleIsRun, RunFields DEF List, RenderBudgetRunsOut, FinishRender, Run
    <3> QED
      BY <2>1, <3>1, PayQuiet
  <2>3. CASE Render \/ SaveDocument \/ RenderFails \/ SaveFails
    <3>1. run'.phase = run.phase /\ run'.year = run.year /\ run'.owed = run.owed
      BY <2>3, RunFields DEF Render, SaveDocument, RenderFails, SaveFails, Run
    <3> QED
      BY <2>1, <3>1, PayQuiet
  <2> QED
    BY <1>3, <2>2, <2>3 DEF RenderStep
<1>4. CASE UNCHANGED vars
  BY <1>4, PayQuiet DEF vars, farVars, dbVars, payVars
<1> QED
  BY <1>1, <1>2, <1>3, <1>4, PayPull DEF Next

\* What a sound pull has brought about for a year stays.
LEMMA YearKept ==
    ASSUME TypeOK, PayInv, Sound, Works, UNCHANGED farVars, NEW y \in Years,
           Waiting(YearJob(y)) \/ InHand(y) \/ Whole(y)
    PROVE  (Waiting(YearJob(y)) \/ InHand(y) \/ Whole(y))'
<1>0. payroll[y] \in Nat /\ payroll' = payroll
  BY DEF TypeOK, farVars
<1>1. CASE PullCompany \/ PullInvoices \/ PullReport
  <2>1. Waiting(YearJob(y)) => Waiting(YearJob(y))'
    BY <1>1, Behind, DistinctJobs DEF PullCompany, PullInvoices, PullReport
  <2>2. run.phase = "pulling" /\ UNCHANGED <<year, period>>
    BY <1>1 DEF PullCompany, PullInvoices, PullReport, Takes, payVars
  <2> QED
    BY <1>0, <2>1, <2>2 DEF InHand, Whole
<1>2. ASSUME NEW z \in 0..taxYearEnd(today), NoPayroll(z)
      PROVE  (Waiting(YearJob(y)) \/ Whole(y))'
  <2>1. run.phase = "pulling" /\ UNCHANGED <<year, period>>
    BY <1>2 DEF NoPayroll, Takes, dbVars, payVars
  <2>2. CASE y = z
    <3>1. payroll[y] = 0 /\ year[y] \in Nat
      BY <1>2, <2>2 DEF NoPayroll, Periods, TypeOK
    <3> QED
      BY <1>0, <2>1, <3>1 DEF PayInv, Whole
  <2>3. CASE y # z
    <3>1. Waiting(YearJob(y)) => Waiting(YearJob(y))'
      BY <1>2, <2>3, Behind, DistinctJobs DEF NoPayroll
    <3> QED
      BY <1>0, <2>1, <3>1 DEF InHand, Whole
  <2> QED
    BY <2>2, <2>3
<1>3. ASSUME NEW z \in 0..taxYearEnd(today), PullYear(z)
      PROVE  (Waiting(YearJob(y)) \/ InHand(y) \/ Whole(y))'
  <2>1. run.phase = "pulling" /\ year' = [year EXCEPT ![z] = payroll[z]] /\ period' = period
    BY <1>3 DEF PullYear, Takes
  <2>2. /\ run'.phase = "payroll year" /\ run'.year = z /\ run'.owed = 1..payroll[z]
        /\ run'.todo = Tail(run.todo) /\ Head(run.todo) = YearJob(z)
    BY <1>3, RunFields DEF PullYear, Takes, Run
  <2>3. CASE y = z
    BY <1>0, <2>1, <2>2, <2>3 DEF InHand, TypeOK
  <2>4. CASE y # z
    <3>1. Waiting(YearJob(y)) => Waiting(YearJob(y))'
      BY <2>2, <2>4, StillWaiting, DistinctJobs
    <3> QED
      BY <1>0, <2>1, <2>4, <3>1 DEF InHand, Whole, TypeOK
  <2> QED
    BY <2>3, <2>4
<1>4. CASE PullPeriod
  <2>1. PICK next \in run.owed :
           /\ period' = [period EXCEPT ![run.year] = @ \cup {next}]
           /\ run' = [run EXCEPT !.owed = @ \ {next}]
    BY <1>4 DEF PullPeriod
  <2>2. /\ run.phase = "payroll year" /\ year' = year
        /\ run'.phase = run.phase /\ run'.year = run.year /\ run'.owed = run.owed \ {next}
        /\ run'.todo = run.todo
    BY <1>4, <2>1, RunFields DEF PullPeriod, InYear, Run
  <2>3. run.year \in Years /\ next \in 1..payroll[run.year]
    BY <2>2 DEF PayInv
  <2>4. Whole(y) => Whole(y)'
    BY <1>0, <2>1, <2>2, <2>3 DEF Whole, TypeOK
  <2>5. InHand(y) => InHand(y)'
    BY <1>0, <2>1, <2>2, <2>3 DEF InHand, TypeOK
  <2>6. Waiting(YearJob(y)) => Waiting(YearJob(y))'
    BY <2>2 DEF Waiting
  <2> QED
    BY <2>4, <2>5, <2>6
<1>5. CASE YearDone
  <2>1. run.owed = {} /\ UNCHANGED <<year, period>> /\ run'.todo = run.todo
    BY <1>5, RunFields DEF YearDone, dbVars, payVars, Run
  <2>2. InHand(y) => Whole(y)
    BY <2>1 DEF InHand, Whole, PayInv
  <2> QED
    BY <1>0, <2>1, <2>2 DEF Whole, Waiting
<1> QED
  BY <1>1, <1>2, <1>3, <1>4, <1>5 DEF Works

LEMMA WholeStep == TypeOK /\ PayInv /\ WholeInv /\ [Next]_vars => WholeInv'
<1> SUFFICES ASSUME TypeOK, PayInv, WholeInv, [Next]_vars, Sound',
                    NEW y \in Years, y \in payrollYears(today', FALSE)
             PROVE  (Waiting(YearJob(y)) \/ InHand(y) \/ Whole(y))'
  BY DEF WholeInv
<1>1. CASE StartPull
  <2>1. PICK known \in BOOLEAN : run'.todo = Jobs(today, known)
    BY <1>1, PullStarts
  <2>2. today \in Nat /\ today' = today
    BY <1>1, PullStarts DEF TypeOK
  <2>3. y \in payrollYears(today, known)
    BY <2>2, UsualYears
  <2>4. \E n \in DOMAIN Jobs(today, known) : Jobs(today, known)[n] = YearJob(y)
    BY <2>2, <2>3, Planned
  <2> QED
    BY <2>1, <2>4 DEF Waiting
<1>2. CASE Sound /\ Rests
  <2>1. UNCHANGED <<today, payroll, year, period>>
    BY <1>2 DEF Rests, farVars, payVars
  <2>2. run'.phase = run.phase /\ run'.todo = run.todo /\ run'.year = run.year
        /\ run'.owed = run.owed
    BY <1>2 DEF Rests
  <2>3. Waiting(YearJob(y)) \/ InHand(y) \/ Whole(y)
    BY <1>2, <2>1 DEF WholeInv
  <2> QED
    BY <2>1, <2>2, <2>3 DEF Waiting, InHand, Whole
<1>3. CASE Sound /\ Works /\ UNCHANGED farVars
  <2>1. Waiting(YearJob(y)) \/ InHand(y) \/ Whole(y)
    BY <1>3 DEF WholeInv, farVars
  <2> QED
    BY <1>3, <2>1, YearKept
<1> QED
  BY <1>1, <1>2, <1>3, SoundStep

LEMMA YearsInit == Init => PayInv /\ WholeInv
<1> SUFFICES ASSUME Init PROVE PayInv /\ WholeInv
  OBVIOUS
<1>1. run.phase = "idle"
  BY IdleIsRun DEF Init
<1>2. \A y \in Years : payroll[y] \in Nat /\ year[y] = 0 /\ period[y] = {}
  BY DEF Init
<1> QED
  BY <1>1, <1>2 DEF PayInv, WholeInv, Sound

\* A pull that nothing changed under and that reported no error leaves every
\* year of the usual range whole, wherever the calendar stands and however many
\* pulls failed or died before it.
THEOREM YearsCorrect == Spec => FinishedMeansWhole
<1> DEFINE Inv == TypeOK /\ PayInv /\ WholeInv
           Ends == run.phase = "pulling" /\ run'.phase = "idle" /\ faults' = faults
                      /\ steady /\ ~run.err
                   => \A y \in Years : y \in payrollYears(today, FALSE) => Whole(y)
<1>1. Init => Inv
  BY InitTypeOK, YearsInit
<1>2. Inv /\ [Next]_vars => Inv'
  BY StepTypeOK, PayStep, WholeStep
<1>3. Inv /\ [Next]_vars => Ends
  <2> SUFFICES ASSUME TypeOK, PayInv, WholeInv, [Next]_vars,
                      run.phase = "pulling", run'.phase = "idle", faults' = faults,
                      steady, ~run.err, NEW y \in Years, y \in payrollYears(today, FALSE)
               PROVE  Whole(y)
    OBVIOUS
  <2>1. run.todo = <<>>
    <3>1. CASE FinishPull
      BY <3>1 DEF FinishPull
    <3>2. CASE Crash \/ Outside \/ StartPull \/ StartRender \/ UNCHANGED vars
      <4>1. CASE Crash
        BY <4>1 DEF Crash, Fault, TypeOK
      <4>2. CASE Outside \/ UNCHANGED vars
        BY <4>2 DEF Outside, Pay, Move, Edit, Midnight, Changes, vars
      <4>3. CASE StartPull \/ StartRender
        BY <4>3, PullStarts DEF StartRender, Starts
      <4> QED
        BY <3>2, <4>1, <4>2, <4>3
    <3>3. CASE RenderStep
      <4>1. CASE SaveDocument \/ SaveFails
        BY <4>1, RunFields DEF SaveDocument, SaveFails, Run
      <4> QED
        BY <3>3, <4>1 DEF RenderStep, List, Render, RenderFails, RenderBudgetRunsOut,
                          FinishRender, Rendering
    <3>4. CASE PullStep /\ ~FinishPull
      <4>1. CASE PullCompany \/ PullInvoices \/ PullReport \/ JobFails
                 \/ \E z \in 0..taxYearEnd(today) : NoPayroll(z) \/ PullYear(z)
        <5>1. run'.phase \in {"pulling", "payroll year"}
          BY <4>1, RunFields DEF PullCompany, PullInvoices, PullReport, JobFails, NoPayroll,
                                 PullYear, Done, Run
        <5> QED
          BY <5>1
      <4>2. CASE PullPeriod \/ YearDone \/ PeriodFails
        BY <4>2 DEF PullPeriod, YearDone, PeriodFails, InYear
      <4> QED
        BY <3>4, <4>1, <4>2 DEF PullStep
    <3> QED
      BY <3>1, <3>2, <3>3, <3>4 DEF Next
  <2>2. ~Waiting(YearJob(y)) /\ ~InHand(y)
    BY <2>1 DEF Waiting, InHand
  <2> QED
    BY <2>2 DEF WholeInv, Sound
<1>4. FinishedMeansWhole <=> [][Ends]_vars
  BY DEF FinishedMeansWhole
<1> HIDE DEF Inv, Ends
<1> QED
  BY <1>1, <1>2, <1>3, <1>4, PTL DEF Spec
=============================================================================
