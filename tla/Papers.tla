------------------------------- MODULE Papers -------------------------------
(***************************************************************************)
(* What a pull reads that is not a collection, and what is rendered from   *)
(* what it read: the company document, payroll by tax year and period, the *)
(* snapshot of a report, and the PDFs of fasync docs render.               *)
(*                                                                         *)
(* Days are numbers, and the calendar is reduced to what the arithmetic of *)
(* tax years looks at: a year has DaysInYear days, and its tax year ends   *)
(* before the day TaxDay of it.  The jobs of a pull touch rows of their    *)
(* own, so they are taken one at a time and in the order they are planned; *)
(* both commands hold the run lock (Session), so they do not overlap.      *)
(***************************************************************************)
EXTENDS Integers, Sequences, FiniteSets

CONSTANTS
    DaysInYear, TaxDay,     \* the calendar, see above
    FirstYearEnd,           \* first_accounting_year_end of the company
    DefaultPayrollYears,    \* the years of payroll that are tried at least
    maxPayrollYears,        \* and at most
    Years,                  \* the tax years the company may have payroll for
    Invoices,               \* the records a PDF is rendered for, in their order
    Unrenderable,           \* those whose rendering always fails
    RenderLimit             \* what one pass renders at most

CONSTANTS
    FirstDay, LastDay,      \* bound: the days a behaviour lasts
    MaxPeriods,             \* bound: payroll periods of a year
    MaxChanges,             \* bound: changes at the far end
    MaxFaults               \* bound: failures and crashes

Docs == {Invoices[n] : n \in DOMAIN Invoices}

ASSUME PapersAssumption ==
    /\ DaysInYear \in Nat \ {0} /\ TaxDay \in 0..DaysInYear
    /\ FirstYearEnd \in Nat
    /\ DefaultPayrollYears \in Nat \ {0} /\ maxPayrollYears \in Nat \ {0}
    /\ DefaultPayrollYears <= maxPayrollYears
    /\ Years \subseteq Nat /\ IsFiniteSet(Years)
    /\ Invoices \in Seq(Docs) /\ Cardinality(Docs) = Len(Invoices)
    /\ Unrenderable \subseteq Docs
    /\ RenderLimit \in Nat \ {0}
    /\ FirstDay \in Nat /\ LastDay \in Nat
    /\ MaxPeriods \in Nat \ {0} /\ MaxChanges \in Nat /\ MaxFaults \in Nat

VARIABLES
    today,
    payroll,    \* far end: the number of periods of each tax year
    report,     \* far end: what the report says
    edition,    \* far end: the version of each invoice
    company,    \* records: the company document is archived
    year,       \* records: the number of periods the archived year lists
    period,     \* records: the periods archived for each year
    archived,   \* records: the version of each live invoice, 0 for none
    document,   \* documents: what each PDF shows and was rendered for
    snapshots,  \* report_snapshots, oldest first
    run,        \* the command in progress
    steady,     \* auxiliary: nothing has changed since it began
    changes,    \* auxiliary: bounded by MaxChanges
    faults      \* auxiliary: bounded by MaxFaults

farVars  == <<today, payroll, report, edition, changes, steady>>
payVars  == <<company, year, period>>
dbVars   == <<payVars, archived, document, snapshots>>
vars     == <<farVars, dbVars, run, faults>>

----------------------------------------------------------------------------
(* The years of payroll.                                                   *)

CalendarYear(day) == day \div DaysInYear

\* April 2025 to March 2026 is year 2026.
taxYearEnd(day) ==
    IF day % DaysInYear < TaxDay THEN CalendarYear(day) ELSE CalendarYear(day) + 1

\* firstAccountingYear; known says whether the company document is archived.
\* The code checks the cap after the company's year has widened the range.
Earliest(day, known) ==
    LET latest  == taxYearEnd(day)
        usual   == latest - DefaultPayrollYears + 1
        first   == CalendarYear(FirstYearEnd)
        widened == IF known /\ first < usual THEN first ELSE usual
    IN  IF latest - widened + 1 > maxPayrollYears
        THEN latest - maxPayrollYears + 1 ELSE widened

payrollYears(day, known) == Earliest(day, known)..taxYearEnd(day)

----------------------------------------------------------------------------
(* Types                                                                   *)

\* The year is that of a job of payroll.
Job == [kind : {"company", "invoices", "year", "report"}, year : Int]

JobFor(kind) == [kind |-> kind, year |-> 0]
YearJob(y)   == [kind |-> "year", year |-> y]

\* Newest first.
YearJobs(day, known) ==
    LET years == payrollYears(day, known)
    IN  [n \in 1..Cardinality(years) |-> YearJob(taxYearEnd(day) - n + 1)]

Phases == {"idle", "pulling", "payroll year", "listing", "rendering"}

\* A stale document, with the version it is stale for, and its PDF once rendered.
Task == [doc : Docs, for : Nat \ {0}]
Pdf  == [doc : Docs, for : Nat \ {0}, shows : Nat]

Run ==
    [phase : Phases,
     todo : Seq(Job),                \* a pull: the jobs to come
     year : Nat,                     \* the year of payroll in hand
     owed : SUBSET (1..MaxPeriods),  \* the periods it still has to archive
     queue : SUBSET Task,            \* a pass: what it still has to render
     made : SUBSET Pdf,              \* what is rendered and not recorded
     err : BOOLEAN]

Idle ==
    [phase |-> "idle", todo |-> <<>>, year |-> 0, owed |-> {}, queue |-> {},
     made |-> {}, err |-> FALSE]

\* Type correctness of the archive, the run and its jobs.
TypeOK ==
    /\ today \in Nat
    /\ payroll \in [Years -> 0..MaxPeriods] /\ report \in BOOLEAN /\ edition \in [Docs -> Nat]
    /\ company \in BOOLEAN
    /\ year \in [Years -> Nat]
    /\ period \in [Years -> SUBSET (1..MaxPeriods)]
    /\ archived \in [Docs -> Nat]
    /\ document \in [Docs -> [shows : Nat, for : Nat]]
    /\ snapshots \in Seq([day : Nat, says : BOOLEAN])
    /\ run \in Run
    /\ steady \in BOOLEAN /\ changes \in Nat /\ faults \in Nat

Init ==
    /\ today = FirstDay
    /\ payroll = [y \in Years |-> IF y > taxYearEnd(FirstDay) THEN 0 ELSE 1]
    /\ report = FALSE
    /\ edition = [d \in Docs |-> 1]
    /\ company = FALSE
    /\ year = [y \in Years |-> 0] /\ period = [y \in Years |-> {}]
    /\ archived = [d \in Docs |-> 0]
    /\ document = [d \in Docs |-> [shows |-> 0, for |-> 0]]
    /\ snapshots = <<>>
    /\ run = Idle
    /\ steady = TRUE /\ changes = 0 /\ faults = 0

----------------------------------------------------------------------------
(* The company and the calendar.                                           *)

Changes ==
    /\ changes < MaxChanges /\ changes' = changes + 1
    /\ steady' = FALSE
    /\ UNCHANGED <<today, dbVars, run, faults>>

\* A period is run, a figure moves, an invoice is edited.
Pay(y) ==
    /\ y <= taxYearEnd(today) /\ payroll[y] < MaxPeriods
    /\ payroll' = [payroll EXCEPT ![y] = @ + 1]
    /\ Changes /\ UNCHANGED <<report, edition>>

Move == report' = ~report /\ Changes /\ UNCHANGED <<payroll, edition>>

Edit(d) ==
    /\ edition' = [edition EXCEPT ![d] = @ + 1]
    /\ Changes /\ UNCHANGED <<payroll, report>>

Midnight ==
    /\ today < LastDay /\ today' = today + 1
    /\ steady' = FALSE
    /\ UNCHANGED <<payroll, report, edition, changes, dbVars, run, faults>>

Fault   == faults < MaxFaults /\ faults' = faults + 1
NoFault == UNCHANGED faults

----------------------------------------------------------------------------
(* A pull.                                                                 *)

Starts(r) ==
    /\ run.phase = "idle"
    /\ run' = r
    /\ steady' = TRUE
    /\ UNCHANGED <<today, payroll, report, edition, changes, dbVars>>

\* plan: the years come from the company document of an earlier run, and are the
\* usual ones when it cannot be read, without an error.
StartPull ==
    \E known \in {company, FALSE} :
        /\ IF known = company THEN NoFault ELSE Fault
        /\ Starts([Idle EXCEPT !.phase = "pulling",
                     !.todo = <<JobFor("company"), JobFor("invoices")>>
                                  \o YearJobs(today, known) \o <<JobFor("report")>>])

Takes(job) ==
    /\ run.phase = "pulling" /\ run.todo # <<>> /\ Head(run.todo) = job
    /\ UNCHANGED farVars

Done == run' = [run EXCEPT !.todo = Tail(@)]

\* pullDocument, for a singleton.
PullCompany ==
    /\ Takes(JobFor("company")) /\ Done /\ NoFault
    /\ company' = TRUE
    /\ UNCHANGED <<year, period, archived, document, snapshots>>

\* The collection the PDFs hang off, read in one piece here.
PullInvoices ==
    /\ Takes(JobFor("invoices")) /\ Done /\ NoFault
    /\ archived' = edition
    /\ UNCHANGED <<payVars, document, snapshots>>

\* reportWindow, when the run gives none: a year up to today.
SameWindow == {n \in DOMAIN snapshots : snapshots[n].day = today}

\* Mutated: a body that was ever captured for the window is not captured again.
CapturedBefore == \E n \in SameWindow : snapshots[n].says = report

\* The newest capture of the same window decides.
SameAsNewest ==
    \E n \in SameWindow :
        (\A m \in SameWindow : m <= n) /\ snapshots[n].says = report

Capture == snapshots' = Append(snapshots, [day |-> today, says |-> report])

\* pullReport, SaveReportSnapshot: when the newest capture cannot be read, that is
\* no error, and the report is captured whatever it says.
PullReport ==
    /\ Takes(JobFor("report")) /\ Done
    /\ \/ SameAsNewest /\ NoFault /\ UNCHANGED snapshots
       \/ ~SameAsNewest /\ NoFault /\ Capture
       \/ SameAsNewest /\ Fault /\ Capture
    /\ UNCHANGED <<payVars, archived, document>>

Periods(y) == IF y \in Years THEN payroll[y] ELSE 0

\* fetchYear: a year that is not there, or empty, is completed with nothing.
NoPayroll(y) ==
    /\ Takes(YearJob(y)) /\ Periods(y) = 0
    /\ Done /\ NoFault
    /\ UNCHANGED dbVars

\* pullPayrollYear: the year first, then the periods it lists.
PullYear(y) ==
    /\ Takes(YearJob(y)) /\ Periods(y) > 0
    /\ year' = [year EXCEPT ![y] = payroll[y]]
    /\ run' = [run EXCEPT !.phase = "payroll year", !.year = y,
                          !.owed = 1..payroll[y], !.todo = Tail(@)]
    /\ NoFault
    /\ UNCHANGED <<company, period, archived, document, snapshots>>

InYear == run.phase = "payroll year" /\ UNCHANGED farVars

\* archivePeriod, in the order of the year.
PullPeriod ==
    /\ InYear /\ run.owed # {}
    /\ \E next \in run.owed :
          /\ \A m \in run.owed : next <= m
          /\ period' = [period EXCEPT ![run.year] = @ \cup {next}]
          /\ run' = [run EXCEPT !.owed = @ \ {next}]
    /\ NoFault
    /\ UNCHANGED <<company, year, archived, document, snapshots>>

YearDone ==
    /\ InYear /\ run.owed = {}
    /\ run' = [run EXCEPT !.phase = "pulling"]
    /\ NoFault /\ UNCHANGED dbVars

\* Mutated: a period that fails is passed over.
PeriodPassedOver ==
    /\ InYear /\ run.owed # {} /\ Fault
    /\ \E n \in run.owed : run' = [run EXCEPT !.owed = @ \ {n}]
    /\ UNCHANGED dbVars

\* A request or a statement fails, or the budget runs out between two periods:
\* the rest of the year waits for the next run.
PeriodFails ==
    /\ InYear /\ run.owed # {} /\ Fault
    /\ run' = [run EXCEPT !.phase = "pulling", !.owed = {}, !.err = TRUE]
    /\ UNCHANGED dbVars

JobFails ==
    /\ run.todo # <<>> /\ Takes(Head(run.todo)) /\ Fault
    /\ run' = [run EXCEPT !.todo = Tail(@), !.err = TRUE]
    /\ UNCHANGED dbVars

FinishPull ==
    /\ run.phase = "pulling" /\ run.todo = <<>>
    /\ run' = Idle
    /\ NoFault /\ UNCHANGED <<farVars, dbVars>>

----------------------------------------------------------------------------
(* fasync docs render.                                                     *)

StartRender == NoFault /\ Starts([Idle EXCEPT !.phase = "listing"])

\* Mutated: whether there is a live record is not looked at.
Undocumented(d) == document[d].shows = 0 \/ document[d].for # archived[d]

Stale(d) ==
    archived[d] # 0 /\ (document[d].shows = 0 \/ document[d].for # archived[d])

Before(d, e) ==
    \E m, n \in DOMAIN Invoices : m < n /\ Invoices[m] = d /\ Invoices[n] = e

\* The first of the stale ones, as many as a pass takes.
Pending ==
    {d \in Docs : Stale(d)
        /\ Cardinality({e \in Docs : Stale(e) /\ Before(e, d)}) < RenderLimit}

\* PendingDocuments, as a snapshot.
List ==
    /\ run.phase = "listing"
    /\ run' = [run EXCEPT !.phase = "rendering",
                          !.queue = {[doc |-> d, for |-> archived[d]] : d \in Pending}]
    /\ NoFault /\ UNCHANGED <<farVars, dbVars>>

\* One PDF at a time, in the order of the list.
Rendering == run.phase = "rendering" /\ run.made = {} /\ UNCHANGED farVars

Up(task) == task \in run.queue /\ \A other \in run.queue : ~Before(other.doc, task.doc)

\* renderOne: FreeAgent renders the invoice as it is now.
Render ==
    /\ Rendering
    /\ \E task \in run.queue :
          /\ Up(task) /\ task.doc \notin Unrenderable
          /\ run' = [run EXCEPT !.queue = @ \ {task},
                                !.made = {[doc |-> task.doc, for |-> task.for,
                                           shows |-> edition[task.doc]]}]
    /\ NoFault /\ UNCHANGED dbVars

\* Mutated: the conflict keeps the digest that is there.
KeepDigest(old, new) == [new EXCEPT !.shows = IF old.shows = 0 THEN @ ELSE old.shows]

\* The conflict clause of SaveDocument.
Replaced(old, new) == new

SaveDocument ==
    /\ \E pdf \in run.made :
          document' = [document EXCEPT ![pdf.doc] =
                          Replaced(@, [shows |-> pdf.shows, for |-> pdf.for])]
    /\ run' = [run EXCEPT !.made = {}]
    /\ NoFault /\ UNCHANGED <<farVars, payVars, archived, snapshots>>

\* Mutated: the pass ends at the first that fails.
RenderGivesUp ==
    /\ Rendering
    /\ \E task \in run.queue :
          Up(task) /\ IF task.doc \in Unrenderable THEN NoFault ELSE Fault
    /\ run' = Idle
    /\ UNCHANGED dbVars

\* One that fails does not stop the others.
RenderFails ==
    /\ Rendering
    /\ \E task \in run.queue :
          /\ Up(task)
          /\ IF task.doc \in Unrenderable THEN NoFault ELSE Fault
          /\ run' = [run EXCEPT !.queue = @ \ {task}, !.err = TRUE]
    /\ UNCHANGED dbVars

\* The blob is in place, and recording it fails.
SaveFails ==
    /\ run.made # {} /\ Fault
    /\ run' = [run EXCEPT !.made = {}, !.err = TRUE]
    /\ UNCHANGED <<farVars, dbVars>>

RenderBudgetRunsOut ==
    /\ Rendering /\ run.queue # {} /\ Fault
    /\ run' = Idle /\ UNCHANGED dbVars

FinishRender ==
    /\ Rendering /\ run.queue = {}
    /\ run' = Idle
    /\ NoFault /\ UNCHANGED dbVars

----------------------------------------------------------------------------

Crash ==
    /\ run.phase # "idle" /\ Fault
    /\ run' = Idle
    /\ UNCHANGED <<farVars, dbVars>>

PullStep ==
    \/ PullCompany \/ PullInvoices \/ PullReport
    \/ \E y \in 0..taxYearEnd(today) : NoPayroll(y) \/ PullYear(y)
    \/ PullPeriod \/ YearDone \/ PeriodFails \/ JobFails
    \/ FinishPull

RenderStep ==
    \/ List \/ Render \/ SaveDocument \/ RenderFails \/ SaveFails
    \/ RenderBudgetRunsOut \/ FinishRender

Outside ==
    \/ \E y \in Years : Pay(y)
    \/ Move \/ \E d \in Docs : Edit(d)
    \/ Midnight

Next == Outside \/ StartPull \/ PullStep \/ StartRender \/ RenderStep \/ Crash

Spec == Init /\ [][Next]_vars

\* The schedule pulls again and again, somebody renders again and again, and a
\* command that has started goes on.
Fairness == WF_vars(PullStep \/ RenderStep) /\ SF_vars(StartPull) /\ SF_vars(StartRender)

FairSpec == Spec /\ Fairness

----------------------------------------------------------------------------
(* What makes the papers right.                                            *)

\* The years anybody could ask for: back to the year the company's first
\* accounting year ends in, but never further than the cap.
InReach(y) ==
    /\ y <= taxYearEnd(today)
    /\ y > taxYearEnd(today) - maxPayrollYears
    /\ y >= CalendarYear(FirstYearEnd) \/ y > taxYearEnd(today) - DefaultPayrollYears

Whole(y) == year[y] = payroll[y] /\ period[y] = 1..payroll[y]

\* A pull that nothing changed under, and that reported no error, leaves every
\* year of the usual range whole: the year, and each period it lists
\* (pullPayrollYear).
FinishedMeansWhole ==
    [][run.phase = "pulling" /\ run'.phase = "idle" /\ faults' = faults
          /\ steady /\ ~run.err
       => \A y \in Years : y \in payrollYears(today, FALSE) => Whole(y)]_vars

\* A PDF is never recorded for a version of its invoice that is newer than what
\* it shows: whatever is edited while a pass works, a document that is out of
\* date is known to be (renderOne, SaveDocument, PendingDocuments).
NeverPassesForNewer ==
    \A d \in Docs : document[d].shows >= document[d].for

Captured ==
    \E n \in DOMAIN snapshots :
        /\ snapshots[n] = [day |-> today, says |-> report]
        /\ \A m \in DOMAIN snapshots : snapshots[m].day = today => m <= n

ReportDone == run.phase = "pulling" /\ run.todo = <<>> /\ steady /\ ~run.err

\* A step after which the report job of a steady pull is done leaves as the newest
\* capture of the window what the report says, also when the captures could not be
\* looked at; and a capture that is added while nothing fails does not repeat the
\* one before it (SaveReportSnapshot).
SnapshotsFollow ==
    [][/\ ReportDone' => Captured'
       /\ \A n \in DOMAIN snapshots' : n > 1 /\ n \notin DOMAIN snapshots /\ faults' = faults
             => snapshots'[n] # snapshots'[n - 1]]_vars

\* In the end every year in reach is whole, also those that only the company
\* document, archived by the run itself, puts in reach, and every invoice that
\* can be rendered has the PDF of its last version, whatever failed before it in
\* the queue: as long as a pass takes more invoices than there are that never
\* render, which come first in every list (payrollYears, RenderDocuments).
EventuallyComplete ==
    <>[](/\ \A y \in Years : InReach(y) => Whole(y)
         /\ Cardinality(Unrenderable) < RenderLimit
            => \A d \in Docs \ Unrenderable : document[d].shows = edition[d])
=============================================================================
