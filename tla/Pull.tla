-------------------------------- MODULE Pull --------------------------------
(***************************************************************************)
(* engine.Pull for one family of records: the runs of one account, one     *)
(* after the other, each a set of jobs (one per scope of the family) read  *)
(* by concurrent workers, then the family's sweep, then the run's row.     *)
(*                                                                         *)
(* The archive is SQLite behind one connection, so every statement or      *)
(* transaction is one step here, and a crash, a cancellation (SIGINT,      *)
(* SIGTERM) or a failure can come between any two of them.                 *)
(***************************************************************************)
EXTENDS FarEnd, Archive

CONSTANTS
    Scope,              \* the scopes the family is read by: {""} for a plain one
    ScopeOf,            \* the scope that lists a record
    InWindow,           \* records whose business date is inside --from/--to
    Options,            \* the engine.Options the command line is used with
    Overlap,            \* Options.Overlap
    Workers,            \* Options.Concurrency
    PageSize,           \* records per page
    ReconcileInterval,  \* Options.ReconcileInterval
    MinSweepFloor,      \* MinSweepFloor
    SweepNum, SweepDen, \* Options.MaxSweepFraction is SweepNum / SweepDen
    HonoursFilter,      \* sync_state.supports_updated_since is not FALSE
    BankScoped          \* Classify(meta) = ClassBankScoped

CONSTANTS               \* what the surroundings may do
    MaxWalk,            \* bound: the last page of a job comes this long after its start
    MaxFaults,          \* bound: failures, crashes and cancellations in a behaviour
    PageShift,          \* editing the collection shifts records between pages
    MidWalkForbidden    \* a 403 or 404 may come after the first page

Modes == {"incremental", "full", "ad-hoc"}

\* What a caller asks of a run.  since and until are --changed-since and
\* --changed-until (0: not given), window is --from/--to, sweep is "always" for
\* --reconcile and "if-due" for --reconcile-if-due, bounded is
\* MaxSweepFraction < 1.
PullOptions ==
    [mode : Modes, since : Nat, until : Nat, window : BOOLEAN,
     sweep : {"never", "if-due", "always"}, dry : BOOLEAN, bounded : BOOLEAN]

NoOptions ==
    [mode |-> "incremental", since |-> 0, until |-> 0, window |-> FALSE,
     sweep |-> "never", dry |-> FALSE, bounded |-> TRUE]

\* The flags of fasync pull and fasync reconcile that the engine looks at.
Flags ==
    [full : BOOLEAN, since : Nat, until : Nat, window : BOOLEAN,
     sweep : {"never", "if-due", "always"}, dry : BOOLEAN, bounded : BOOLEAN]

\* pullFlags.options: an explicit window makes the run ad-hoc.
OptionsOf(flags) ==
    [mode    |-> IF flags.window \/ flags.since # 0 \/ flags.until # 0 THEN "ad-hoc"
                 ELSE IF flags.full THEN "full"
                 ELSE "incremental",
     since   |-> flags.since,
     until   |-> flags.until,
     window  |-> flags.window,
     sweep   |-> flags.sweep,
     dry     |-> flags.dry,
     bounded |-> flags.bounded]

\* cmdReconcile
ReconcileOptions(flags) ==
    [OptionsOf(flags) EXCEPT !.mode = "full", !.sweep = "always"]

ASSUME PullAssumption ==
    /\ ScopeOf \in [Rec -> Scope]
    /\ InWindow \subseteq Rec
    /\ IsFiniteSet(Rec)
    /\ Options \subseteq PullOptions
    /\ Overlap \in Nat
    /\ Workers \in Nat \ {0}
    /\ PageSize \in Nat \ {0}
    /\ ReconcileInterval \in Nat
    /\ MinSweepFloor \in Nat
    /\ SweepNum \in Nat /\ SweepDen \in Nat \ {0}
    /\ HonoursFilter \in BOOLEAN
    /\ BankScoped \in BOOLEAN
    /\ MaxWalk \in Nat
    /\ MaxFaults \in Nat
    /\ PageShift \in BOOLEAN
    /\ MidWalkForbidden \in BOOLEAN

VARIABLES
    arch,       \* records: a row per url
    queue,      \* attachments: the body whose attachments were recorded last
    cursor,     \* sync_state.cursor_updated_at of each scope
    reconciled, \* sync_state.last_full_reconcile_at of the family
    runRow,     \* sync_runs: the row of the newest run
    run,        \* the run in progress
    job,        \* its jobs: FamilyResult and the walk behind it
    held,       \* auxiliary: live rows when a run that may sweep started
    faults      \* auxiliary: failures so far, bounded by MaxFaults

dbVars == <<arch, queue, cursor, reconciled, runRow>>
vars   == <<farVars, dbVars, run, job, held, faults>>

----------------------------------------------------------------------------
(* Types                                                                   *)

Phases == {"idle", "planning", "reading", "sweeping", "stamping", "finishing"}

Run ==
    [phase : Phases, opt : PullOptions, cancelled : BOOLEAN,
     spent : BOOLEAN,    \* the request or time budget has run out
     tripped : BOOLEAN,  \* a worker saw that it has: budget.tripped
     added : Nat,        \* addedThisRun: Inserted and Restored of all the jobs
     failed : BOOLEAN]   \* the sweep left an error on the family

NoRun ==
    [phase |-> "idle", opt |-> NoOptions, cancelled |-> FALSE,
     spent |-> FALSE, tripped |-> FALSE, added |-> 0, failed |-> FALSE]

\* "queued" jobs have not been handed to a worker, "reading" ones are about to
\* ask for a page, "attaching" ones have archived its records and not yet its
\* attachments, "closing" ones have left the page loop.
JobSteps  == {"none", "queued", "reading", "attaching", "closing", "done"}
Active    == {"reading", "attaching", "closing"}

Job ==
    [pc : JobSteps,
     start : Nat,          \* sweepStart
     since : Int,          \* the updated_since asked for; 0 or less: none
     window : BOOLEAN,     \* from_date and to_date were asked for
     full : BOOLEAN,       \* FullScan
     high : Nat,           \* highWater
     owed : SUBSET Rec,    \* records the pages to come still have to list
     batch : SUBSET Rec,   \* records of the page in hand
     fresh : Nat,          \* how many of them the archive inserted or restored
     last : BOOLEAN,       \* the page in hand has no next page
     ok : BOOLEAN,         \* completed
     unavailable : BOOLEAN,
     err : BOOLEAN]

NoJob ==
    [pc |-> "none", start |-> 0, since |-> 0, window |-> FALSE, full |-> FALSE,
     high |-> 0, owed |-> {}, batch |-> {}, fresh |-> 0, last |-> FALSE, ok |-> FALSE,
     unavailable |-> FALSE, err |-> FALSE]

\* Type correctness of the archive, of the run and of its jobs.
TypeOK ==
    /\ FarType
    /\ arch \in [Rec -> Row]
    /\ queue \in [Rec -> Nat]
    /\ cursor \in [Scope -> Nat]
    /\ reconciled \in Nat
    /\ runRow \in RunRows
    /\ run \in Run
    /\ job \in [Scope -> Job]
    /\ held \in Nat
    /\ faults \in Nat

Init ==
    /\ FarInit
    /\ arch = [r \in Rec |-> NoRow]
    /\ queue = [r \in Rec |-> 0]
    /\ cursor = [s \in Scope |-> 0]
    /\ reconciled = 0
    /\ runRow = "none"
    /\ run = NoRun
    /\ job = [s \in Scope |-> NoJob]
    /\ held = 0
    /\ faults = 0

----------------------------------------------------------------------------
(* What a job asks for and what the far end lists.                         *)

AdvancesCursor(mode) == mode \in {"incremental", "full"}

\* listOptions: how far back to read, and whether that is a full scan.  The
\* code sends --until nowhere.
ListOptions(s) ==
    IF run.opt.mode = "ad-hoc"
    THEN [since |-> run.opt.since, window |-> run.opt.window,
          full |-> run.opt.since = 0]
    ELSE IF run.opt.mode = "full" \/ ~HonoursFilter \/ cursor[s] = 0
    THEN [since |-> 0, window |-> FALSE, full |-> TRUE]
    ELSE [since |-> cursor[s] - Overlap, window |-> FALSE, full |-> FALSE]

\* updated_since is inclusive, and from_date/to_date select on the business date.
Lists(s, ask, r) ==
    /\ ScopeOf[r] = s
    /\ far[r].live
    /\ far[r].upd >= ask.since
    /\ ask.window => r \in InWindow

Listed(s) == {r \in Rec : Lists(s, job[s], r)}

\* Only an incremental read of a family that is not bank scoped asks for an order.
Sorted(s) == run.opt.mode = "incremental" /\ ~job[s].full /\ ~BankScoped

\* What is left to list once a page holds recs.
Rest(s, recs) == (job[s].owed \cap Listed(s)) \ recs

\* A page the far end may answer with: the last one leaves nothing to list, any
\* other makes progress.  Records that changed since the walk began may be
\* listed again.
Page(s, recs, last) ==
    /\ recs \subseteq Listed(s)
    /\ Cardinality(recs) <= PageSize
    /\ IF last THEN Rest(s, recs) = {} ELSE recs \cap job[s].owed # {}
    /\ Sorted(s) => \A x \in recs, y \in Rest(s, recs) : far[x].upd <= far[y].upd

----------------------------------------------------------------------------
(* The far end moves while the engine works.                               *)

\* A job reads its last page within MaxWalk of its start.
WalksAreShort ==
    \A s \in Scope :
        job[s].pc \in {"reading", "attaching"} => clock < job[s].start + MaxWalk

\* Pages are numbered, so a record that leaves a page already read moves every
\* later one up by a place, and the first record of the next page is missed.
Displace(r) ==
    \/ UNCHANGED job
    \/ LET s == ScopeOf[r] IN
       /\ PageShift
       /\ job[s].pc \in {"reading", "attaching"}
       /\ r \in Listed(s) \ job[s].owed
       /\ \E missed \in job[s].owed :
             job' = [job EXCEPT ![s].owed = @ \ {missed}]

Tick    == FarTick /\ WalksAreShort /\ UNCHANGED <<dbVars, run, job, held, faults>>
Edit(r) == FarEdit(r) /\ UNCHANGED <<dbVars, run, job, held, faults>>
Publish(r) ==
    FarPublish(r) /\ Displace(r) /\ UNCHANGED <<dbVars, run, held, faults>>
Delete(r) ==
    FarDelete(r) /\ Displace(r) /\ UNCHANGED <<dbVars, run, held, faults>>

----------------------------------------------------------------------------
(* Starting a run: StartRun, then plan.                                    *)

Fault   == faults < MaxFaults /\ faults' = faults + 1
NoFault == UNCHANGED faults

\* Nothing of a run survives the process but what it wrote.
EndRun ==
    /\ run' = NoRun
    /\ job' = [s \in Scope |-> NoJob]
    /\ held' = 0

Live == {r \in Rec : LiveRow(arch[r])}

StartRun(opt) ==
    /\ run.phase = "idle"
    /\ run' = [NoRun EXCEPT !.phase = "planning", !.opt = opt]
    /\ runRow' = "open"
    /\ held' = IF opt.sweep = "never" THEN 0 ELSE Cardinality(Live)
    /\ UNCHANGED <<farVars, arch, queue, cursor, reconciled, job, faults>>

Plan ==
    /\ run.phase = "planning"
    /\ ~run.cancelled
    /\ run' = [run EXCEPT !.phase = "reading"]
    /\ job' = [s \in Scope |-> [NoJob EXCEPT !.pc = "queued"]]
    /\ UNCHANGED <<farVars, dbVars, held, faults>>

\* Resolving the scopes failed, or was cancelled: Pull returns there and then.
PlanFails ==
    /\ run.phase = "planning"
    /\ IF run.cancelled THEN NoFault ELSE Fault
    /\ EndRun
    /\ UNCHANGED <<farVars, dbVars>>

----------------------------------------------------------------------------
(* One job: runJob and pullCollection.                                     *)

WorkerFree == Cardinality({s \in Scope : job[s].pc \in Active}) < Workers

Dispatchable(s) ==
    run.phase = "reading" /\ job[s].pc = "queued" /\ WorkerFree

\* Mutated: a job the budget stopped leaves no error and no trace on the budget.
JobSkipped(s) ==
    /\ Dispatchable(s)
    /\ IF run.cancelled \/ run.spent THEN NoFault ELSE Fault
    /\ job' = [job EXCEPT ![s] = [NoJob EXCEPT !.pc = "done"]]
    /\ UNCHANGED <<farVars, dbVars, run, held>>

\* The budget is checked before the job starts, then its sync_state is read.
JobNotStarted(s) ==
    /\ Dispatchable(s)
    /\ IF run.cancelled \/ run.spent THEN NoFault ELSE Fault
    /\ job' = [job EXCEPT ![s] = [NoJob EXCEPT !.pc = "done", !.err = TRUE]]
    /\ run' = [run EXCEPT !.tripped = @ \/ (run.spent /\ ~run.cancelled)]
    /\ UNCHANGED <<farVars, dbVars, held>>

JobStart(s) ==
    /\ Dispatchable(s)
    /\ ~run.cancelled /\ ~run.spent
    /\ LET ask == ListOptions(s) IN
       job' = [job EXCEPT ![s] =
                 [NoJob EXCEPT !.pc = "reading", !.start = clock, !.ok = TRUE,
                               !.since = ask.since, !.window = ask.window,
                               !.full = ask.full,
                               !.owed = {r \in Rec : Lists(s, ask, r)}]]
    /\ UNCHANGED <<farVars, dbVars, run, held, faults>>

\* A page arrives and UpsertRecords commits it.
ReadPage(s) ==
    /\ job[s].pc = "reading"
    /\ ~run.cancelled
    /\ \E recs \in SUBSET Rec, last \in BOOLEAN :
          /\ Page(s, recs, last)
          /\ arch' = [r \in Rec |-> IF r \in recs
                                    THEN Upsert(arch[r], far[r].upd, clock)
                                    ELSE arch[r]]
          /\ job' = [job EXCEPT ![s] =
                [@ EXCEPT !.pc = "attaching", !.batch = recs, !.last = last,
                          !.owed = Rest(s, recs),
                          !.fresh = Cardinality({r \in recs : MadeLive(arch[r])})]]
    /\ UNCHANGED <<farVars, queue, cursor, reconciled, runRow, run, held, faults>>

\* UpsertAttachments commits, which completes archivePage: the high water mark
\* rises, and the budget is looked at between pages and after the last.
AttachPage(s) ==
    /\ job[s].pc = "attaching"
    /\ ~run.cancelled
    /\ queue' = [r \in Rec |-> IF r \in job[s].batch THEN arch[r].upd ELSE queue[r]]
    /\ \E high \in {job[s].high} \cup {arch[r].upd : r \in job[s].batch} :
          /\ high >= job[s].high
          /\ \A r \in job[s].batch : high >= arch[r].upd
          /\ job' = [job EXCEPT ![s] =
                [@ EXCEPT !.pc = IF run.spent \/ job[s].last THEN "closing"
                                                           ELSE "reading",
                          !.ok = ~run.spent, !.err = run.spent, !.high = high,
                          !.batch = {}, !.fresh = 0, !.last = FALSE]]
    /\ run' = [run EXCEPT !.tripped = @ \/ run.spent,
                          !.added = @ + job[s].fresh]
    /\ UNCHANGED <<farVars, arch, cursor, reconciled, runRow, held, faults>>

\* The request, the payload or one of archivePage's writes failed.
PageFails(s) ==
    /\ job[s].pc \in {"reading", "attaching"}
    /\ IF run.cancelled THEN NoFault ELSE Fault
    /\ job' = [job EXCEPT ![s] =
                 [@ EXCEPT !.pc = "closing", !.ok = FALSE, !.err = TRUE,
                           !.batch = {}, !.fresh = 0, !.last = FALSE]]
    /\ UNCHANGED <<farVars, dbVars, run, held>>

\* isUnavailable: the endpoint answered 403 or 404, on whatever page it was.
PageForbidden(s) ==
    /\ job[s].pc = "reading"
    /\ ~run.cancelled
    /\ job[s].high = 0 \/ MidWalkForbidden
    /\ Fault
    /\ job' = [job EXCEPT ![s] =
                 [@ EXCEPT !.pc = "closing", !.ok = TRUE, !.unavailable = TRUE]]
    /\ UNCHANGED <<farVars, dbVars, run, held>>

\* Mutated: a walk that failed moves the cursor too.
SavesCursorOfAnyWalk(s) ==
    AdvancesCursor(run.opt.mode) /\ job[s].high # 0

\* Whether the job ends by moving its cursor.
SavesCursor(s) ==
    job[s].ok /\ AdvancesCursor(run.opt.mode) /\ job[s].high # 0

\* What the sweep and the outcome still read of a job that is over.
Over(j) ==
    [j EXCEPT !.pc = "done", !.since = 0, !.window = FALSE, !.high = 0, !.owed = {}]

Close(s) ==
    /\ job[s].pc = "closing"
    /\ ~(SavesCursor(s) /\ run.cancelled)
    /\ cursor' = IF SavesCursor(s) THEN [cursor EXCEPT ![s] = job[s].high] ELSE cursor
    /\ job' = [job EXCEPT ![s] = Over(@)]
    /\ UNCHANGED <<farVars, arch, queue, reconciled, runRow, run, held, faults>>

\* SaveCursor failed: the job errors, and stays completed.
CloseFails(s) ==
    /\ job[s].pc = "closing"
    /\ SavesCursor(s)
    /\ IF run.cancelled THEN NoFault ELSE Fault
    /\ job' = [job EXCEPT ![s] = [Over(@) EXCEPT !.err = TRUE]]
    /\ UNCHANGED <<farVars, dbVars, run, held>>

\* Every job has been read, or the run was cancelled and the workers have
\* drained: a job that was never dispatched leaves a zero FamilyResult.
ReadingOver ==
    /\ run.phase = "reading"
    /\ \A s \in Scope : job[s].pc \notin Active
    /\ run.cancelled \/ \A s \in Scope : job[s].pc # "queued"
    /\ run' = [run EXCEPT !.phase = "sweeping"]
    /\ UNCHANGED <<farVars, dbVars, job, held, faults>>

----------------------------------------------------------------------------
(* The sweep: sweepFamilies, then SaveReconcile.                           *)

\* The jobs that ran.
Results == {s \in Scope : job[s].pc = "done"}

SweepAsked ==
    \/ run.opt.sweep = "always"
    \/ /\ run.opt.sweep = "if-due"
       /\ reconciled = 0 \/ clock - reconciled >= ReconcileInterval

FamilyUnavailable == Results # {} /\ \A s \in Results : job[s].unavailable

\* Mutated: a scope the API does not answer for counts as read.
ReadCoveredAvailable ==
    \A s \in Results : job[s].ok /\ (job[s].full \/ job[s].unavailable)

ReadCoveredFamily ==
    \A s \in Results : job[s].ok /\ job[s].full /\ ~job[s].unavailable

Sweepable ==
    /\ Results # {}
    /\ SweepAsked
    /\ ~FamilyUnavailable
    /\ ReadCoveredFamily

\* start is when the first of the jobs that ran began to read.
EarliestSweepStart(start) ==
    /\ \E s \in Results : job[s].start = start
    /\ \A s \in Results : job[s].start # 0 => start <= job[s].start

UnseenRecords(start) == {r \in Rec : Unseen(arch[r], start)}

\* Mutated: measured against what the family holds after the run.
BoundExceededAfter(start) ==
    LET unseen == Cardinality(UnseenRecords(start)) IN
    /\ run.opt.bounded
    /\ Cardinality(Live) >= MinSweepFloor
    /\ unseen * SweepDen > SweepNum * Cardinality(Live)

\* checkSweepBound, measured against what the family held before the run.
BoundExceeded(start) ==
    LET unseen == Cardinality(UnseenRecords(start))
        before == Cardinality(Live) - run.added
    IN  /\ unseen # 0
        /\ run.opt.bounded
        /\ before >= MinSweepFloor
        /\ unseen * SweepDen > SweepNum * before

Sweeping == run.phase = "sweeping"

\* Not asked for, nothing to sweep, not covered by the read, or only previewed.
NotSwept ==
    /\ Sweeping
    /\ \/ ~Sweepable
       \/ /\ ~run.cancelled
          /\ run.opt.dry
          /\ \E s \in Scope : EarliestSweepStart(job[s].start)
                              /\ ~BoundExceeded(job[s].start)
    /\ run' = [run EXCEPT !.phase = "finishing"]
    /\ UNCHANGED <<farVars, dbVars, job, held, faults>>

SweepRefused ==
    /\ Sweeping
    /\ Sweepable /\ ~run.cancelled
    /\ \E s \in Scope : EarliestSweepStart(job[s].start)
                        /\ BoundExceeded(job[s].start)
    /\ run' = [run EXCEPT !.phase = "finishing", !.failed = TRUE]
    /\ UNCHANGED <<farVars, dbVars, job, held, faults>>

\* Reading the last sweep's date, counting or deleting failed.
SweepFails ==
    /\ Sweeping
    /\ run.opt.sweep = "if-due" \/ Sweepable
    /\ IF run.cancelled THEN NoFault ELSE Fault
    /\ run' = [run EXCEPT !.phase = "finishing", !.failed = TRUE]
    /\ UNCHANGED <<farVars, dbVars, job, held>>

SweepApplied ==
    /\ Sweeping
    /\ Sweepable /\ ~run.cancelled /\ ~run.opt.dry
    /\ \E s \in Scope :
          /\ EarliestSweepStart(job[s].start)
          /\ ~BoundExceeded(job[s].start)
          /\ arch' = [r \in Rec |-> SweptRow(arch[r], job[s].start)]
    /\ run' = [run EXCEPT !.phase = "stamping"]
    /\ UNCHANGED <<farVars, queue, cursor, reconciled, runRow, job, held, faults>>

\* Mutated: the sweep is dated by the clock.
StampNow ==
    /\ run.phase = "stamping"
    /\ ~run.cancelled
    /\ reconciled' = clock
    /\ run' = [run EXCEPT !.phase = "finishing"]
    /\ UNCHANGED <<farVars, arch, queue, cursor, runRow, job, held, faults>>

Stamp ==
    /\ run.phase = "stamping"
    /\ ~run.cancelled
    /\ \E s \in Scope :
          /\ EarliestSweepStart(job[s].start)
          /\ reconciled' = job[s].start
    /\ run' = [run EXCEPT !.phase = "finishing"]
    /\ UNCHANGED <<farVars, arch, queue, cursor, runRow, job, held, faults>>

StampFails ==
    /\ run.phase = "stamping"
    /\ IF run.cancelled THEN NoFault ELSE Fault
    /\ run' = [run EXCEPT !.phase = "finishing", !.failed = TRUE]
    /\ UNCHANGED <<farVars, dbVars, job, held>>

----------------------------------------------------------------------------
(* The end of a run, in order or not.                                      *)

\* outcomeFor, with firstError.
RunOutcome ==
    Outcome(run.cancelled, run.tripped, run.failed \/ \E s \in Scope : job[s].err)

FinishRun ==
    /\ run.phase = "finishing"
    /\ ~run.cancelled
    /\ runRow' = RunOutcome
    /\ EndRun
    /\ UNCHANGED <<farVars, arch, queue, cursor, reconciled, faults>>

FinishFails ==
    /\ run.phase = "finishing"
    /\ IF run.cancelled THEN NoFault ELSE Fault
    /\ EndRun
    /\ UNCHANGED <<farVars, dbVars>>

\* SIGINT or SIGTERM: the context of the run is cancelled, and database/sql
\* refuses every statement from then on.
Cancel ==
    /\ run.phase # "idle"
    /\ ~run.cancelled
    /\ Fault
    /\ run' = [run EXCEPT !.cancelled = TRUE]
    /\ UNCHANGED <<farVars, dbVars, job, held>>

\* The process dies; what was committed stays.
Crash ==
    /\ run.phase # "idle"
    /\ Fault
    /\ EndRun
    /\ UNCHANGED <<farVars, dbVars>>

\* MaxRequests have been made, or the Deadline has passed.
BudgetRunsOut ==
    /\ run.phase = "reading"
    /\ ~run.spent
    /\ Fault
    /\ run' = [run EXCEPT !.spent = TRUE]
    /\ UNCHANGED <<farVars, dbVars, job, held>>

----------------------------------------------------------------------------

Environment ==
    \/ Tick
    \/ \E r \in Rec : Edit(r) \/ Publish(r) \/ Delete(r)

JobStep(s) ==
    \/ JobNotStarted(s) \/ JobStart(s)
    \/ ReadPage(s) \/ AttachPage(s) \/ PageFails(s) \/ PageForbidden(s)
    \/ Close(s) \/ CloseFails(s)

\* What the engine does next once it has been started.
RunStep ==
    \/ Plan \/ PlanFails
    \/ \E s \in Scope : JobStep(s)
    \/ ReadingOver
    \/ NotSwept \/ SweepRefused \/ SweepFails \/ SweepApplied
    \/ Stamp \/ StampFails
    \/ FinishRun \/ FinishFails

Interruption == Cancel \/ Crash \/ BudgetRunsOut

Next ==
    \/ Environment
    \/ \E opt \in Options : StartRun(opt)
    \/ RunStep
    \/ Interruption

Spec == Init /\ [][Next]_vars

\* The engine keeps going once started, time passes and edits surface, and the
\* scheduler keeps starting each kind of run whatever else is started in between.
Fairness ==
    /\ WF_vars(RunStep)
    /\ SF_vars(Tick)
    /\ \A r \in Rec : WF_vars(Publish(r))
    /\ \A opt \in Options : SF_vars(StartRun(opt))

FairSpec == Spec /\ Fairness

----------------------------------------------------------------------------
(* What makes the engine correct.                                          *)

\* The archive holds what the API lists for r, attachments included.
Mirrored(r) ==
    /\ LiveRow(arch[r])
    /\ arch[r].upd = far[r].upd
    /\ queue[r] = far[r].upd

\* No lost update: the next incremental read starts Overlap before the cursor of
\* the scope, so whatever the API lists that is older than that is mirrored
\* already, whichever pages, workers, failures, cancellations and crashes of
\* whichever runs the cursor is the work of (listOptions, archivePage, SaveCursor).
CursorSafe ==
    \A r \in Rec :
        far[r].live /\ far[r].upd + Overlap < cursor[ScopeOf[r]] => Mirrored(r)

\* The rows a step marks as deleted.
Swept == {r \in Rec : LiveRow(arch[r]) /\ ~LiveRow(arch'[r])}

\* A sweep marks only what the API no longer lists, or what changed so recently
\* that the read of its scope could not have listed it (readCoveredFamily,
\* earliestSweepStart, SoftDeleteUnseen).
SweepSound ==
    [][\A r \in Swept :
          far[r].live => far[r].upd + Lag >= job[ScopeOf[r]].start]_vars

\* A sweep that was not told to be unbounded marks at most the allowed share of
\* what the family held before the run, however many records the run has added
\* or restored meanwhile (checkSweepBound, addedThisRun).
SweepBounded ==
    [][run.opt.bounded /\ held >= MinSweepFloor
          => Cardinality(Swept) * SweepDen <= SweepNum * held]_vars

\* When a family is on record as swept at an instant, nothing that was last seen
\* before that instant is still live, so a sweep that is not due misses nothing
\* older than the interval (SaveReconcile, DryRun, sweepAsked).
StampHonest ==
    \A r \in Rec : LiveRow(arch[r]) => arch[r].seen >= reconciled

\* A scheduled run that ends with outcome ok has brought every scope the company
\* has up to date with what its API could list when the read of it began; a
\* scope that was never read does not pass for one (runJob, firstError,
\* outcomeFor).
OkMeansMirrored ==
    [][runRow' = "ok" /\ runRow = "open" /\ AdvancesCursor(run.opt.mode)
          => \A r \in Rec :
                LET j == job[ScopeOf[r]] IN
                /\ far[r].live
                /\ ~j.unavailable
                /\ j.start = 0 \/ far[r].upd + Lag < j.start
                => Mirrored(r)]_vars

Promise == INSTANCE Mirror WITH copy <- arch, swept <- reconciled

\* Whatever is planned, read, interrupted and begun again, each step of a pull is
\* a step of a mirror: bodies are only taken as they are listed, attachments only
\* queued for what is held, and no cursor, sweep or date moves so that something
\* is lost (UpsertRecords, UpsertAttachments, SaveCursor, SoftDeleteUnseen,
\* SaveReconcile).
KeepsMirror == Promise!MirrorSafe

\* What is live and listed no more, and whether a bounded sweep may not take it.
Gone == {r \in Live : ~far[r].live}

TooManyGone ==
    /\ Cardinality(Live) >= MinSweepFloor
    /\ Cardinality(Gone) * SweepDen > SweepNum * Cardinality(Live)

\* Once nothing changes any more at the far end, the scheduled runs bring the
\* archive to mirror it: what it lists is live with its last body and its
\* attachments queued, and nothing else is live, unless that is more of the
\* family than a bounded sweep may take.  Then every scheduled sweep is refused,
\* and it stays live until somebody reconciles with another bound
\* (checkSweepBound).
EventuallyMirrored ==
    <>[](/\ \A r \in Rec : far[r].live => Mirrored(r)
         /\ Gone = {} \/ TooManyGone)
=============================================================================
