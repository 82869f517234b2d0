# A verification of fasync

`fasync` (this repository) keeps a local archive of a FreeAgent company: it reads
the company's records over the API into SQLite, downloads the attachments, and
derives files, projections and exports from what it holds. It is run by cron,
unattended, against a service that has no deletions feed, pages by number, and
answers late. What matters is that the archive never silently stops being a copy.

This directory holds TLA+ modules that model the program, TLC configurations that
check them on small instances, and theorems about them proved with TLAPS.

## The system

| Component | State it keeps | Operations | Hard because |
| --- | --- | --- | --- |
| Pull engine (`internal/engine/engine.go`, `budget.go`, `jobs.go`) | results of a run in memory; cursor, sweep date and run row in the archive | `Pull`: plan, run jobs on workers, sweep each family, close the run | the far end changes while it is read; workers, budgets, signals and crashes stop it anywhere |
| Archive (`internal/store`) | `records`, `record_versions`, `sync_state`, `sync_runs`, `attachments`, `blobs`, `documents`, report snapshots, projections | upserts in a transaction per page, soft deletes, cursors, run rows, migrations | each statement or transaction is atomic, the sequences of them are not |
| API client and pager (`internal/api`) | none | `PagesAt`: pages by number until no next link | pages shift under edits; a walk can end early in several ways |
| Scopes (`internal/engine/scopes.go`, `jobs.go`) | none, read from the archive | bank-, parent- and user-scoped families fan out into one job per scope | scopes come from what an earlier run archived |
| Attachments and blobs (`internal/engine/blobs.go`, `internal/blob`) | attachment rows; files named by digest; staging files | `FetchBlobs` with eight workers, `Put` by rename, retry later | a file and its row are written in two steps; URLs expire |
| Derived trees (`internal/tree`) | `records/` and `files/`, their `.building` and `.previous` | `BuildRecords`, `BuildFiles`, both through `stageDir` | swapped by renames, by processes that take no lock |
| Payroll, singletons, reports (`payroll.go`, `documents.go`) | records and report snapshots | one job each per run | two-level reads, a moving calendar, tolerated 404s |
| Rendered PDFs (`pdfs.go`, `store/documents.go`) | `documents` rows and their blobs | `RenderDocuments` over what is stale | the invoice may be edited while it is rendered |
| Probe (`probe.go`) | `supports_updated_since` per family | two requests per family | its answer decides how a family is read |
| Session and lock (`cmd/fasync/session.go`, `internal/lock`) | an advisory file lock | open and close a session; exit codes | overlapping cron ticks |
| Accounts (`store/accounts.go`) | `accounts` rows | add, list, remove | no lock; other commands hold an id meanwhile |
| Migrations (`store/migrate.go`) | `user_version` and the tables | every opening migrates | several openings, several binaries |
| Numeric projections (`store/numbers.go`) | `record_numbers` | rebuilt after a pull and by `reproject` | `reproject` takes no lock |
| Verification (`engine/verify.go`) | none | reads the archive check by check | no lock, no transaction across its statements |
| Export, time frames, login, configuration, UI | files, nothing | see `PROJECT.json` | not modelled |

How they interact. `cmd_pull.go` turns flags into `engine.Options`, opens a session
(lock, archive, client), calls `Engine.Pull`, then `FetchBlobs` for the attachments
the pull queued, then rebuilds projections and trees. The engine reads through the
pager and writes through the store. The store is one SQLite connection, so
statements never run at the same time: concurrency is between the steps of workers,
never inside a statement. Nothing of a run survives the process but what it wrote.

What makes each part correct:

* a cursor never moves past a record that is not archived (pull);
* a sweep never removes a record that is still there, and never more than it may
  (pull);
* a run that says `ok` was complete; a run row that is open means a crash (pull);
* the archive catches up once the company stops changing (pull);
* an attachment recorded as stored has its bytes, and one that always fails does not
  starve the others (blobs);
* a tree on disk is a whole one, and comes to be the archive's (trees);
* a scoped family is only swept when all its scopes were read, and whatever an
  outdated plan missed the next run makes good (scopes);
* two runs never overlap, and the exit code tells what happened (session);
* no row is left without its account, no command works on tables it does not know,
  and the projected numbers are those of the archive (accounts, migrations, numbers);
* a year of payroll is archived whole, a PDF does not pass for newer than it is, and
  snapshots follow the report (payroll, PDFs, reports);
* a verification does not pass over what is wrong all the while (verify).

`PROJECT.json` lists every component with its status and every hazard at its line.

## Modules

```
FarEnd   Archive        the service (external)   the tables, as operators
     \   /
      Pull              engine.Pull for one family, with all its interruptions;
     /    \             refines Mirror, which says what of it the archive shows
PullInvariant  PullProofs    the inductive invariant; types, sweep bound and dates, proved
   /    \      /
MCPull  PullSafety           TLC instances; cursors, sweeps, the refinement, proved

  Vault        Blobs  = FetchBlobs, the blob store and its rows; refines Vault
  Blobs        BlobsProofs, MCBlobs
  TreeSwap     stageDir by processes that fail, crash and overlap
               TreeSwapProofs, MCTreeSwap
  FanOut       two families in one run, one the scopes of the other; the probe
               FanOutProofs, MCFanOut
  Session      commands as processes: lock, migrations, accounts, passes, exit codes
               SessionProofs, MCSession
  Papers       payroll, singletons, reports, PDFs
               PapersProofs, MCPapers
  Verify       fasync verify beside a pull
               VerifyProofs, MCVerify
```

**FarEnd** is not code of this repository: it is what the engine assumes of the
service. A record has the `updated_at` of its visible body; an edit is stamped when
it is made and becomes visible at most `Lag` later; a deletion just stops the record
being listed. Two edits of a record have different instants, so `updated_at` stands
for the body, and equal digests are equal numbers.

**Archive** has one row of `records` and the operators that upsert and sweep it.
`upsertOne` has three branches (insert, touch, update) which all leave the row live,
seen now, with the body that was read: that is `Upsert`. `MadeLive` is what the code
counts as inserted or restored.

**Pull** models `Engine.Pull` for one family of collections.

| Code | Model |
| --- | --- |
| `pullFlags.options`, `cmdReconcile` | `OptionsOf`, `ReconcileOptions` |
| `StartRun`, `plan` | `StartRun`, `Plan`, `PlanFails` |
| `runJobs`: workers taking jobs off a channel | `WorkerFree`, `Dispatchable`; `job[s].pc` |
| `runJob` and its budget check, reading `sync_state` | `JobNotStarted`, `JobStart` with `ListOptions` |
| `PagesAt` yields a page, `UpsertRecords` commits it | `ReadPage` with `Page` |
| `UpsertAttachments` commits, high water, budget check | `AttachPage` |
| an error of the page or of `archivePage`; 403 or 404 | `PageFails`, `PageForbidden` |
| the end of `pullCollection`, `SaveCursor` | `Close`, `CloseFails` |
| `sweepFamilies` up to the delete; `SaveReconcile` | `NotSwept`, `SweepRefused`, `SweepFails`, `SweepApplied`; `Stamp`, `StampFails` |
| `outcomeFor`, `FinishRun` | `RunOutcome`, `FinishRun`, `FinishFails` |
| SIGINT/SIGTERM, process death, `budget.exceeded` | `Cancel`, `Crash`, `BudgetRunsOut` |

Each transaction or statement is a step of its own, so a crash, a cancellation or
another worker can come between any two of them. After a cancellation no statement
succeeds, since database/sql refuses to run one on a cancelled context. A page is
any set of records the far end may answer with, in any order the request allows:
sorted by `updated_at` only for incremental reads of families that are not bank
scoped. `owed` is what the walk is still going to list; with `PageShift` an edit or
a deletion may push a record off the pages to come.

What a page's attachments look like is abstracted to "the attachments of this body
are queued" (`queue`). Two variables are auxiliary: `held`, the live rows when a run
that may sweep started, which `SweepBounded` measures against, and `faults`, which
bounds failures.

**Mirror** is the abstract specification of what Pull does to the archive: no runs, no
jobs, no pages, no failures, only what may happen to the copy. `Take` archives records
as they are listed at that moment, `Attach` queues the attachments of rows that are
held, `Advance` moves a cursor to an instant that leaves nothing behind, `GiveUp` marks
what was not seen since an instant, provided that of what is still listed it only
contains what changed too late and no cursor has passed, and `Date` dates a sweep when
all that is held has been seen since. Pull refines it with `copy` the rows and `swept`
the date of the last sweep; starting, failing, cancelling, crashing and closing a run
change nothing there.

**Blobs** models the attachment pass, after a pull or by `blobs fetch`.

| Code | Model |
| --- | --- |
| `UpsertAttachments`, while a pull archives a page | `Sight` with `Sighted` |
| `OutstandingAttachments`: the snapshot a pass works on | `BeginPass` with `Batch`, `Before`, `Limited` |
| the loop that checks context and deadline, then sends | `Offer`: the check and the send are two steps |
| a worker receives an attachment and looks at its expiry | `Take` |
| `refreshAttachment` | `Resolve` |
| `download`: the answer; the body, staged, renamed, measured | `Request`; `Put` |
| an error of any of these; `recordFailure` | `Breaks`; `RecordFailure` with `FailedRow` |
| `StoreBlob`, and its failure, which counts no attempt | `StoreBlob`, `StoreFails` |
| `wg.Wait`, the skipped ones, `reportBlobs` | `EndPass` |
| `pastDeadline`, SIGINT/SIGTERM, process death, a link expiring | `PassDeadline`, `Cancel`, `Crash`, `Expire` |

Bytes are their digest: attachments with the same bytes share one. A body that stops
at the cap is `Truncated`, and is in the store before it is found too long. What is
left in the staging directory has a random name and is read by nothing, so it is not
part of the state. `first_seen_at`, which orders rows with equal attempts, is left
open: `Batch` is every selection the attempts allow. The bytes of an attachment do
not change under its URL: the code never downloads a stored one again. A pull and a
pass, or two passes, never overlap, since every command that runs one opens a session
and so holds the lock.

**Vault** is the abstract specification: two sets, `known` and `kept`, that only
grow, and everything that is known and obtainable is kept some day. Blobs refines it
with `known` the attachments that have a row and `kept` those recorded as stored
whose row in `blobs` and whose file are there.

**TreeSwap** models the replacement of a tree of derived files.

| Code | Model |
| --- | --- |
| `BuildRecords`, `BuildFiles` read the archive | `Begin` |
| `stageDir`: clear and make `root.building` | `ClearStaging`, `MakeStaging` |
| `writeJSON`, `link`, which make the path again | `Write` |
| `commit`: drop `root.previous`, rotate, install, prune | `Commit`, `DropPrevious`, `DropFails`, `Rotate`, `Install`, `PrunePrevious` |
| the deferred `RemoveAll` | `CleanStaging` |
| an error of any of these, a cancellation; process death | `RebuildFails`; `Crash` |

A directory is the set of its entries, a tree the entries the archive stands for.
`os.RemoveAll` takes one entry a step, `os.Rename` is atomic and, as Go's does on
Unix, refuses a target that is a directory. A process in `LockHolders` begins only
when none of them is rebuilding: that is what a pull, holding the lock to its end, may
rely on, and what `files rebuild` and `files relink`, which open no session, may not.
The two trees have roots of their own and do not meet. That `BuildRecords` reads the
records while it writes them and not at `Begin` makes no difference while nothing
archives beside it, which is what the lock is for.

**FanOut** models two families in one engine run: one whose records are scopes (bank
accounts, contacts and projects, users) and one that is listed scope by scope.

| Code | Model |
| --- | --- |
| `Pull` and `Probe` start a run; `SelectFamilies` | `StartRun` with `Options` |
| `scopesFor`, `archivedBankAccounts`, `archivedRefs` | `Plan` with `ArchivedRefs` |
| `bankAccounts`, `recordRefs`, when none is archived | `ListParents`, `ListPage`, `PlanListed`; `PlanFails` |
| `runJob`, `listOptions`, `pullCollection`, by scope | `JobStart` with `FullScan`, `ReadPage`, `JobEnds`, `JobFails` |
| a scope that answers 403 or 404 at once | `JobUnavailable` |
| `sweepFamilies`, `readCoveredFamily`, `SoftDeleteUnseen` | `SweepNot`, `Sweep`, `SweepFails`; `Covered`, `Seen` |
| `probeFamily`, `probeScope`, `saveProbe` | `ProbeFirst`, `ProbeSecond`, `ProbeUntold`, `ProbeOver` |
| `FinishRun`; the process dying | `FinishRun`; `Crash` |

What Pull has in full (pages, instants, the high water mark) is here only whether a
record is listed, and whether it changed since its scope's cursor. That leaves room for
what Pull does not have: two families, a plan made from the archive before the same run
reads the scopes anew, a `sync_state` row for each scope. `gone`, `asked`, `steady` and
`calm` are auxiliary. A listing that shifts may miss a scope (`Remove`).

**Session** models the commands as processes on one data directory.

| Code | Model |
| --- | --- |
| a command line, a binary of some age | `Start(p, cmd, knows)` |
| `lock.Acquire`; `ErrHeld` | `TakeLock`; `LockHeld` |
| `store.Open`: read `user_version`, migrate one by one | `ReadVersion`, `ApplyMigration`, `MigrationTaken`, `Opened` |
| `resolveAccount`, `buildClient` | `Resolve`, `ResolveFails`, `Connect` |
| `runEngine`: `StartRun`, pages, `FinishRun`, `exitFor` | `StartRun`, `StartRefused`, `ArchivePage`, `FinishRun` |
| `Probe`: its run row and its code | `StartRun`, `ProbeOver` |
| `fetchBlobsAfterPull`, `worse`; the end of a pull with `--no-files` | `Download` |
| `derivedAfterPull`, `ProjectNumbers` | `Project`, `ProjectNothing`, `ProjectFails` |
| `AddAccount`; `RemoveAccount`, in its three statements | `AddAccount`; `FindAccount`, `CountRecords`, `DeleteAccount` |
| an error that is returned; `session.Close`; process death | `FailsOutright`; `Close`; `Crash` |

The foreign keys of the schema are guards (`KeyHolds`, `Deletable`), since the code
turns them on and verifies the pragma; the tables `Referenced` leaves out get rows only
under a run or from records, which it has. A command line says `files` unless it has
`--no-files`. Commands that only read are `status`; `docs render` and `blobs fetch`, which
hold the lock and have no run of their own, are `fetch`. Archived pages are counted, not
told apart.

**Papers** models the jobs of a pull that are not collections, and `docs render`.

| Code | Model |
| --- | --- |
| `payrollYears`, `firstAccountingYear`, `taxYearEnd` | `payrollYears`, `Earliest`, `taxYearEnd` |
| `plan`, the jobs in its order, from the company document if it can be read | `StartPull` with `YearJobs` |
| `pullDocument` for a singleton; a collection | `PullCompany`; `PullInvoices` |
| `fetchYear` with nothing; `pullPayrollYear`; `archivePeriod` | `NoPayroll`; `PullYear`, `YearDone`; `PullPeriod`, `PeriodFails` |
| `pullReport`, `reportWindow`, `SaveReportSnapshot` | `PullReport` with `SameWindow`, `SameAsNewest`, `Capture` |
| `PendingDocuments`, as a snapshot of the queue; its limit | `List` with `Stale`, `Pending`; `RenderLimit` |
| `renderOne`: the PDF and its blob; `SaveDocument` | `Render`; `SaveDocument`; `RenderFails`, `SaveFails` |
| the budget of a pass; the end; process death | `RenderBudgetRunsOut`; `FinishRender`; `Crash` |

The jobs write rows of their own, so they are taken in the order of the plan. Two reads
fail without an error: that of the company document, and then the years are the usual
ones (`StartPull`), and that of the newest capture, and then the report is captured
whatever it says (`PullReport`). The queue of a pass is a set of which the first by family
and URL is `Up`; a pass takes `RenderLimit` of them, 10000 when nobody says otherwise.
`made` holds the one PDF that is rendered and not yet recorded. A day is a number, a year
has `DaysInYear` of them, and its tax year ends before `TaxDay`. A report is one bit, an
invoice its version, a payroll year the number of its periods.

**Verify** models `fasync verify` beside a pull that commits between its statements.

| Code | Model |
| --- | --- |
| `ArchivedURLs`, `StoredAttachments`, `EachRecord` in `checkReferences` | `ReadURLs`, `ReadAttachments`, `CheckReferences` |
| `loadTrialBalance`, `checkTrialBalanceSumsToZero` | `CheckZero` with `Problem`, `SumOfTotals` |
| `localTotals`: the window, then the transactions | `ReadWindow` with `Bounds`; `InWindow`, `LocalTotal` |
| `checkNominalCoverage`, `checkTotalsAgainstTrialBalance` | `CheckCoverage`, `CheckTotals` |
| `checkBlobs`: the list, then file by file | `ReadStored`, `Rehash`, `Hashed` |
| a statement that fails, where it ends the command or not | `Abandon`; `BalanceUnread`, `TotalsFail` |
| a page, a sweep, a download, a snapshot, a lost file | `ArchiveRecord`, `SweepRecord`, `StoreAttachment`, `SnapshotBalance`, `LoseFile` |

`standing` is auxiliary: what was wrong when the command began and at every moment
since.

## What is checked

| Run | Property | Instance |
| --- | --- | --- |
| `faults` | `TypeOK`, `CursorSafe`, `OkMeansMirrored`, `KeepsMirror` | 2 records, 3 instants; incremental, full and ad-hoc reads, nightly sweeps and previewed ones; one failure, crash, cancellation or spent budget anywhere |
| `scopes` | `SweepSound`, `SweepBounded`, `StampHonest` | 2 bank accounts on 2 workers, nightly runs and unbounded reconciles, a 403 in the middle of a walk, 2 instants, one fault |
| `mirror` | `EventuallyMirrored` | half-hourly and nightly runs, edits visible one instant late, pages that shift, sweeps of at most half of the family, one fault, under fairness |
| `attachments` | `TypeOK`, `StoredIsHeld`, `OkMeansFetched`, `NothingForgotten`, `EverythingKept` | 3 attachments, two with the same bytes, one over the cap and never served; 2 workers; with and without a limit of one and a deadline; one fault, under fairness |
| `trees` | `TypeOK`, `NeverHalf`, `CatchesUp` | 2 archives that share an entry, 2 processes that take the lock, two crashes or failing calls, under fairness |
| `fanout` | `TypeOK`, `TwoRunsMirror`, `SweptKnownGone`, `ProbeHonest` | 2 scopes, one with a record, on 2 workers; pulls, reconciles of the scoped family alone, probes of a family that ignores the filter; 2 changes, one fault |
| `sessions` | `TypeOK`, `OneRun`, `NoOrphans`, `WorksOnItsSchema`, `ExitTells`, `NumbersCurrent` | 2 processes, 3 commands of 10 command lines (a pull with `--no-files` and a probe among them), 2 accounts, 2 schema versions, one crash or failure |
| `papers` | `TypeOK`, `FinishedMeansWhole`, `NeverPassesForNewer`, `SnapshotsFollow`, `EventuallyComplete` | 2 days across the end of a tax year, 2 payroll years of 2 periods, 3 invoices of which the first never renders, 2 to a pass, 2 changes, one fault, under fairness |
| `verify` | `TypeOK`, `NoStandingGap` | a bill and its contact, 2 transactions on 2 codes, an attachment, 4 trial balances (one of a single entry, one without any, one that does not decode); 2 commits between statements, one failing statement |

* **`CursorSafe`** is the archive's promise against lost updates: whatever the API
  lists that is older than the cursor of its scope less the overlap is archived with
  its last body and its attachments queued. It relates the far end, the archive, the
  attachments and the cursor, across runs.
* **`SweepSound`**: a sweep takes no record the far end still lists, unless the record
  changed so late that the read of its scope could not have listed it.
* **`SweepBounded`**: a bounded sweep takes at most its share of what the family held
  before the run.
* **`StampHonest`**: the date of the last sweep is never ahead of what was swept.
* **`OkMeansMirrored`**: a scheduled run that closes as `ok` has read every scope.
* **`KeepsMirror`**: Pull implements Mirror. Every change of the archive, the cursors and
  the sweep date is one that loses nothing at that moment: in particular no row is taken
  that is not listed as it is, and none that a cursor has passed is given up.
* **`EventuallyMirrored`**: once the far end is quiet, the archive comes to be a copy and
  remains one. Deletions are part of it unless they are more of the family than a
  bounded sweep may take: those every scheduled sweep refuses, as the repository's README
  says of a bulk deletion, and they stay live until somebody reconciles with another
  bound. In the run both happen: one of two records is swept, two of two are refused.
* **`StoredIsHeld`**: an attachment recorded as stored has its row in `blobs` and its
  own bytes on disk, wherever a pass was interrupted.
* **`OkMeansFetched`**: a pass that was not stopped and exits 0 stored all it took on.
* **`NothingForgotten`**, **`EverythingKept`**: Blobs implements Vault, without and with
  its fairness. No step sends a downloaded attachment back, and one that always fails
  does not starve the others, even one at a time.
* **`NeverHalf`**: what is at the path of a tree is a whole tree, at every step of a
  rebuild and whatever an earlier one left beside it.
* **`CatchesUp`**: once the archive stays as it is, its tree is installed in the end,
  however many rebuilds were interrupted, and wherever.
* **`TwoRunsMirror`**: two clean nightly runs in a row, of a company that does not change
  meanwhile, leave the archive a copy of both families, whatever scopes the archive had
  before: scopes that came back, that a sweep took, or that a listing broke off before.
* **`SweptKnownGone`**: the sweep of a scoped family takes no record that the company
  listed all through the run under a scope of the plan, however its scopes answered.
* **`ProbeHonest`**: what a probe records of a family is what its endpoint does.
* **`OneRun`**: at most one session at a time, and a lock is only held by a process
  that runs.
* **`NoOrphans`**: no run, no record and no number without its account, beside an
  `account remove` that counts and deletes in two statements.
* **`WorksOnItsSchema`**: who works finds every table its binary knows, and the recorded
  version is that of the tables.
* **`ExitTells`**: the exit code of a pull or a probe agrees with the row of its run.
* **`NumbersCurrent`**: after a pull without `--no-files` that closed its run and did not
  warn, the numbers are the archive's until the next pull, beside a `reproject`, a probe
  and a removal.
* **`FinishedMeansWhole`**: a pull without an error leaves the usual years of payroll whole.
* **`NeverPassesForNewer`**: no PDF is recorded for a version newer than what it shows.
* **`SnapshotsFollow`**: once the report is read, its newest snapshot is what it says,
  also when the snapshots could not be looked at; and a snapshot added while nothing
  fails does not repeat the one before it.
* **`EventuallyComplete`**: every payroll year in reach is whole some day, and every
  invoice that renders has the PDF of its last version, as long as fewer never render
  than a pass takes.
* **`NoStandingGap`**: whatever is committed between its statements, a verification
  reports a dangling reference, a damaged file or an uncovered code that was there all
  the while.

Bounds. Two records are what it takes for one to be read and the other to raise the
cursor; two scopes for one to fail and the other not, or to start later, and with two
records over a floor of one, one of them is the half a sweep may take and two are over it. One
fault per behaviour leaves every later run undisturbed, which is when a damage done by
the fault shows. The instants are enough for a run, an edit during it, and a run after
it whose read begins past the overlap. Edits that surface late are in `mirror`, and
in the theorem about `CursorSafe` for every lag. Two attachments with one digest are
what it takes for one to find the file of the other in place, a third for one that
fails beside them. `MaxAttempts` is further than a fault can raise the attempts of a
good file, so that the order by attempts is not lost. Two archives that share an
entry are what it takes for a mixture of them to be neither, two faults for the
second to meet what the first left. `PageSize` 1 makes every walk of two records a walk
of two pages. In `fanout` two scopes are what it takes for the archive to have some and
not all, and two changes for one to go and come back. In `sessions` a third command is
what it takes for one process to act twice beside the other, and two schema versions
for an opening to stop between two migrations. In `papers` the second day begins a tax
year, so that the years of payroll move; a report can move and move back within two
changes; the first of three invoices takes one of the two places of a pass, so that the
other two need two passes. In `mirror` the floor is one record and the bound a half, so
that a sweep may be refused for good. In `verify` two commits are a record that goes and one that comes.
`MaxClock`, `MaxFaults`, `MaxWalk`, `MaxChanges`, `MaxStarts`, `MaxPages`, `MaxId`,
`MaxPeriods` and `MaxCommits` bound the model and nothing in the code. `MaxWalk` is also
an assumption: see the first finding.

Deadlock is checked in every run but `sessions`, where the processes are done once
`MaxStarts` commands have been given.

Fairness. In `mirror` the engine's own steps are weakly fair: nothing in it waits
for anything but a request or a statement, and both end. An edit surfaces and time
passes. `StartRun` of each scheduled command is strongly fair: cron starts each of
them for ever (README.md, "Scheduling"), and while another run is in progress the
lock refuses the tick, so it is enabled only again and again.

In `attachments`, `Begins` is weakly fair because cron starts pulls for ever and a pass
follows each; the steps of a pass are weakly fair for the same reason as a run's. A
link that expires in a worker's hands, or a deadline that cuts a pass, counts as a
fault: links outlive a download, and a crontab whose deadline leaves no time for
attachments on any tick never downloads them. In `trees` a rebuild's steps are weakly
fair, since it waits for nothing, and so is beginning one: every pull ends with it.

In `papers` the steps of a command are weakly fair, and `StartPull` and `StartRender`
strongly: both are started again and again, and the one waits while the other holds the
lock. Cron starts the pulls. That somebody renders for ever is an assumption about the
user: the repository schedules no `docs render`.

### What does not hold

Three runs check what a comment of the program says, and find it violated.

* `long_walk` (`engine.go:378`): the cursor becomes the highest `updated_at` of the
  walk. A full read is not sorted by it. If the walk takes longer than the overlap, a
  record that was read on an early page and edited afterwards is behind the cursor by
  more than the overlap. `CursorSafe` therefore needs walks shorter than the overlap
  less the lag: an hour, against 20 minutes of the half-hourly line, and no limit on
  the nightly one.
* `dated` (`engine.go:647`): `pull --from X --reconcile` takes the read of a date
  range for a full scan, and soft-deletes what is outside it.
* `half_tree` (`records.go:134`): every rebuild of a tree builds in the same
  `root.building`, and `files rebuild` and `files relink` take no lock. Beside a pull
  that rebuilds at its end, one of them clears what the other is writing, and half a
  tree is installed although nothing failed.

More were met while modelling. The models contain each of these behaviours or leave it
out where a property's comment says so; no run is about them.

Reading:

* A 403 or 404 in the middle of a walk counts as a complete one and moves the cursor
  (`engine.go:340`), though 375-377 say a partial walk cannot. No sweep rests on it
  (`scopes`), and `Benign` excludes it for `CursorSafe`.
* `--changed-until` filters nothing (`engine.go:643`), though its help says it does.
* A scoped family whose last scope is gone has no jobs, is never swept, and its
  children stay live. `TwoRunsMirror` is about companies with a scope.
* A scoped family that ignores `updated_since` is recorded under the scope ""
  (`probe.go:226`), and its jobs look under their own: it is not read in full as
  `cmd_probe.go:47` says. As it ignores the filter, nothing is lost by that.
* The fan-out is planned before any job runs, so the pull order does not make the
  listing of scopes a rare case (`jobs.go:198-201`, `scopes.go:80-82`): a first pull
  always lists them twice.
* A walk that fitted the request budget exactly counts as partial (`engine.go:369`).
* A vanished payroll period is never marked: `engine.go:424` skips families of that
  shape as "a single row that every run rewrites", and payroll has many.
* The earliest tax year asked for is the year the first accounting year ends in
  (`payroll.go:89`), which may miss the tax year the books begin in (47-48).
* When the newest capture of a report cannot be read, its error is dropped
  (`reports.go:48`) and the report captured again, though 28-30 say an identical one is
  skipped. `SnapshotsFollow` allows it where something failed.
* When the company document cannot be read or decoded, payroll falls back on the usual
  years without a word (`payroll.go:73`), and the run is `ok`. `FinishedMeansWhole` is
  about the usual years, `EventuallyComplete` about all of them.
* The default window of a report ends today, so an unchanged report is captured once
  a day.

Files:

* `blobs fetch` does not download again a stored attachment whose file is missing
  (`attachments.go:104`), though `files relink` advises it (`cmd_files.go:220`).
* Attachments skipped for `--max-duration` do not show in the exit code
  (`cmd_files.go:84`), which is 0 when the records were read in time.
* A process that dies between the two renames of a swap leaves no tree at its path
  (`records.go:146`) until the next rebuild has succeeded. `NeverHalf` allows it.
* A third entry of one name and one digest is not renamed again (`names.go:94`), and
  the tree of files cannot be built.
* `docs render` takes stale documents by family and URL up to its limit, 10000 without
  `--limit`, whatever their attempts (`documents.go:60`): as many that never render as
  the limit starve the others. `EventuallyComplete` is about fewer of them.

Commands:

* A run whose plan fails, or that is cancelled, leaves its row open
  (`engine.go:215`), though a comment takes an open row for a process that died.
  `ExitTells` allows it with exit code 2.
* SQLite gives the id of a removed account to the next one added. A pull that resolved
  its account before both would archive under the new one, and a remove that found its
  account before both would delete it. Session has both behaviours; `NoOrphans` holds
  since some account is there.
* An account that has ever had a run can not be removed, though it holds no records
  (`accounts.go:142`): the rows of `sync_runs` refer to it.
* Two first openings at once: the slower finds the table there, and exits 2.
  A newer binary's `status` migrates under a pull of an older one.
* `pull --no-files` leaves the numbers as they were, with no warning and with exit code 0
  (`cmd_pull.go:218`), though the repository's README and `design.md:373` speak only of
  trees. `NumbersCurrent` is about the other pulls.
* `scaledValue` projects `1.0000000` as NULL (`numbers.go:183`).
* `verify` reads the URLs before the records, so a pull that commits a contact and then
  its bill in between makes it report a gap that is none (`verify.go:113`).
* The coverage check fails on an opening balance of a code without transactions in the
  window, though `verify.go:291-297` calls opening balances legitimate.
* `localTotals` reads the newest balance again for its window (`verify.go:400`), which
  may be another than the one the entries are from; when that read fails, it sums all
  time without a word.

## What is proved

`PullProofs` proves, for every value of the constants that satisfies their
assumptions, through any faults, shifting pages and narrowed reads:

* `TypeCorrect`: `Spec => []TypeOK`;
* `BoundCorrect`: `Spec => SweepBounded`;
* `StampCorrect`: `Spec => []StampHonest`.

`SweepBounded` speaks of the rows held before a run and the sweep looks at them after
it, so the invariant (`BoundInv`) is an account: until the sweep, the live rows are as
many as were held, plus those counted as added, plus those that pages in hand have
brought to life and not counted yet (`Balanced`). Each page moves rows from the last sum
to the one before, on however many workers. The date of `StampHonest` is that of the
earliest read of the run, so its invariant is about the moment between the sweep and its
date (`SweptInv`): whatever the sweep left was seen since the first read began.

`PullSafety` proves four properties under `Benign`, for any number of records, scopes,
workers and runs:

* `CursorCorrect`: `Spec => []CursorSafe`;
* `SweepCorrect`: `Spec => SweepSound`;
* `OkCorrect`: `Spec => OkMeansMirrored`;
* `MirrorImplemented`: `Spec => KeepsMirror`.

`Benign` says where the promises hold: the overlap covers the visibility lag and the
length of a walk; pages do not shift; no 403 arrives in the middle of a walk; no run
both narrows its read by business date and sweeps. The conjuncts on walks, 403s and
dates are described under "What does not hold", and `long_walk` and `dated` show that
without theirs a property is lost. Shifting pages the design document concedes
("Written down, not papered over").

None of the first three is inductive. A cursor is safe because of what a walk has done by
the time it ends, so the invariant (`Inv` in `PullInvariant`) is about walks that
have not ended: `Followed(s, r)` says that while a job of scope `s` reads, a record
`r` it lists is still owed by the pages to come, or in the page in hand, or mirrored,
or behind the cursor the walk began at (where `CursorSafe` itself covers it), or was
changed no earlier than `Lag` before the walk began, and then the overlap covers it:
the cursor can reach at most the end of the walk. `Reseen(s, r)` says the same of a
full walk and `last_seen_at`, which is what the sweep compares. `JobInv` ties the two
to a job's clock, its high water mark and its flags.

The proof goes by actions: the far end's steps (`EnvironmentInv`), the run's steps
(`RunLevelInv`, with `SweepAppliedInv`), and each step of a job. `JobStepFrame` and
`OwnScope` reduce a job's step to what it does to its own scope. `OnlySweepsDelete`
closes `SweepCorrect`: no other action makes a live row dead. For `OkCorrect`, `Kept(s)`
says what a job that ended without an error leaves: what its scope lists is mirrored, or
changed too late for its walk. It is read off `Followed` at the last page, and no later
step of the run takes it back; `AllEnded` says that a run which was not cancelled only
goes on to its sweeps when every job has ended.

`MirrorImplemented` takes each action of Pull to one of Mirror or to a stutter
(`MirrorEnvironment`, `MirrorJob`, `MirrorSweep`, `MirrorStamp`). That `Close` is an
`Advance` is `CursorSafe` of the next state, that `SweepApplied` is a `GiveUp` is the
invariant behind `SweepCorrect`, and that `Stamp` is a `Date` the one behind
`StampCorrect`; for `AttachPage` it takes one more invariant (`BatchInv`): a page in hand has been archived,
and no sweep runs beside it. `MirrorsAreSafe` closes the circle: whatever keeps to
Mirror keeps its cursors safe, when the overlap covers the lag.

`BlobsProofs` proves, for any attachments, workers, limits and number of passes:

* `TypeCorrect`;
* `StoredAreHeld`: `Spec => []StoredIsHeld`;
* `CleanMeansFetched`: `Spec => []OkMeansFetched`;
* `NothingIsForgotten`: `Spec => V!VaultSafe`, the refinement but for its fairness.

Their invariant (`IInv`) adds to the two properties what a pass has in hand. By
`PlacedIsHeld` an attachment between its rename and its row has its file, and a pass
works on outstanding attachments only: `FailAttachment` does not look at the state it
overwrites, and this is why it never demotes a stored one. By `NoneDropped` whatever a
pass took on is stored, in work, or counted as failed. The refinement follows since
under the invariant `Kept` is what the rows call stored.

`TreeSwapProofs` proves `TypeCorrect` and, when every process that rebuilds takes the
lock, `TreesAreWhole`: `Spec => []NeverHalf`. The invariant says that at most one
process is rebuilding (`Alone`) and what is staged at each step of it (`Staged`): while
it writes, `building` holds just what is no longer `todo`, and from then on until it is
installed the whole tree. `half_tree` shows that the condition is needed.

`FanOutProofs` proves `TypeCorrect` and `SweepOfScopes`: `Spec => SweptKnownGone`, for any
scopes, commands, workers, failures and refusals. What is not listed counts as gone
(`GoneInv`); each scope of the plan has a job until the sweeps are over (`PlanInv`); a
full walk still owes or has read what its scope listed all along (`Followed`).
It also proves

* `MirrorCorrect`: `Spec => []TwoRunsMirror`. The first clean run leaves the scopes
  known, whatever it planned from, so the plan of the second is right, and its sweep
  leaves the children known (`CalmInv`, `PlannedInv`). In between, a job has archived
  what it has read (`Walked`), and a run under which nothing changes misses only what
  was never listed (`SteadyInv`).
* `ProbeCorrect`: `Spec => ProbeHonest`. What the first request has shown is still there
  for the second (`ProbeInv`), so an empty answer to it is the filter's doing.

`SessionProofs` proves, for any number of processes, binaries, command lines and
accounts: `TypeCorrect`, `OneRunAtATime`, `SchemaComplete`, `NoOrphanRows`,
`ExitCodeTells` and `NumbersAreCurrent`, the last of pulls without `--no-files`. `LockInv`
says that to be engaged and to hold the lock are the same;
`SchemaInv` that the version a command read is never ahead of the tables; `ExitInv`
that a row of `sync_runs` is written by one process only, and agrees with its code as
soon as it is closed. `NumbersInv` needs them all: only the holder of the lock reads,
so no other pull archives under an account whose last run is another's, and a pull with
a run still finds its account when it projects.

`VerifyProofs` proves `TypeCorrect` and `GapsAreFound`: `Spec => []NoStandingGap`, for any
records, references, codes and windows. What stands is wrong now (`StandingInv`), so
each of the statements of a check sees its side of it (`ReferencesInv`, `BlobsInv` and
the coverage of the codes).

`PapersProofs` proves, for any calendar, invoices and years of payroll:

* `TypeCorrect`;
* `DocumentsCorrect`: `Spec => []NeverPassesForNewer`;
* `SnapshotsCorrect`: `Spec => SnapshotsFollow`;
* `YearsCorrect`: `Spec => FinishedMeansWhole`.

Versions only grow, so a PDF may be late for its invoice but never early: `DocInv` says
it of the archive, of the queue and of the PDF that is made and not recorded. The other
two are about a pull that nothing changed under and that has no error (`Sound`): each of
its jobs is still waiting, or in hand, or has done what it is for (`SnapInv`, `WholeInv`),
and in a year in hand what it lists is archived or still owed (`InHand`). `PayInv` adds
that the archive never lists more periods than there are, so that a year read again can
only become whole.

Only model-checked: the liveness properties (`EventuallyMirrored`, `EverythingKept`,
`CatchesUp`, `EventuallyComplete`), since liveness under fairness is out of the prover's
reach. `VaultSafe` and `MirrorSafe` are proved, the fairness of `Vault` is not.

## What is not modelled

* The names and links of the entries of a tree, and what is in them.
* A run of more than two families. Families share nothing in a run but the workers and
  the budget, except where one family's records are another's scopes: that is FanOut.
* The bodies, digests and version history, beyond which edit a body comes from.
* Two clocks. The far end's and the archive's are one; skew is part of `Lag`.
* A record whose body changes without its `updated_at`.
* A request budget that runs out in every run: it is a fault, and faults are bounded.
* A run closed as `failed`: the outcome is declared (`state.go:27`) and never recorded.
* The id of a record, a digest, a date or a code as text; how a value is scaled.
* Export, status, sql, time frames, login, configuration and display: they read or
  parse, and keep nothing that another step depends on.
* The retries of a request and the rate limit: those are the SDK's.

## Plan

**Pull** and **Mirror**, **Blobs** and **Vault**, **TreeSwap**, **FanOut**, **Session**, **Papers** and
**Verify** are done. What would add most from here:

1. **Session** over an abstract archive of accounts, as Pull is over Mirror.
2. **Names** and **Timeframe**: pure algorithms, against reference definitions over
   bounded inputs.

## Running it

    tlc -config MCPull_faults.cfg MCPull
    tlc -config MCSession_sessions.cfg MCSession
    tlapm PullSafety.tla

With two workers `faults` takes about two minutes and a half, `scopes` and `sessions` a
minute and a half and the other passing runs about a minute or less each; the proofs of a module take
from one minute to several from nothing.
