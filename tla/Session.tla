------------------------------ MODULE Session ------------------------------
(***************************************************************************)
(* The commands of fasync as processes on one data directory: the run lock *)
(* and the archive in the order they are opened and closed, the            *)
(* migrations, the accounts and what refers to them, and the passes of a   *)
(* pull, or the row of a probe, with the exit code they leave behind.      *)
(*                                                                         *)
(* A command that talks to the API opens a session and holds the lock; the *)
(* others (status, account, reproject, ...) open the archive without it,   *)
(* and every opening migrates.  What a pull does inside its engine is      *)
(* Pull's subject: here it archives pages under the account it resolved.   *)
(***************************************************************************)
EXTENDS Integers, Sequences, FiniteSets

CONSTANTS
    Processes,      \* what runs on the data directory at the same time
    Slugs,          \* the names of accounts
    Newest,         \* the highest schema version any installed binary knows
    Commands,       \* the command lines in use
    None

CONSTANTS
    MaxId,          \* bound: the ids accounts may get
    MaxStarts,      \* bound: commands started in a behaviour
    MaxPages,       \* bound: pages archived under an account
    MaxFaults       \* bound: failures and crashes in a behaviour

Ids == 1..MaxId

\* --account left out.
Unnamed == "any"

\* What a command does once the archive is open; "fetch" stands for docs render
\* and blobs fetch, session commands without a run of their own, "status" for
\* those that only read.
Verbs == {"pull", "probe", "fetch", "status", "add", "remove", "reproject"}

\* The commands that have a row of sync_runs.
Recorded == {"pull", "probe"}

NeedsSession(cmd) == cmd.verb \in Recorded \cup {"fetch"}
NeedsAccount(cmd) == cmd.verb \in Recorded \cup {"fetch", "reproject"}

ASSUME SessionAssumption ==
    /\ IsFiniteSet(Slugs) /\ Unnamed \notin Slugs
    /\ None \notin Processes /\ None \notin Slugs
    /\ MaxId \in Nat \ {0}
    /\ Newest \in Nat \ {0}
    /\ Commands \subseteq
          [verb : Verbs, slug : Slugs \cup {Unnamed}, files : BOOLEAN]
    /\ \A cmd \in Commands : cmd.verb \in {"add", "remove"} => cmd.slug # Unnamed
    /\ None \notin Commands
    /\ MaxStarts \in Nat /\ MaxPages \in Nat /\ MaxFaults \in Nat

\* Exit codes, and what a process that was killed leaves instead.
exitOK       == 0
exitPartial  == 1
exitConfig   == 2
exitLockHeld == 3
exitBudget   == 4
Killed       == 9
ExitCodes    == {exitOK, exitPartial, exitConfig, exitLockHeld, exitBudget, Killed}

VARIABLES
    holder,     \* .lock: the process whose flock is on it
    version,    \* PRAGMA user_version
    tables,     \* the migrations whose tables the archive has
    account,    \* accounts: the slug of each id
    records,    \* records: pages archived under each account
    numbers,    \* record_numbers: how many of them are projected
    runs,       \* sync_runs
    proc,       \* the processes
    starts,     \* auxiliary: commands started, bounded by MaxStarts
    faults      \* auxiliary: failures so far, bounded by MaxFaults

archiveVars == <<account, records, numbers, runs>>
schemaVars  == <<version, tables>>
vars        == <<holder, schemaVars, archiveVars, proc, starts, faults>>

----------------------------------------------------------------------------
(* Types                                                                   *)

\* Where a command is: the session's part, then its own, then its end.
Steps == {"out", "locking", "opening", "migrating", "resolving", "connecting",
          "starting", "probing", "reading", "downloading", "projecting",
          "working", "finding", "counting", "deleting", "closing"}

Proc ==
    [pc : Steps, cmd : Commands \cup {None},
     knows : 0..Newest,         \* SchemaVersion of its binary
     seen : 0..Newest,          \* the version its migrate has got to
     id : Ids \cup {0},         \* the account it resolved
     row : Nat,                 \* its row of sync_runs
     code : ExitCodes,          \* its exit code so far
     warned : BOOLEAN]          \* the projection failed, with a warning

Outside ==
    [pc |-> "out", cmd |-> None, knows |-> 0, seen |-> 0, id |-> 0, row |-> 0,
     code |-> exitOK, warned |-> FALSE]

RunRow ==
    [account : Ids, mode : Recorded, outcome : {"open", "ok", "partial", "budget"}]

\* Type correctness of the archive and the processes.
TypeOK ==
    /\ holder \in Processes \cup {None}
    /\ version \in 0..Newest /\ tables \subseteq 1..Newest
    /\ account \in [Ids -> Slugs \cup {None}]
    /\ records \in [Ids -> Nat] /\ numbers \in [Ids -> Nat]
    /\ runs \in Seq(RunRow)
    /\ proc \in [Processes -> Proc]
    /\ \A p \in Processes : proc[p].row \in 0..Len(runs)
    /\ starts \in Nat /\ faults \in Nat

\* A new data directory, or one that an older binary has set up.
Init ==
    /\ holder = None
    /\ version \in 0..Newest /\ tables = 1..version
    /\ account \in [Ids -> Slugs \cup {None}]
    /\ \A i \in Ids \ {1} : account[i] = None
    /\ version = 0 => account[1] = None
    /\ records = [i \in Ids |-> 0] /\ numbers = [i \in Ids |-> 0]
    /\ runs = <<>>
    /\ proc = [p \in Processes |-> Outside]
    /\ starts = 0 /\ faults = 0

----------------------------------------------------------------------------

Fault   == faults < MaxFaults /\ faults' = faults + 1
NoFault == UNCHANGED faults

\* p gets as far as step.
Reach(p, step) == proc' = [proc EXCEPT ![p].pc = step]

\* p is done, with a code: a session closes first.
Leave(p, code) ==
    proc' = [proc EXCEPT ![p].pc = IF holder = p THEN "closing" ELSE "out",
                         ![p].code = code]

At(p, step) == proc[p].pc = step

\* A command line is given to a binary of some age.
Start(p, cmd, knows) ==
    /\ At(p, "out") /\ starts < MaxStarts
    /\ starts' = starts + 1
    /\ proc' = [proc EXCEPT ![p] =
          [Outside EXCEPT !.pc = IF NeedsSession(cmd) THEN "locking" ELSE "opening",
                          !.cmd = cmd, !.knows = knows]]
    /\ UNCHANGED <<holder, schemaVars, archiveVars, faults>>

----------------------------------------------------------------------------
(* lock.Acquire, before the archive is opened.                             *)

\* Mutated: the lock is asked for and the answer not looked at.
TakeUnheld(p) ==
    /\ At(p, "locking")
    /\ holder' = p /\ Reach(p, "opening")
    /\ UNCHANGED <<schemaVars, archiveVars, starts, faults>>

TakeLock(p) ==
    /\ At(p, "locking") /\ holder = None
    /\ holder' = p /\ Reach(p, "opening")
    /\ UNCHANGED <<schemaVars, archiveVars, starts, faults>>

\* ErrHeld has an exit code of its own.
LockHeld(p) ==
    /\ At(p, "locking") /\ holder # None
    /\ Leave(p, exitLockHeld)
    /\ UNCHANGED <<holder, schemaVars, archiveVars, starts, faults>>

----------------------------------------------------------------------------
(* store.Open and its migrations, by every command.                        *)

\* The version is read once, outside the migrations' transactions.
ReadVersion(p) ==
    /\ At(p, "opening")
    /\ IF version > proc[p].knows
       THEN Leave(p, exitConfig)
       ELSE proc' = [proc EXCEPT ![p].pc = "migrating", ![p].seen = version]
    /\ UNCHANGED <<holder, schemaVars, archiveVars, starts, faults>>

Pending(p) == proc[p].seen + 1

\* Mutated: the version is recorded ahead of the tables, and the two may part.
RecordFirst(p) ==
    /\ At(p, "migrating") /\ proc[p].seen < proc[p].knows
    /\ Pending(p) \notin tables
    /\ version' = Pending(p)
    /\ \/ tables' = tables \cup {Pending(p)} /\ NoFault
          /\ proc' = [proc EXCEPT ![p].seen = Pending(p)]
       \/ tables' = tables /\ Fault /\ Leave(p, exitConfig)
    /\ UNCHANGED <<holder, archiveVars, starts>>

\* One migration, one transaction.
ApplyMigration(p) ==
    /\ At(p, "migrating") /\ proc[p].seen < proc[p].knows
    /\ Pending(p) \notin tables
    /\ tables' = tables \cup {Pending(p)} /\ version' = Pending(p)
    /\ proc' = [proc EXCEPT ![p].seen = Pending(p)]
    /\ UNCHANGED <<holder, archiveVars, starts, faults>>

\* Another process was faster: CREATE TABLE finds the table there.
MigrationTaken(p) ==
    /\ At(p, "migrating") /\ proc[p].seen < proc[p].knows
    /\ Pending(p) \in tables
    /\ Leave(p, exitConfig)
    /\ UNCHANGED <<holder, schemaVars, archiveVars, starts, faults>>

FirstStep(cmd) ==
    CASE NeedsAccount(cmd)    -> "resolving"
      [] cmd.verb = "remove"  -> "finding"
      [] OTHER                -> "working"

Opened(p) ==
    /\ At(p, "migrating") /\ proc[p].seen >= proc[p].knows
    /\ Reach(p, FirstStep(proc[p].cmd))
    /\ UNCHANGED <<holder, schemaVars, archiveVars, starts, faults>>

----------------------------------------------------------------------------
(* resolveAccount and buildClient.                                         *)

Stored == {i \in Ids : account[i] # None}

\* AccountBySlug, OnlyAccount
Named(slug) ==
    IF slug = Unnamed THEN IF Cardinality(Stored) = 1 THEN Stored ELSE {}
    ELSE {i \in Stored : account[i] = slug}

AfterResolve(cmd) == IF NeedsSession(cmd) THEN "connecting" ELSE "projecting"

Resolve(p) ==
    /\ At(p, "resolving")
    /\ \E i \in Named(proc[p].cmd.slug) :
          proc' = [proc EXCEPT ![p].id = i, ![p].pc = AfterResolve(proc[p].cmd)]
    /\ UNCHANGED <<holder, schemaVars, archiveVars, starts, faults>>

ResolveFails(p) ==
    /\ At(p, "resolving")
    /\ Named(proc[p].cmd.slug) = {}
    /\ Leave(p, exitConfig)
    /\ UNCHANGED <<holder, schemaVars, archiveVars, starts, faults>>

Connect(p) ==
    /\ At(p, "connecting")
    /\ Reach(p, IF proc[p].cmd.verb \in Recorded THEN "starting" ELSE "working")
    /\ UNCHANGED <<holder, schemaVars, archiveVars, starts, faults>>

----------------------------------------------------------------------------
(* runEngine: the archive pass, the blob pass, and what is derived; Probe.  *)

\* _foreign_keys: a row may only refer to an account there is.
KeyHolds(i) == account[i] # None

\* What an account holds, and no account may be deleted under.  The other tables
\* that refer to it (sync_state, capabilities, attachments, documents,
\* report_snapshots) get rows only under a run, or from records, that are here.
Referenced(i) ==
    \/ records[i] > 0 \/ numbers[i] > 0
    \/ \E n \in DOMAIN runs : runs[n].account = i

\* Mutated: the DSN without its file: prefix, and so without foreign keys.
KeysOff(i) == TRUE

Deletable(i) == ~Referenced(i)

\* The row a command starts its run with.
NewRow(p) == [account |-> proc[p].id, mode |-> proc[p].cmd.verb, outcome |-> "open"]

\* store.StartRun; the errors of plan and scopesFor are FailsOutright.
StartRun(p) ==
    /\ At(p, "starting") /\ KeyHolds(proc[p].id)
    /\ runs' = Append(runs, NewRow(p))
    /\ proc' = [proc EXCEPT
          ![p].pc = IF proc[p].cmd.verb = "pull" THEN "reading" ELSE "probing",
          ![p].row = Len(runs) + 1]
    /\ UNCHANGED <<holder, schemaVars, account, records, numbers, starts, faults>>

StartRefused(p) ==
    /\ At(p, "starting") /\ ~KeyHolds(proc[p].id)
    /\ Leave(p, exitConfig)
    /\ UNCHANGED <<holder, schemaVars, archiveVars, starts, faults>>

ArchivePage(p) ==
    /\ At(p, "reading") /\ KeyHolds(proc[p].id)
    /\ records[proc[p].id] < MaxPages
    /\ records' = [records EXCEPT ![proc[p].id] = @ + 1]
    /\ UNCHANGED <<holder, schemaVars, account, numbers, runs, proc, starts, faults>>

exitFor ==
    [ok |-> exitOK, partial |-> exitPartial, budget |-> exitBudget]

\* store.FinishRun and exitFor; a family that failed makes the outcome partial.
FinishRun(p, outcome) ==
    /\ At(p, "reading")
    /\ IF outcome = "partial" THEN Fault ELSE NoFault
    /\ runs' = [runs EXCEPT ![proc[p].row].outcome = outcome]
    /\ proc' = [proc EXCEPT ![p].pc = "downloading", ![p].code = exitFor[outcome]]
    /\ UNCHANGED <<holder, schemaVars, account, records, numbers, starts>>

\* Probe's own end: a family that could not be probed is in the code, and not in
\* the row.
ProbeOver(p, code) ==
    /\ At(p, "probing")
    /\ IF code = exitOK THEN NoFault ELSE Fault
    /\ runs' = [runs EXCEPT ![proc[p].row].outcome = "ok"]
    /\ Leave(p, code)
    /\ UNCHANGED <<holder, schemaVars, account, records, numbers, starts>>

\* Mutated: the codes are added up.
Both(a, b) == a + b

\* Mutated: the last pass has the last word.
Later(a, b) == b

worse(a, b) == IF b > a THEN b ELSE a

\* fetchBlobsAfterPull, or --no-blobs; with --no-files it is the last pass.
Download(p, code) ==
    /\ At(p, "downloading")
    /\ IF code = exitOK THEN NoFault ELSE Fault
    /\ proc' = [proc EXCEPT
          ![p].pc = IF proc[p].cmd.files THEN "projecting" ELSE "closing",
          ![p].code = worse(@, code)]
    /\ UNCHANGED <<holder, schemaVars, archiveVars, starts>>

\* Mutated: what is projected is kept, and the new is added for want of a delete.
Patched(i) == IF numbers[i] = 0 THEN records[i] ELSE numbers[i]

\* What ProjectNumbers leaves: all there is, deleted records included.
Projected(i) == records[i]

\* ProjectNumbers, in one transaction; the trees that follow are TreeSwap's.
Project(p) ==
    /\ At(p, "projecting") /\ KeyHolds(proc[p].id)
    /\ numbers' = [numbers EXCEPT ![proc[p].id] = Projected(proc[p].id)]
    /\ Leave(p, proc[p].code)
    /\ UNCHANGED <<holder, schemaVars, account, records, runs, starts, faults>>

\* The account is gone, and so are its records.
ProjectNothing(p) ==
    /\ At(p, "projecting") /\ ~KeyHolds(proc[p].id)
    /\ Leave(p, proc[p].code)
    /\ UNCHANGED <<holder, schemaVars, archiveVars, starts, faults>>

\* After a pull a failure is a warning; to reproject it is the end.
ProjectFails(p) ==
    /\ At(p, "projecting") /\ Fault
    /\ IF proc[p].cmd.verb = "pull"
       THEN proc' = [proc EXCEPT ![p].pc = "closing", ![p].warned = TRUE]
       ELSE Leave(p, exitConfig)
    /\ UNCHANGED <<holder, schemaVars, archiveVars, starts>>

----------------------------------------------------------------------------
(* The other commands.                                                     *)

\* docs render and blobs fetch exit as they please; status and the like with 0.
Work(p, code) ==
    /\ At(p, "working") /\ proc[p].cmd.verb \in {"fetch", "status"}
    /\ code # exitOK => proc[p].cmd.verb = "fetch"
    /\ Leave(p, code)
    /\ UNCHANGED <<holder, schemaVars, archiveVars, starts, faults>>

\* The id SQLite gives a row of accounts: one more than the highest in use.
NextId == IF Stored = {} THEN 1 ELSE 1 + CHOOSE i \in Stored : \A j \in Stored : j <= i

\* AddAccount: a slug is unique.
AddAccount(p) ==
    /\ At(p, "working") /\ proc[p].cmd.verb = "add"
    /\ IF Named(proc[p].cmd.slug) # {}
       THEN Leave(p, exitConfig) /\ UNCHANGED account
       ELSE /\ NextId \in Ids
            /\ account' = [account EXCEPT ![NextId] = proc[p].cmd.slug]
            /\ Leave(p, exitOK)
    /\ UNCHANGED <<holder, schemaVars, records, numbers, runs, starts, faults>>

\* RemoveAccount: three statements, and no lock.
FindAccount(p) ==
    /\ At(p, "finding")
    /\ IF Named(proc[p].cmd.slug) = {}
       THEN Leave(p, exitConfig)
       ELSE \E i \in Named(proc[p].cmd.slug) :
               proc' = [proc EXCEPT ![p].pc = "counting", ![p].id = i]
    /\ UNCHANGED <<holder, schemaVars, archiveVars, starts, faults>>

CountRecords(p) ==
    /\ At(p, "counting")
    /\ IF records[proc[p].id] > 0
       THEN Leave(p, exitConfig)
       ELSE Reach(p, "deleting")
    /\ UNCHANGED <<holder, schemaVars, archiveVars, starts, faults>>

DeleteAccount(p) ==
    /\ At(p, "deleting")
    /\ IF Deletable(proc[p].id)
       THEN Leave(p, exitOK) /\ account' = [account EXCEPT ![proc[p].id] = None]
       ELSE Leave(p, exitConfig) /\ UNCHANGED account
    /\ UNCHANGED <<holder, schemaVars, records, numbers, runs, starts, faults>>

----------------------------------------------------------------------------
(* The end of a command.                                                   *)

\* An error the command returns: the lock file, the archive, the client, the
\* plan of a pull, a statement.  What it had opened is closed.
FailsOutright(p) ==
    /\ proc[p].pc \notin {"out", "downloading", "projecting", "closing"}
    /\ Fault
    /\ Leave(p, exitConfig)
    /\ UNCHANGED <<holder, schemaVars, archiveVars, starts>>

\* session.Close: the lock first, then the archive, then the process.
Close(p) ==
    /\ At(p, "closing")
    /\ holder' = None /\ Reach(p, "out")
    /\ UNCHANGED <<schemaVars, archiveVars, starts, faults>>

\* The kernel drops the lock of a process that dies.
Crash(p) ==
    /\ ~At(p, "out") /\ Fault
    /\ holder' = IF holder = p THEN None ELSE holder
    /\ proc' = [proc EXCEPT ![p].pc = "out", ![p].code = Killed]
    /\ UNCHANGED <<schemaVars, archiveVars, starts>>

----------------------------------------------------------------------------

Opening(p) ==
    TakeLock(p) \/ LockHeld(p) \/ ReadVersion(p) \/ ApplyMigration(p)
    \/ MigrationTaken(p) \/ Opened(p) \/ Resolve(p) \/ ResolveFails(p) \/ Connect(p)

Running(p) ==
    \/ StartRun(p) \/ StartRefused(p) \/ ArchivePage(p)
    \/ \E outcome \in {"ok", "partial", "budget"} : FinishRun(p, outcome)
    \/ \E code \in {exitOK, exitPartial} : ProbeOver(p, code)
    \/ \E code \in {exitOK, exitPartial, exitConfig} : Download(p, code)
    \/ Project(p) \/ ProjectNothing(p) \/ ProjectFails(p)

Accounting(p) ==
    AddAccount(p) \/ FindAccount(p) \/ CountRecords(p) \/ DeleteAccount(p)

Next ==
    \E p \in Processes :
        \/ \E cmd \in Commands, knows \in 1..Newest : Start(p, cmd, knows)
        \/ Opening(p) \/ Running(p) \/ Accounting(p)
        \/ \E code \in {exitOK, exitPartial, exitConfig} : Work(p, code)
        \/ FailsOutright(p) \/ Close(p) \/ Crash(p)

Spec == Init /\ [][Next]_vars

----------------------------------------------------------------------------
(* What makes the commands safe beside each other.                         *)

\* A session command that has not been refused, and has not let go yet.
Engaged(p) == proc[p].cmd # None /\ NeedsSession(proc[p].cmd)
              /\ proc[p].pc \notin {"out", "locking"}

\* Two commands that write cursors and downloads never run at once, whoever is
\* killed, and a lock is only ever left behind by a process that still runs
\* (lock.Acquire, session.Close).
OneRun ==
    /\ \A p, q \in Processes : Engaged(p) /\ Engaged(q) => p = q
    /\ holder # None => Engaged(holder)

\* Every run, every page archived and every number projected belongs to an account
\* there is, although account remove counts the records and deletes the account in
\* two statements beside a pull or a probe that has resolved it (RemoveAccount,
\* StartRun, ProjectNumbers).
NoOrphans ==
    \A i \in Ids : Referenced(i) => account[i] # None

AtWork == Steps \ {"out", "locking", "opening", "migrating", "closing"}

\* A command only works on an archive that has every table its binary knows, and
\* the recorded version is that of the tables, wherever an opening was
\* interrupted and however many raced (migrate, applyMigration).
WorksOnItsSchema ==
    /\ tables = 1..version
    /\ \A p \in Processes : proc[p].pc \in AtWork => 1..proc[p].knows \subseteq tables

\* The outcome recorded for the run of p.
Outcome(p) == runs[proc[p].row].outcome

\* What the exit code of a pull or a probe says of its run: 0 that it is recorded
\* as ok, 4 that it is recorded as stopped by a budget, which no later pass hides,
\* and any code but 2 and a kill that its row was closed (exitFor, worse, Pull,
\* Probe).
ExitTells ==
    \A p \in Processes :
        At(p, "out") /\ proc[p].row # 0 =>
            /\ proc[p].code = exitOK => Outcome(p) = "ok"
            /\ proc[p].code \in {exitBudget, Killed} \/ Outcome(p) # "budget"
            /\ proc[p].code = exitBudget => Outcome(p) = "budget"
            /\ Outcome(p) = "open" => proc[p].code \in {exitConfig, Killed}

\* A probe's row reads no pages: the pulls are what counts.
LastPull(n) ==
    \A m \in DOMAIN runs :
        runs[m].account = runs[n].account /\ runs[m].mode = "pull" => m <= n

\* When a pull without --no-files that closed its run has exited, and has not
\* warned, the numbers of its account are those of the archive until the next
\* pull, also beside a probe, a removal, and a reproject that takes no lock
\* (derivedAfterPull, ProjectNumbers).
NumbersCurrent ==
    \A p \in Processes :
        /\ At(p, "out") /\ proc[p].row # 0
        /\ proc[p].cmd.verb = "pull" /\ proc[p].cmd.files
        /\ ~proc[p].warned /\ proc[p].code # Killed
        /\ Outcome(p) # "open" /\ LastPull(proc[p].row)
        => numbers[proc[p].id] = records[proc[p].id]
=============================================================================
