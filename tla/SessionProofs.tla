--------------------------- MODULE SessionProofs ---------------------------
(***************************************************************************)
(* Theorems about Session, for any number of processes, binaries, command  *)
(* lines and schema versions.                                              *)
(***************************************************************************)
EXTENDS Session, SequenceTheorems, TLAPS

----------------------------------------------------------------------------
(* Types, and where a process may be with what it has.                     *)

\* What a process has by the time it is somewhere.
Placed(p) ==
    LET q == proc[p] IN
    /\ q.pc # "out" => q.cmd # None
    /\ q.pc \in {"connecting", "starting", "probing", "reading", "downloading",
                 "projecting", "counting", "deleting"} => q.id \in Ids
    /\ q.pc \in {"locking", "connecting", "starting", "probing", "reading",
                 "downloading"} => NeedsSession(q.cmd)
    /\ q.pc \in {"starting", "probing"} \/ q.row # 0
          => q.cmd.verb \in Recorded /\ q.id \in Ids
    /\ q.pc \in {"reading", "downloading"} \/ (q.pc = "projecting" /\ q.row # 0)
          => q.cmd.verb = "pull" /\ q.row # 0
    /\ q.pc = "probing" => q.cmd.verb = "probe" /\ q.row # 0
    /\ q.pc \notin {"probing", "reading", "downloading", "projecting", "closing", "out"}
          => q.row = 0

\* The tables, but for the runs and the schema.
TablesType ==
    /\ account \in [Ids -> Slugs \cup {None}]
    /\ records \in [Ids -> Nat] /\ numbers \in [Ids -> Nat]

TypeInv == TypeOK /\ \A p \in Processes : Placed(p)

LEMMA ProcFields ==
    ASSUME TypeOK, NEW p \in Processes
    PROVE  /\ proc[p] \in Proc
           /\ proc[p].pc \in Steps
           /\ proc[p].cmd \in Commands \cup {None}
           /\ proc[p].knows \in 0..Newest /\ proc[p].seen \in 0..Newest
           /\ proc[p].id \in Ids \cup {0} /\ proc[p].row \in Nat
           /\ proc[p].code \in ExitCodes /\ proc[p].warned \in BOOLEAN
           /\ proc[p].row \in 0..Len(runs) /\ Len(runs) \in Nat
  BY DEF TypeOK, Proc

\* A process that gets somewhere, or leaves with a code.
LEMMA StepType ==
    ASSUME TypeOK, NEW p \in Processes, NEW step \in Steps
    PROVE  [proc[p] EXCEPT !.pc = step] \in Proc
  BY ProcFields DEF Proc

LEMMA EndType ==
    ASSUME TypeOK, NEW p \in Processes, NEW code \in ExitCodes
    PROVE  [proc[p] EXCEPT !.pc = IF holder = p THEN "closing" ELSE "out",
                           !.code = code] \in Proc
  BY ProcFields DEF Proc, Steps

\* One process moves.
LEMMA OneMoves ==
    ASSUME TypeInv, NEW p \in Processes, NEW v \in Proc,
           proc' = [proc EXCEPT ![p] = v],
           v.row \in 0..Len(runs'), Len(runs') \in Nat, Len(runs) <= Len(runs'),
           Placed(p)'
    PROVE  /\ proc' \in [Processes -> Proc]
           /\ \A q \in Processes : proc'[q].row \in 0..Len(runs') /\ Placed(q)'
<1>1. proc' \in [Processes -> Proc] /\ \A q \in Processes \ {p} : proc'[q] = proc[q]
  BY DEF TypeInv, TypeOK
<1>2. ASSUME NEW q \in Processes
      PROVE  proc'[q].row \in 0..Len(runs') /\ Placed(q)'
  <2>1. CASE q = p
    BY <2>1 DEF TypeInv, TypeOK
  <2>2. CASE q # p
    BY <1>1, <2>2, ProcFields DEF TypeInv, Placed
  <2> QED
    BY <2>1, <2>2
<1> QED
  BY <1>1, <1>2

\* One process moves and only the lock, or the schema, with it.
LEMMA MoveTypes ==
    ASSUME TypeInv, NEW p \in Processes, NEW v \in Proc,
           proc' = [proc EXCEPT ![p] = v],
           v.row \in 0..Len(runs),
           Placed(p)',
           TablesType', runs' = runs,
           holder' \in Processes \cup {None},
           version' \in 0..Newest, tables' \subseteq 1..Newest,
           starts' \in Nat, faults' \in Nat
    PROVE  TypeInv'
<1>1. runs' = runs /\ Len(runs') \in Nat /\ Len(runs) <= Len(runs')
      /\ v.row \in 0..Len(runs')
  BY DEF TypeInv, TypeOK
<1>2. /\ proc' \in [Processes -> Proc]
      /\ \A q \in Processes : proc'[q].row \in 0..Len(runs') /\ Placed(q)'
  BY <1>1, OneMoves
<1> QED
  BY <1>2 DEF TypeInv, TypeOK, TablesType

LEMMA StartTypes ==
    ASSUME TypeInv, NEW p \in Processes, NEW cmd \in Commands, NEW knows \in 1..Newest,
           Start(p, cmd, knows)
    PROVE  TypeInv'
<1> DEFINE v == [Outside EXCEPT !.pc = IF NeedsSession(cmd) THEN "locking" ELSE "opening",
                                !.cmd = cmd, !.knows = knows]
<1>1. v \in Proc
  <2>1. 0 \in 0..Newest /\ knows \in 0..Newest
    BY SessionAssumption DEF SessionAssumption
  <2> QED
    BY <2>1 DEF Outside, Proc, Steps, ExitCodes, exitOK
<1>2. /\ v.row = 0 /\ v.cmd = cmd
      /\ v.pc = IF NeedsSession(cmd) THEN "locking" ELSE "opening"
  BY DEF Outside
<1>3. proc' = [proc EXCEPT ![p] = v] /\ proc'[p] = v
  BY DEF Start, TypeInv, TypeOK
<1> HIDE DEF v
<1>4. Placed(p)'
  BY <1>2, <1>3, SessionAssumption DEF Placed, NeedsSession, Recorded, SessionAssumption
<1>5. v.row \in 0..Len(runs)
  BY <1>2, ProcFields DEF TypeInv
<1>6. /\ UNCHANGED <<holder, version, tables, runs, faults>>
      /\ starts' \in Nat /\ TablesType'
  BY DEF Start, schemaVars, archiveVars, TablesType, TypeInv, TypeOK
<1> QED
  BY <1>1, <1>3, <1>4, <1>5, <1>6, MoveTypes DEF TypeInv, TypeOK

\* The steps that only take a process from one place to the next.
LEMMA ReachTypes ==
    ASSUME TypeInv, NEW p \in Processes, NEW step \in Steps,
           Reach(p, step),
           ~At(p, "out"),
           step \in {"opening", "resolving", "connecting", "starting", "finding", "working",
                    "counting", "deleting", "closing", "out"},
           step \in {"connecting", "starting", "counting", "deleting"} => proc[p].id \in Ids,
           step \in {"connecting", "starting"} => NeedsSession(proc[p].cmd),
           step = "starting" => proc[p].cmd.verb \in Recorded,
           step \in {"closing", "out"} \/ proc[p].row = 0,
           TablesType', runs' = runs,
           holder' \in Processes \cup {None},
           version' \in 0..Newest, tables' \subseteq 1..Newest,
           starts' \in Nat, faults' \in Nat
    PROVE  TypeInv'
<1> DEFINE v == [proc[p] EXCEPT !.pc = step]
<1>1. v \in Proc /\ v.row = proc[p].row /\ v.row \in 0..Len(runs)
      /\ v.id = proc[p].id /\ v.cmd = proc[p].cmd /\ v.pc = step
  BY StepType, ProcFields DEF TypeInv, Proc
<1>2. proc' = [proc EXCEPT ![p] = v] /\ proc'[p] = v
  BY DEF Reach, TypeInv, TypeOK
<1> HIDE DEF v
<1>3. Placed(p)'
  BY <1>1, <1>2 DEF Placed, NeedsSession, Recorded, TypeInv, At
<1> QED
  BY <1>1, <1>2, <1>3, MoveTypes

\* The steps that end a command.
LEMMA LeaveTypes ==
    ASSUME TypeInv, NEW p \in Processes, NEW code \in ExitCodes,
           Leave(p, code),
           ~At(p, "out"),
           TablesType', runs' = runs,
           holder' \in Processes \cup {None},
           version' \in 0..Newest, tables' \subseteq 1..Newest,
           starts' \in Nat, faults' \in Nat
    PROVE  TypeInv'
<1> DEFINE v == [proc[p] EXCEPT !.pc = IF holder = p THEN "closing" ELSE "out",
                                !.code = code]
<1>1. v \in Proc
  BY EndType DEF TypeInv
<1>2. /\ v.row = proc[p].row /\ v.row \in 0..Len(runs)
      /\ v.id = proc[p].id /\ v.cmd = proc[p].cmd /\ v.pc \in {"closing", "out"}
  BY ProcFields DEF TypeInv, Proc
<1>3. proc' = [proc EXCEPT ![p] = v] /\ proc'[p] = v
  BY DEF Leave, TypeInv, TypeOK
<1> HIDE DEF v
<1>4. Placed(p)'
  BY <1>2, <1>3 DEF Placed, NeedsSession, Recorded, TypeInv, At
<1> QED
  BY <1>1, <1>2, <1>3, <1>4, MoveTypes

LEMMA OpeningTypes ==
    ASSUME TypeInv, NEW p \in Processes, Opening(p)
    PROVE  TypeInv'
<1>1. /\ TablesType' /\ runs' = runs
      /\ holder' \in Processes \cup {None} /\ starts' \in Nat /\ faults' \in Nat
  BY DEF Opening, TakeLock, LockHeld, ReadVersion, ApplyMigration, MigrationTaken, Opened,
         Resolve, ResolveFails, Connect, archiveVars, TablesType, TypeInv, TypeOK
<1>2. /\ proc[p] \in Proc /\ Placed(p) /\ proc[p].row \in 0..Len(runs)
      /\ proc[p].cmd \in Commands \cup {None}
      /\ proc[p].knows \in 0..Newest /\ proc[p].seen \in 0..Newest /\ Newest \in Nat
  BY ProcFields, SessionAssumption DEF TypeInv, SessionAssumption
<1>3. /\ version' \in 0..Newest /\ tables' \subseteq 1..Newest
  BY <1>2 DEF Opening, TakeLock, LockHeld, ReadVersion, ApplyMigration, MigrationTaken,
         Opened, Resolve, ResolveFails, Connect, Pending, schemaVars, TypeInv, TypeOK
<1>4. CASE TakeLock(p)
  BY <1>1, <1>2, <1>3, <1>4, ReachTypes DEF TakeLock, At, Placed, Steps
<1>5. CASE LockHeld(p) \/ MigrationTaken(p) \/ ResolveFails(p)
  BY <1>1, <1>3, <1>5, LeaveTypes
  DEF LockHeld, MigrationTaken, ResolveFails, At, ExitCodes, exitLockHeld, exitConfig
<1>6. CASE ReadVersion(p)
  <2>1. CASE Leave(p, exitConfig)
    BY <1>1, <1>3, <1>6, <2>1, LeaveTypes DEF ReadVersion, At, ExitCodes, exitConfig
  <2>2. CASE proc' = [proc EXCEPT ![p].pc = "migrating", ![p].seen = version]
    <3> DEFINE v == [proc[p] EXCEPT !.pc = "migrating", !.seen = version]
    <3>1. v \in Proc
      BY <1>2 DEF Proc, Steps, TypeInv, TypeOK
    <3>2. v.row = 0 /\ v.cmd = proc[p].cmd /\ v.pc = "migrating" /\ v.id = proc[p].id
      BY <1>2, <1>6 DEF Proc, ReadVersion, At, Placed
    <3>3. proc' = [proc EXCEPT ![p] = v] /\ proc'[p] = v
      BY <2>2 DEF TypeInv, TypeOK
    <3> HIDE DEF v
    <3>4. Placed(p)'
      BY <1>2, <1>6, <3>2, <3>3 DEF Placed, NeedsSession, Recorded, ReadVersion, At
    <3>5. v.row \in 0..Len(runs)
      BY <1>2, <3>2
    <3> QED
      BY <1>1, <1>3, <3>1, <3>3, <3>4, <3>5, MoveTypes
  <2> QED
    BY <1>6, <2>1, <2>2 DEF ReadVersion
<1>7. CASE ApplyMigration(p)
  <2> DEFINE v == [proc[p] EXCEPT !.seen = Pending(p)]
  <2>1. v \in Proc
    BY <1>2, <1>7 DEF Proc, ApplyMigration, Pending
  <2>2. v.row = proc[p].row /\ v.cmd = proc[p].cmd /\ v.pc = proc[p].pc /\ v.id = proc[p].id
    BY <1>2 DEF Proc
  <2>3. proc' = [proc EXCEPT ![p] = v] /\ proc'[p] = v
    BY <1>7 DEF ApplyMigration, TypeInv, TypeOK
  <2> HIDE DEF v
  <2>4. Placed(p)'
    BY <1>2, <2>2, <2>3 DEF Placed, NeedsSession, Recorded
  <2>5. v.row \in 0..Len(runs)
    BY <1>2, <2>2
  <2> QED
    BY <1>1, <1>3, <2>1, <2>3, <2>4, <2>5, MoveTypes
<1>8. CASE Opened(p)
  <2>1. /\ FirstStep(proc[p].cmd) \in {"resolving", "finding", "working"}
        /\ proc[p].row = 0 /\ Reach(p, FirstStep(proc[p].cmd)) /\ ~At(p, "out")
    BY <1>2, <1>8 DEF Opened, FirstStep, At, Placed
  <2> QED
    BY <1>1, <1>3, <2>1, ReachTypes DEF Steps
<1>9. CASE Resolve(p)
  <2>1. PICK i \in Named(proc[p].cmd.slug) :
          proc' = [proc EXCEPT ![p].id = i, ![p].pc = AfterResolve(proc[p].cmd)]
    BY <1>9 DEF Resolve
  <2> DEFINE v == [proc[p] EXCEPT !.id = i, !.pc = AfterResolve(proc[p].cmd)]
  <2>2. i \in Ids /\ AfterResolve(proc[p].cmd) \in {"connecting", "projecting"}
        /\ (AfterResolve(proc[p].cmd) = "connecting" => NeedsSession(proc[p].cmd))
        /\ proc[p].row = 0 /\ proc[p].cmd # None
    BY <1>2, <1>9 DEF Named, Stored, AfterResolve, Resolve, At, Placed
  <2>3. v \in Proc
    BY <1>2, <2>2 DEF Proc, Steps
  <2>4. v.row = 0 /\ v.cmd = proc[p].cmd /\ v.pc = AfterResolve(proc[p].cmd) /\ v.id = i
    BY <1>2, <2>2 DEF Proc
  <2>5. proc' = [proc EXCEPT ![p] = v] /\ proc'[p] = v
    BY <2>1 DEF TypeInv, TypeOK
  <2> HIDE DEF v
  <2>6. Placed(p)'
    BY <2>2, <2>4, <2>5 DEF Placed, NeedsSession, Recorded
  <2>7. v.row \in 0..Len(runs)
    BY <1>2, <2>2, <2>4
  <2> QED
    BY <1>1, <1>3, <2>3, <2>5, <2>6, <2>7, MoveTypes
<1>10. CASE Connect(p)
  <2>1. PICK step \in {"starting", "working"} :
          Reach(p, step) /\ (step = "starting" => proc[p].cmd.verb \in Recorded)
    BY <1>10 DEF Connect
  <2>2. /\ proc[p].id \in Ids /\ NeedsSession(proc[p].cmd) /\ proc[p].row = 0
        /\ ~At(p, "out")
    BY <1>2, <1>10 DEF Connect, At, Placed
  <2> QED
    BY <1>1, <1>3, <2>1, <2>2, ReachTypes DEF Steps
<1> QED
  BY <1>4, <1>5, <1>6, <1>7, <1>8, <1>9, <1>10 DEF Opening

\* The rows a run starts and ends with.
LEMMA NewRowType ==
    ASSUME TypeInv, NEW p \in Processes, At(p, "starting")
    PROVE  NewRow(p) \in RunRow /\ NewRow(p).account = proc[p].id
           /\ NewRow(p).mode = proc[p].cmd.verb /\ NewRow(p).outcome = "open"
  BY DEF NewRow, At, TypeInv, Placed, RunRow

LEMMA ClosedType ==
    ASSUME TypeInv, NEW n \in 1..Len(runs), NEW outcome \in {"ok", "partial", "budget"},
           runs' = [runs EXCEPT ![n].outcome = outcome]
    PROVE  /\ runs' \in Seq(RunRow) /\ Len(runs') = Len(runs)
           /\ DOMAIN runs' = DOMAIN runs
           /\ \A m \in DOMAIN runs : runs'[m].account = runs[m].account
                                    /\ runs'[m].mode = runs[m].mode
           /\ runs'[n].outcome = outcome
           /\ \A m \in DOMAIN runs \ {n} : runs'[m] = runs[m]
<1>1. runs \in Seq(RunRow) /\ Len(runs) \in Nat
  BY DEF TypeInv, TypeOK
<1>2. DOMAIN runs = 1..Len(runs) /\ \A m \in 1..Len(runs) : runs[m] \in RunRow
  BY <1>1, ElementOfSeq
<1> DEFINE row == [runs[n] EXCEPT !.outcome = outcome]
<1>3. /\ row \in RunRow /\ row.outcome = outcome
      /\ row.account = runs[n].account /\ row.mode = runs[n].mode
  BY <1>2 DEF RunRow
<1>4. runs' = [runs EXCEPT ![n] = row]
  OBVIOUS
<1> HIDE DEF row
<1>5. runs' \in Seq(RunRow) /\ Len(runs') = Len(runs)
  BY <1>1, <1>3, <1>4, ExceptSeq
<1> QED
  BY <1>1, <1>2, <1>3, <1>4, <1>5

LEMMA RunningTypes ==
    ASSUME TypeInv, NEW p \in Processes, Running(p)
    PROVE  TypeInv'
<1>1. /\ holder' \in Processes \cup {None} /\ starts' \in Nat /\ faults' \in Nat
      /\ version' \in 0..Newest /\ tables' \subseteq 1..Newest
  BY DEF Running, StartRun, StartRefused, ArchivePage, FinishRun, ProbeOver, Download, Project,
         ProjectNothing, ProjectFails, schemaVars, Fault, NoFault, TypeInv, TypeOK
<1>2. /\ proc[p] \in Proc /\ Placed(p) /\ proc[p].row \in 0..Len(runs) /\ Len(runs) \in Nat
      /\ proc[p].cmd \in Commands \cup {None} /\ runs \in Seq(RunRow)
      /\ proc[p].code \in ExitCodes
  BY ProcFields DEF TypeInv, TypeOK
<1>3. TablesType
  BY DEF TablesType, TypeInv, TypeOK
<1>4. CASE StartRun(p)
  <2> DEFINE step == IF proc[p].cmd.verb = "pull" THEN "reading" ELSE "probing"
             v == [proc[p] EXCEPT !.pc = step, !.row = Len(runs) + 1]
             r == NewRow(p)
  <2>1. v \in Proc
    <3>1. Len(runs) + 1 \in Nat
      BY <1>2
    <3> QED
      BY <1>2, <3>1 DEF Proc, Steps
  <2>2. v.row = Len(runs) + 1 /\ v.cmd = proc[p].cmd /\ v.pc = step /\ v.id = proc[p].id
    BY <1>2 DEF Proc
  <2>3. proc' = [proc EXCEPT ![p] = v] /\ proc'[p] = v
    BY <1>4 DEF StartRun, TypeInv, TypeOK
  <2>4. r \in RunRow
    BY <1>2, <1>4, NewRowType DEF StartRun, TypeInv
  <2>5. runs' = Append(runs, r)
    BY <1>4 DEF StartRun
  <2> HIDE DEF v, r
  <2>6. runs' \in Seq(RunRow) /\ Len(runs') = Len(runs) + 1
    BY <1>2, <2>4, <2>5
  <2>7. Placed(p)'
    BY <1>2, <1>4, <2>2, <2>3 DEF Placed, NeedsSession, Recorded, StartRun, At
  <2>8. /\ v.row \in 0..Len(runs') /\ Len(runs') \in Nat /\ Len(runs) <= Len(runs')
    BY <1>2, <2>2, <2>6
  <2>9. /\ proc' \in [Processes -> Proc]
        /\ \A q \in Processes : proc'[q].row \in 0..Len(runs') /\ Placed(q)'
    BY <2>1, <2>3, <2>7, <2>8, OneMoves
  <2> QED
    BY <1>1, <1>3, <1>4, <2>6, <2>9 DEF StartRun, TablesType, TypeInv, TypeOK
<1>5. CASE StartRefused(p) \/ ProjectNothing(p)
  <2>1. \E code \in ExitCodes : Leave(p, code)
    BY <1>2, <1>5 DEF StartRefused, ProjectNothing, ExitCodes, exitConfig
  <2>2. ~At(p, "out") /\ TablesType' /\ runs' = runs
    BY <1>3, <1>5 DEF StartRefused, ProjectNothing, At, archiveVars, TablesType
  <2> QED
    BY <1>1, <2>1, <2>2, LeaveTypes
<1>6. CASE ArchivePage(p)
  <2>1. records' \in [Ids -> Nat]
    <3>1. proc[p].id \in Ids /\ records[proc[p].id] + 1 \in Nat
      BY <1>2, <1>3, <1>6 DEF ArchivePage, At, Placed, TablesType
    <3> QED
      BY <1>3, <1>6, <3>1 DEF ArchivePage, TablesType
  <2> QED
    BY <1>1, <1>6, <2>1 DEF ArchivePage, TypeInv, TypeOK, Placed
<1>7. ASSUME NEW outcome \in {"ok", "partial", "budget"}, FinishRun(p, outcome)
      PROVE  TypeInv'
  <2> DEFINE v == [proc[p] EXCEPT !.pc = "downloading", !.code = exitFor[outcome]]
             n == proc[p].row
  <2>1. v \in Proc
    <3>1. exitFor[outcome] \in ExitCodes
      BY DEF exitFor, ExitCodes
    <3> QED
      BY <1>2, <3>1 DEF Proc, Steps
  <2>2. v.row = n /\ v.cmd = proc[p].cmd /\ v.pc = "downloading" /\ v.id = proc[p].id
    BY <1>2 DEF Proc
  <2>3. proc' = [proc EXCEPT ![p] = v] /\ proc'[p] = v
    BY <1>7 DEF FinishRun, TypeInv, TypeOK
  <2>4. n \in 1..Len(runs)
    BY <1>2, <1>7 DEF FinishRun, At, Placed
  <2> HIDE DEF v
  <2>7. runs' \in Seq(RunRow) /\ Len(runs') = Len(runs)
    BY <1>7, <2>4, ClosedType DEF FinishRun, TypeInv
  <2>8. Placed(p)'
    BY <1>2, <1>7, <2>2, <2>3 DEF Placed, NeedsSession, Recorded, FinishRun, At
  <2>9. v.row \in 0..Len(runs') /\ Len(runs') \in Nat /\ Len(runs) <= Len(runs')
    BY <1>2, <2>2, <2>7
  <2>10. /\ proc' \in [Processes -> Proc]
         /\ \A q \in Processes : proc'[q].row \in 0..Len(runs') /\ Placed(q)'
    <3> HIDE DEF n
    <3> QED
      BY <2>1, <2>3, <2>8, <2>9, OneMoves
  <2> QED
    BY <1>1, <1>3, <1>7, <2>7, <2>10 DEF FinishRun, TablesType, TypeInv, TypeOK
<1>8. ASSUME NEW code \in {exitOK, exitPartial, exitConfig}, Download(p, code)
      PROVE  TypeInv'
  <2> DEFINE step == IF proc[p].cmd.files THEN "projecting" ELSE "closing"
             v == [proc[p] EXCEPT !.pc = step, !.code = worse(@, code)]
  <2>1. v \in Proc
    <3>1. worse(proc[p].code, code) \in ExitCodes
      BY <1>2 DEF worse, ExitCodes
    <3> QED
      BY <1>2, <3>1 DEF Proc, Steps
  <2>2. v.row = proc[p].row /\ v.cmd = proc[p].cmd /\ v.pc = step /\ v.id = proc[p].id
    BY <1>2 DEF Proc
  <2>3. proc' = [proc EXCEPT ![p] = v] /\ proc'[p] = v
    BY <1>8 DEF Download, TypeInv, TypeOK
  <2> HIDE DEF v
  <2>4. Placed(p)'
    BY <1>2, <1>8, <2>2, <2>3 DEF Placed, NeedsSession, Recorded, Download, At
  <2>5. TablesType' /\ runs' = runs /\ v.row \in 0..Len(runs)
    BY <1>2, <1>3, <1>8, <2>2 DEF Download, archiveVars, TablesType
  <2> QED
    BY <1>1, <2>1, <2>3, <2>4, <2>5, MoveTypes
<1>9. CASE Project(p)
  <2>1. TablesType'
    BY <1>2, <1>3, <1>9 DEF Project, Projected, At, Placed, TablesType
  <2>2. ~At(p, "out") /\ runs' = runs /\ Leave(p, proc[p].code)
    BY <1>9 DEF Project, At
  <2> QED
    BY <1>1, <1>2, <2>1, <2>2, LeaveTypes
<1>10. CASE ProjectFails(p)
  <2>1. ~At(p, "out") /\ TablesType' /\ runs' = runs
    BY <1>3, <1>10 DEF ProjectFails, At, archiveVars, TablesType
  <2>2. CASE Leave(p, exitConfig)
    BY <1>1, <2>1, <2>2, LeaveTypes DEF ExitCodes, exitConfig
  <2>3. CASE proc' = [proc EXCEPT ![p].pc = "closing", ![p].warned = TRUE]
    <3> DEFINE v == [proc[p] EXCEPT !.pc = "closing", !.warned = TRUE]
    <3>1. v \in Proc
      BY <1>2 DEF Proc, Steps
    <3>2. v.row = proc[p].row /\ v.cmd = proc[p].cmd /\ v.pc = "closing" /\ v.id = proc[p].id
      BY <1>2 DEF Proc
    <3>3. proc' = [proc EXCEPT ![p] = v] /\ proc'[p] = v
      BY <2>3 DEF TypeInv, TypeOK
    <3> HIDE DEF v
    <3>4. Placed(p)'
      BY <1>2, <2>1, <3>2, <3>3 DEF Placed, NeedsSession, Recorded, At
    <3>5. v.row \in 0..Len(runs)
      BY <1>2, <3>2
    <3> QED
      BY <1>1, <2>1, <3>1, <3>3, <3>4, <3>5, MoveTypes
  <2> QED
    BY <1>10, <2>2, <2>3 DEF ProjectFails
<1>11. ASSUME NEW code \in {exitOK, exitPartial}, ProbeOver(p, code)
       PROVE  TypeInv'
  <2> DEFINE v == [proc[p] EXCEPT !.pc = IF holder = p THEN "closing" ELSE "out",
                                  !.code = code]
  <2>1. v \in Proc
    <3>1. code \in ExitCodes
      BY DEF ExitCodes
    <3> QED
      BY <3>1, EndType DEF TypeInv
  <2>2. /\ v.row = proc[p].row /\ v.cmd = proc[p].cmd /\ v.id = proc[p].id
        /\ v.pc \in {"closing", "out"}
    BY <1>2 DEF Proc
  <2>3. proc' = [proc EXCEPT ![p] = v] /\ proc'[p] = v
    BY <1>11 DEF ProbeOver, Leave, TypeInv, TypeOK
  <2>4. proc[p].row \in 1..Len(runs)
    BY <1>2, <1>11 DEF ProbeOver, At, Placed
  <2>5. runs' \in Seq(RunRow) /\ Len(runs') = Len(runs)
    BY <1>11, <2>4, ClosedType DEF ProbeOver, TypeInv
  <2> HIDE DEF v
  <2>6. Placed(p)'
    BY <1>2, <1>11, <2>2, <2>3 DEF Placed, NeedsSession, Recorded, ProbeOver, At
  <2>7. v.row \in 0..Len(runs') /\ Len(runs') \in Nat /\ Len(runs) <= Len(runs')
    BY <1>2, <2>2, <2>5
  <2>8. /\ proc' \in [Processes -> Proc]
        /\ \A q \in Processes : proc'[q].row \in 0..Len(runs') /\ Placed(q)'
    BY <2>1, <2>3, <2>6, <2>7, OneMoves
  <2> QED
    BY <1>1, <1>3, <1>11, <2>5, <2>8 DEF ProbeOver, TablesType, TypeInv, TypeOK
<1> QED
  BY <1>4, <1>5, <1>6, <1>7, <1>8, <1>9, <1>10, <1>11 DEF Running

\* Adding and removing accounts.
LEMMA AccountingTypes ==
    ASSUME TypeInv, NEW p \in Processes, Accounting(p)
    PROVE  TypeInv'
<1>1. /\ holder' \in Processes \cup {None} /\ starts' \in Nat /\ faults' \in Nat
      /\ version' \in 0..Newest /\ tables' \subseteq 1..Newest
      /\ runs' = runs /\ ~At(p, "out")
  BY DEF Accounting, AddAccount, FindAccount, CountRecords, DeleteAccount, schemaVars,
         archiveVars, At, TypeInv, TypeOK
<1>2. /\ proc[p] \in Proc /\ Placed(p) /\ proc[p].row \in 0..Len(runs)
      /\ proc[p].cmd \in Commands \cup {None}
  BY ProcFields DEF TypeInv
<1>3. TablesType
  BY DEF TablesType, TypeInv, TypeOK
<1>4. TablesType'
  <2>1. CASE AddAccount(p)
    <3>1. proc[p].cmd \in Commands /\ proc[p].cmd.verb = "add"
      BY <1>2, <2>1 DEF AddAccount, At, Placed
    <3>2. proc[p].cmd.slug \in Slugs
      BY <3>1, SessionAssumption DEF SessionAssumption
    <3> QED
      BY <1>3, <2>1, <3>2 DEF AddAccount, TablesType
  <2> QED
    BY <1>3, <2>1 DEF Accounting, FindAccount, CountRecords, DeleteAccount, TablesType,
                      archiveVars
<1>5. CASE \E code \in {exitOK, exitConfig} : Leave(p, code)
  BY <1>1, <1>4, <1>5, LeaveTypes DEF ExitCodes
<1>6. CASE \E i \in Ids : FindAccount(p)
              /\ proc' = [proc EXCEPT ![p].pc = "counting", ![p].id = i]
  <2>1. PICK i \in Ids : proc' = [proc EXCEPT ![p].pc = "counting", ![p].id = i]
    BY <1>6
  <2> DEFINE v == [proc[p] EXCEPT !.pc = "counting", !.id = i]
  <2>2. v \in Proc
    BY <1>2 DEF Proc, Steps
  <2>3. v.row = proc[p].row /\ v.cmd = proc[p].cmd /\ v.pc = "counting" /\ v.id = i
    BY <1>2 DEF Proc
  <2>4. proc' = [proc EXCEPT ![p] = v] /\ proc'[p] = v
    BY <2>1 DEF TypeInv, TypeOK
  <2> HIDE DEF v
  <2>5. Placed(p)'
    BY <1>2, <1>6, <2>3, <2>4 DEF Placed, NeedsSession, Recorded, FindAccount, At
  <2>6. v.row \in 0..Len(runs)
    BY <1>2, <2>3
  <2> QED
    BY <1>1, <1>4, <2>2, <2>4, <2>5, <2>6, MoveTypes
<1>7. CASE CountRecords(p) /\ Reach(p, "deleting")
  <2>1. proc[p].id \in Ids /\ proc[p].row = 0
    BY <1>2, <1>7 DEF CountRecords, At, Placed
  <2> QED
    BY <1>1, <1>4, <1>7, <2>1, ReachTypes DEF Steps
<1> QED
  BY <1>5, <1>6, <1>7 DEF Accounting, AddAccount, FindAccount, CountRecords,
                          DeleteAccount, Named, Stored

LEMMA EndTypes ==
    ASSUME TypeInv, NEW p \in Processes,
           \/ \E code \in {exitOK, exitPartial, exitConfig} : Work(p, code)
           \/ FailsOutright(p) \/ Close(p) \/ Crash(p)
    PROVE  TypeInv'
<1>1. /\ holder' \in Processes \cup {None} /\ starts' \in Nat /\ faults' \in Nat
      /\ version' \in 0..Newest /\ tables' \subseteq 1..Newest
      /\ runs' = runs /\ ~At(p, "out") /\ TablesType'
  BY DEF Work, FailsOutright, Close, Crash, Fault, schemaVars, archiveVars, At, TablesType,
         TypeInv, TypeOK
<1>2. CASE \E code \in {exitOK, exitPartial, exitConfig} : Work(p, code)
  BY <1>1, <1>2, LeaveTypes DEF Work, ExitCodes
<1>3. CASE FailsOutright(p)
  BY <1>1, <1>3, LeaveTypes DEF FailsOutright, ExitCodes
<1>4. CASE Close(p)
  BY <1>1, <1>4, ReachTypes DEF Close, Steps
<1>5. CASE Crash(p)
  <2> DEFINE v == [proc[p] EXCEPT !.pc = "out", !.code = Killed]
  <2>1. proc[p] \in Proc /\ Placed(p) /\ proc[p].row \in 0..Len(runs)
    BY ProcFields DEF TypeInv
  <2>2. v \in Proc
    BY <2>1 DEF Proc, Steps, ExitCodes
  <2>3. v.row = proc[p].row /\ v.cmd = proc[p].cmd /\ v.pc = "out" /\ v.id = proc[p].id
    BY <2>1 DEF Proc
  <2>4. proc' = [proc EXCEPT ![p] = v] /\ proc'[p] = v
    BY <1>5 DEF Crash, TypeInv, TypeOK
  <2> HIDE DEF v
  <2>5. Placed(p)'
    BY <2>1, <2>3, <2>4 DEF Placed
  <2>6. v.row \in 0..Len(runs)
    BY <2>1, <2>3
  <2> QED
    BY <1>1, <2>2, <2>4, <2>5, <2>6, MoveTypes
<1> QED
  BY <1>2, <1>3, <1>4, <1>5

LEMMA TypeStep ==
    ASSUME TypeInv, [Next]_vars
    PROVE  TypeInv'
<1>1. CASE UNCHANGED vars
  BY <1>1 DEF vars, archiveVars, schemaVars, TypeInv, TypeOK, Placed
<1> QED
  BY <1>1, StartTypes, OpeningTypes, RunningTypes, AccountingTypes, EndTypes DEF Next

LEMMA TypeInit == Init => TypeInv
  BY SessionAssumption
  DEF Init, TypeInv, TypeOK, Placed, Outside, Proc, Steps, ExitCodes, exitOK, RunRow,
      SessionAssumption

\* The data directory and the processes on it are well typed, whatever commands
\* run beside each other and wherever they are killed.
THEOREM TypeCorrect == Spec => []TypeOK
<1>1. TypeInv /\ [Next]_vars => TypeInv'
  BY TypeStep
<1>2. TypeInv => TypeOK
  BY DEF TypeInv
<1> QED
  BY TypeInit, <1>1, <1>2, PTL DEF Spec

----------------------------------------------------------------------------
(* The lock.                                                               *)

\* A step of p.
ProcStep(p) ==
    \/ \E cmd \in Commands, knows \in 1..Newest : Start(p, cmd, knows)
    \/ Opening(p) \/ Running(p) \/ Accounting(p)
    \/ \E code \in {exitOK, exitPartial, exitConfig} : Work(p, code)
    \/ FailsOutright(p) \/ Close(p) \/ Crash(p)

\* The lock is held by the process that is engaged, for as long as it is.
LockInv ==
    \A p \in Processes :
        /\ Engaged(p) <=> holder = p
        /\ At(p, "closing") => holder = p

\* Nobody moves but p, and what the others are engaged in stays.
LEMMA OthersStay ==
    ASSUME TypeInv, NEW p \in Processes, ProcStep(p), NEW q \in Processes, q # p
    PROVE  proc'[q] = proc[q]
  BY DEF ProcStep, Start, Opening, TakeLock, LockHeld, ReadVersion, ApplyMigration,
         MigrationTaken, Opened, Resolve, ResolveFails, Connect, Running, StartRun,
         StartRefused, ArchivePage, FinishRun, ProbeOver, Download, Project, ProjectNothing,
         ProjectFails, Accounting, AddAccount, FindAccount, CountRecords, DeleteAccount,
         Work, FailsOutright, Close, Crash, Reach, Leave, archiveVars, TypeInv, TypeOK

\* How a process may be engaged with the lock before and after a step of its own.
Goes(p) ==
    /\ holder' = holder
    /\ proc[p].pc \notin {"out", "locking", "closing"}
    /\ proc'[p].pc \notin {"out", "locking", "closing"}
    /\ proc'[p].cmd = proc[p].cmd

Leaves(p) ==
    /\ holder' = holder
    /\ proc[p].pc \notin {"out", "closing"}
    /\ proc'[p].pc = IF holder = p THEN "closing" ELSE "out"
    /\ proc'[p].cmd = proc[p].cmd

Starts(p) ==
    /\ holder' = holder
    /\ proc[p].pc = "out"
    /\ proc'[p].pc = IF NeedsSession(proc'[p].cmd) THEN "locking" ELSE "opening"

Takes(p) ==
    /\ holder = None /\ holder' = p
    /\ proc[p].pc = "locking" /\ proc'[p].pc = "opening"
    /\ proc'[p].cmd = proc[p].cmd

LetsGo(p) ==
    /\ \/ proc[p].pc = "closing" /\ holder' = None
       \/ holder' = IF holder = p THEN None ELSE holder
    /\ proc'[p].pc = "out"

Closes(p) ==
    /\ holder' = holder
    /\ proc[p].pc \in {"downloading", "projecting"} /\ proc[p].cmd.verb = "pull"
    /\ proc'[p].pc = "closing"
    /\ proc'[p].cmd = proc[p].cmd

LEMMA LeaveLeaves ==
    ASSUME TypeInv, NEW p \in Processes, NEW code, Leave(p, code), holder' = holder,
           proc[p].pc \notin {"out", "closing"}
    PROVE  Leaves(p)
  BY ProcFields DEF Leave, Leaves, TypeInv, TypeOK, Proc

LEMMA LockEffect ==
    ASSUME TypeInv, NEW p \in Processes, ProcStep(p)
    PROVE  Goes(p) \/ Leaves(p) \/ Starts(p) \/ Takes(p) \/ LetsGo(p) \/ Closes(p)
<1>1. proc[p] \in Proc /\ proc \in [Processes -> Proc]
  BY ProcFields DEF TypeInv, TypeOK
<1>2. CASE \E cmd \in Commands, knows \in 1..Newest : Start(p, cmd, knows)
  BY <1>1, <1>2 DEF Start, Starts, At, Outside, Proc
<1>3. CASE TakeLock(p)
  BY <1>1, <1>3 DEF TakeLock, Takes, At, Reach, Proc
<1>4. CASE LockHeld(p) \/ MigrationTaken(p) \/ ResolveFails(p) \/ FailsOutright(p)
           \/ StartRefused(p) \/ Project(p) \/ ProjectNothing(p)
           \/ (\E code \in {exitOK, exitPartial, exitConfig} : Work(p, code))
           \/ (\E code \in {exitOK, exitPartial} : ProbeOver(p, code))
           \/ AddAccount(p) \/ DeleteAccount(p)
  <2>1. holder' = holder /\ \E code \in Nat : Leave(p, code)
    BY <1>4, ProcFields DEF ProbeOver, LockHeld, MigrationTaken, ResolveFails, FailsOutright, StartRefused,
              Project, ProjectNothing, Work, AddAccount, DeleteAccount,
              exitOK, exitPartial, exitConfig, exitLockHeld, exitBudget, Killed, ExitCodes,
              TypeInv
  <2>2. proc[p].pc \notin {"out", "closing"}
    BY <1>4 DEF ProbeOver, LockHeld, MigrationTaken, ResolveFails, FailsOutright, StartRefused,
              Project, ProjectNothing, Work, AddAccount, DeleteAccount, At
  <2> QED
    BY <2>1, <2>2, LeaveLeaves
<1>5. CASE ReadVersion(p)
  <2>1. CASE Leave(p, exitConfig)
    BY <1>5, <2>1, LeaveLeaves DEF ReadVersion, At
  <2> QED
    BY <1>1, <1>5, <2>1 DEF ReadVersion, At, Goes, Proc
<1>6. CASE ApplyMigration(p) \/ ArchivePage(p)
  BY <1>1, <1>6 DEF ApplyMigration, ArchivePage, At, Goes, Proc
<1>7. CASE Opened(p) \/ Resolve(p) \/ Connect(p)
  <2>1. CASE Opened(p)
    <3>1. FirstStep(proc[p].cmd) \in {"resolving", "finding", "working"}
      BY DEF FirstStep
    <3> QED
      BY <1>1, <2>1, <3>1 DEF Opened, At, Goes, Reach, Proc
  <2>2. CASE Resolve(p)
    <3>1. AfterResolve(proc[p].cmd) \in {"connecting", "projecting"}
      BY DEF AfterResolve
    <3> QED
      BY <1>1, <2>2, <3>1 DEF Resolve, At, Goes, Proc
  <2>3. CASE Connect(p)
    BY <1>1, <2>3 DEF Connect, At, Goes, Reach, Proc
  <2> QED
    BY <1>7, <2>1, <2>2, <2>3
<1>8. CASE \/ StartRun(p)
           \/ \E outcome \in {"ok", "partial", "budget"} : FinishRun(p, outcome)
  BY <1>1, <1>8 DEF StartRun, FinishRun, At, Goes, Proc
<1>9. CASE \E code \in {exitOK, exitPartial, exitConfig} : Download(p, code)
  <2>1. Placed(p)
    BY DEF TypeInv
  <2> QED
    BY <1>1, <1>9, <2>1 DEF Download, At, Goes, Closes, Placed, Proc
<1>10. CASE ProjectFails(p)
  <2>1. CASE Leave(p, exitConfig)
    BY <1>10, <2>1, LeaveLeaves DEF ProjectFails, At
  <2> QED
    BY <1>1, <1>10, <2>1 DEF ProjectFails, At, Closes, Proc
<1>11. CASE FindAccount(p) \/ CountRecords(p)
  <2>1. CASE Leave(p, exitConfig)
    BY <1>11, <2>1, LeaveLeaves DEF FindAccount, CountRecords, At
  <2> QED
    BY <1>1, <1>11, <2>1 DEF FindAccount, CountRecords, At, Goes, Reach, Proc
<1>12. CASE Close(p) \/ Crash(p)
  BY <1>1, <1>12 DEF Close, Crash, At, LetsGo, Reach, Proc
<1> QED
  BY <1>2, <1>3, <1>4, <1>5, <1>6, <1>7, <1>8, <1>9, <1>10, <1>11, <1>12
  DEF ProcStep, Opening, Running, Accounting

LEMMA LockStep ==
    ASSUME TypeInv, TypeInv', LockInv, NEW p \in Processes, ProcStep(p)
    PROVE  LockInv'
<1>1. \A q \in Processes \ {p} : proc'[q] = proc[q]
  BY OthersStay
<1>2. Placed(p) /\ Placed(p)' /\ p # None
  BY SessionAssumption DEF TypeInv, SessionAssumption
<1>3. \A q \in Processes :
        /\ (proc[q].cmd # None /\ NeedsSession(proc[q].cmd)
            /\ proc[q].pc \notin {"out", "locking"}) <=> holder = q
        /\ proc[q].pc = "closing" => holder = q
  BY DEF LockInv, Engaged, At
<1>4. /\ holder' # holder => holder \in {p, None} /\ holder' \in {p, None}
      /\ (proc'[p].cmd # None /\ NeedsSession(proc'[p].cmd)
          /\ proc'[p].pc \notin {"out", "locking"}) <=> holder' = p
      /\ proc'[p].pc = "closing" => holder' = p
  <2>1. CASE Goes(p)
    BY <1>2, <1>3, <2>1 DEF Goes, NeedsSession
  <2>2. CASE Leaves(p)
    BY <1>2, <1>3, <2>2 DEF Leaves, NeedsSession
  <2>3. CASE Starts(p)
    BY <1>2, <1>3, <2>3 DEF Starts, NeedsSession
  <2>4. CASE Takes(p)
    BY <1>2, <1>3, <2>4 DEF Takes, NeedsSession, Placed
  <2>5. CASE LetsGo(p)
    BY <1>2, <1>3, <2>5 DEF LetsGo, NeedsSession
  <2>6. CASE Closes(p)
    BY <1>2, <1>3, <2>6 DEF Closes, NeedsSession, Recorded, Placed
  <2> QED
    BY <2>1, <2>2, <2>3, <2>4, <2>5, <2>6, LockEffect
<1>5. ASSUME NEW q \in Processes
      PROVE  /\ (proc'[q].cmd # None /\ NeedsSession(proc'[q].cmd)
                 /\ proc'[q].pc \notin {"out", "locking"}) <=> holder' = q
             /\ proc'[q].pc = "closing" => holder' = q
  <2>1. q # None
    BY SessionAssumption DEF SessionAssumption
  <2> QED
    BY <1>1, <1>3, <1>4, <2>1
<1> QED
  BY <1>5 DEF LockInv, Engaged, At, NeedsSession

LEMMA SomeoneSteps ==
    ASSUME [Next]_vars, ~UNCHANGED vars
    PROVE  \E p \in Processes : ProcStep(p)
  BY DEF Next, ProcStep

LEMMA LockAlways == Spec => []LockInv
<1>1. Init => LockInv
  BY SessionAssumption DEF Init, LockInv, Engaged, At, Outside, SessionAssumption
<1>2. TypeInv /\ TypeInv' /\ LockInv /\ [Next]_vars => LockInv'
  <2>1. ASSUME LockInv, UNCHANGED vars
        PROVE  LockInv'
    BY <2>1 DEF vars, LockInv, Engaged, At
  <2> QED
    BY <2>1, SomeoneSteps, LockStep
<1>3. TypeInv /\ [Next]_vars => TypeInv'
  BY TypeStep
<1> QED
  BY TypeInit, <1>1, <1>2, <1>3, PTL DEF Spec

\* No two commands that hold a session are engaged at once, and the lock is held
\* by one that is, whoever crashes or fails in between (lock.Acquire,
\* session.Close).
THEOREM OneRunAtATime == Spec => []OneRun
<1>1. TypeInv /\ LockInv => OneRun
  BY DEF LockInv, OneRun, TypeInv, TypeOK
<1>2. TypeInv /\ [Next]_vars => TypeInv'
  BY TypeStep
<1> QED
  BY TypeInit, LockAlways, <1>1, <1>2, PTL DEF Spec

----------------------------------------------------------------------------
(* The schema.                                                             *)

\* How far an opening has got, and that whoever works has got all the way.
SchemaInv ==
    /\ tables = 1..version
    /\ \A p \in Processes :
          /\ At(p, "migrating") => proc[p].seen <= version
          /\ proc[p].pc \in AtWork => proc[p].knows <= version

LEMMA SchemaStep ==
    ASSUME TypeInv, TypeInv', SchemaInv, NEW p \in Processes, ProcStep(p)
    PROVE  SchemaInv'
<1>1. \A q \in Processes \ {p} : proc'[q] = proc[q]
  BY OthersStay
<1>2. /\ proc[p] \in Proc /\ proc \in [Processes -> Proc]
      /\ version \in Nat /\ version' \in Nat /\ Newest \in Nat
      /\ proc[p].knows \in 0..Newest /\ proc[p].seen \in 0..Newest
      /\ \A q \in Processes : proc[q].knows \in Nat /\ proc[q].seen \in Nat
  BY ProcFields, SessionAssumption DEF TypeInv, TypeOK, SessionAssumption
<1>3. CASE ApplyMigration(p)
  <2>1. /\ version' = version + 1 /\ tables' = 1..version'
        /\ proc'[p].seen = version' /\ proc'[p].pc = "migrating"
    BY <1>2, <1>3 DEF ApplyMigration, Pending, SchemaInv, At, Proc
  <2> QED
    BY <1>1, <1>2, <2>1 DEF SchemaInv, At, AtWork
<1>4. CASE ~ApplyMigration(p)
  <2>1. UNCHANGED schemaVars
    BY <1>4 DEF ProcStep, Start, Opening, TakeLock, LockHeld, ReadVersion, MigrationTaken,
         Opened, Resolve, ResolveFails, Connect, Running, StartRun,
         StartRefused, ArchivePage, FinishRun, ProbeOver, Download, Project, ProjectNothing,
         ProjectFails, Accounting, AddAccount, FindAccount, CountRecords, DeleteAccount,
         Work, FailsOutright, Close, Crash
  <2>2. /\ proc'[p].pc = "migrating" => proc'[p].seen <= version
        /\ proc'[p].pc \in AtWork => proc'[p].knows <= version
    <3>1. CASE ReadVersion(p)
      BY <1>2, <3>1 DEF ReadVersion, Leave, At, AtWork, Proc
    <3>2. CASE Opened(p)
      <4>1. FirstStep(proc[p].cmd) # "migrating"
        BY DEF FirstStep
      <4>2. /\ proc'[p].pc = FirstStep(proc[p].cmd)
            /\ proc'[p].knows = proc[p].knows /\ proc[p].knows <= version
        BY <1>2, <3>2 DEF Opened, Reach, SchemaInv, At, Proc
      <4> QED
        BY <4>1, <4>2
    <3>3. CASE TakeLock(p) \/ LockHeld(p) \/ MigrationTaken(p) \/ ResolveFails(p)
               \/ FailsOutright(p) \/ StartRefused(p) \/ Project(p) \/ ProjectNothing(p)
               \/ (\E code \in {exitOK, exitPartial, exitConfig} : Work(p, code))
               \/ (\E code \in {exitOK, exitPartial} : ProbeOver(p, code))
               \/ AddAccount(p) \/ DeleteAccount(p) \/ Close(p) \/ Crash(p)
      BY <1>2, <3>3 DEF ProbeOver, TakeLock, LockHeld, MigrationTaken, ResolveFails, FailsOutright,
           StartRefused, Project, ProjectNothing, Work, AddAccount, DeleteAccount, Close,
           Crash, Leave, Reach, AtWork, Proc
    <3>4. CASE Resolve(p) \/ Connect(p) \/ StartRun(p) \/ ArchivePage(p)
               \/ (\E outcome \in {"ok", "partial", "budget"} : FinishRun(p, outcome))
               \/ (\E code \in {exitOK, exitPartial, exitConfig} : Download(p, code))
               \/ ProjectFails(p) \/ FindAccount(p) \/ CountRecords(p)
      <4>1. /\ proc[p].pc \in AtWork
            /\ proc'[p].knows = proc[p].knows
            /\ proc'[p].pc # "migrating"
        <5>1. CASE Resolve(p)
          <6>1. AfterResolve(proc[p].cmd) # "migrating"
            BY DEF AfterResolve
          <6> QED
            BY <1>2, <5>1, <6>1 DEF Resolve, At, AtWork, Steps, Proc
        <5>2. CASE Connect(p) \/ StartRun(p) \/ ArchivePage(p)
          BY <1>2, <5>2 DEF Connect, StartRun, ArchivePage, Reach, At, AtWork, Steps, Proc
        <5>3. CASE \/ \E outcome \in {"ok", "partial", "budget"} : FinishRun(p, outcome)
                   \/ \E code \in {exitOK, exitPartial, exitConfig} : Download(p, code)
          BY <1>2, <5>3 DEF FinishRun, Download, At, AtWork, Steps, Proc
        <5>4. CASE ProjectFails(p) \/ FindAccount(p) \/ CountRecords(p)
          BY <1>2, <5>4 DEF ProjectFails, FindAccount, CountRecords, Leave, Reach, At, AtWork,
                            Steps, Proc
        <5> QED
          BY <3>4, <5>1, <5>2, <5>3, <5>4
      <4> QED
        BY <4>1 DEF SchemaInv
    <3>5. ASSUME NEW cmd \in Commands, NEW knows \in 1..Newest, Start(p, cmd, knows)
          PROVE  proc'[p].pc # "migrating" /\ proc'[p].pc \notin AtWork
      BY <1>2, <3>5 DEF Start, Outside, AtWork
    <3> QED
      BY <1>4, <3>1, <3>2, <3>3, <3>4, <3>5 DEF ProcStep, Opening, Running, Accounting
  <2> QED
    BY <1>1, <2>1, <2>2 DEF SchemaInv, At, schemaVars
<1> QED
  BY <1>3, <1>4

\* Every command works on an archive with all the tables its binary knows, also
\* when openings race or are cut short (migrate, applyMigration).
THEOREM SchemaComplete == Spec => []WorksOnItsSchema
<1>1. Init => SchemaInv
  BY DEF Init, SchemaInv, At, AtWork, Outside
<1>2. TypeInv /\ TypeInv' /\ SchemaInv /\ [Next]_vars => SchemaInv'
  <2>1. ASSUME SchemaInv, UNCHANGED vars
        PROVE  SchemaInv'
    BY <2>1 DEF vars, schemaVars, SchemaInv, At
  <2> QED
    BY <2>1, SomeoneSteps, SchemaStep
<1>3. TypeInv /\ SchemaInv => WorksOnItsSchema
  <2>1. ASSUME TypeInv, NEW p \in Processes
        PROVE  proc[p].knows \in Nat /\ version \in Nat
    BY <2>1, ProcFields, SessionAssumption DEF TypeInv, TypeOK, SessionAssumption
  <2> QED
    BY <2>1 DEF SchemaInv, WorksOnItsSchema
<1>4. TypeInv /\ [Next]_vars => TypeInv'
  BY TypeStep
<1> QED
  BY TypeInit, <1>1, <1>2, <1>3, <1>4, PTL DEF Spec

----------------------------------------------------------------------------
(* The accounts.                                                           *)

\* The steps that close a row of sync_runs.
EndsRun(p) ==
    \/ \E outcome \in {"ok", "partial", "budget"} : FinishRun(p, outcome)
    \/ \E code \in {exitOK, exitPartial} : ProbeOver(p, code)

LEMMA RunEnds ==
    ASSUME TypeInv, NEW p \in Processes, EndsRun(p)
    PROVE  /\ UNCHANGED <<account, records, numbers>>
           /\ proc[p].row \in 1..Len(runs)
           /\ Len(runs') = Len(runs) /\ DOMAIN runs' = DOMAIN runs
           /\ \A n \in DOMAIN runs : runs'[n].account = runs[n].account
                                    /\ runs'[n].mode = runs[n].mode
           /\ \A n \in DOMAIN runs \ {proc[p].row} : runs'[n] = runs[n]
<1>1. PICK outcome \in {"ok", "partial", "budget"} :
        /\ UNCHANGED <<account, records, numbers>>
        /\ runs' = [runs EXCEPT ![proc[p].row].outcome = outcome]
  BY DEF EndsRun, FinishRun, ProbeOver
<1>2. proc[p].row \in 1..Len(runs)
  BY ProcFields DEF EndsRun, FinishRun, ProbeOver, At, TypeInv, Placed
<1> QED
  BY <1>1, <1>2, ClosedType

LEMMA OrphanStep ==
    ASSUME TypeInv, TypeInv', NoOrphans, NEW p \in Processes, ProcStep(p)
    PROVE  NoOrphans'
<1>1. /\ proc[p] \in Proc /\ Placed(p) /\ runs \in Seq(RunRow) /\ Len(runs) \in Nat
      /\ proc[p].row \in 0..Len(runs) /\ proc[p].cmd \in Commands \cup {None}
      /\ account \in [Ids -> Slugs \cup {None}] /\ records \in [Ids -> Nat]
      /\ numbers \in [Ids -> Nat]
  BY ProcFields DEF TypeInv, TypeOK
<1>2. CASE StartRun(p)
  <2>1. /\ UNCHANGED <<account, records, numbers>> /\ account[proc[p].id] # None
        /\ runs' = Append(runs, NewRow(p))
    BY <1>2 DEF StartRun, KeyHolds
  <2>2. ASSUME NEW n \in DOMAIN runs'
        PROVE  \/ n \in DOMAIN runs /\ runs'[n] = runs[n]
               \/ runs'[n].account = proc[p].id
    <3>1. NewRow(p) \in RunRow /\ NewRow(p).account = proc[p].id
      BY <1>2, NewRowType DEF StartRun
    <3> QED
      BY <1>1, <2>1, <2>2, <3>1
  <2> QED
    BY <2>1, <2>2 DEF NoOrphans, Referenced
<1>3. CASE EndsRun(p)
  <2>1. /\ UNCHANGED <<account, records, numbers>>
        /\ DOMAIN runs' = DOMAIN runs
        /\ \A n \in DOMAIN runs : runs'[n].account = runs[n].account
    BY <1>3, RunEnds
  <2> QED
    BY <2>1 DEF NoOrphans, Referenced
<1>4. CASE ArchivePage(p)
  <2>1. /\ UNCHANGED <<account, numbers, runs>> /\ account[proc[p].id] # None
        /\ \A i \in Ids : records'[i] = records[i] \/ i = proc[p].id
    BY <1>1, <1>4 DEF ArchivePage, KeyHolds
  <2> QED
    BY <2>1 DEF NoOrphans, Referenced
<1>5. CASE AddAccount(p)
  <2>1. proc[p].cmd.slug # None
    <3>1. proc[p].cmd \in Commands /\ proc[p].cmd.verb = "add"
      BY <1>1, <1>5 DEF AddAccount, At, Placed
    <3> QED
      BY <3>1, SessionAssumption DEF SessionAssumption
  <2>2. UNCHANGED <<records, numbers, runs>> /\ \A i \in Ids : account'[i] \in {account[i], proc[p].cmd.slug}
    BY <1>1, <1>5 DEF AddAccount
  <2> QED
    BY <2>1, <2>2 DEF NoOrphans, Referenced
<1>6. CASE DeleteAccount(p)
  <2>1. /\ UNCHANGED <<records, numbers, runs>>
        /\ \A i \in Ids : account'[i] = account[i] \/ ~Referenced(i)
    BY <1>1, <1>6 DEF DeleteAccount, Deletable
  <2> QED
    BY <2>1 DEF NoOrphans, Referenced
<1>7. CASE Project(p)
  <2>1. /\ UNCHANGED <<account, records, runs>> /\ account[proc[p].id] # None
        /\ \A i \in Ids : numbers'[i] = numbers[i] \/ i = proc[p].id
    BY <1>1, <1>7 DEF Project, KeyHolds
  <2> QED
    BY <2>1 DEF NoOrphans, Referenced
<1>8. CASE ~StartRun(p) /\ ~EndsRun(p) /\ ~ArchivePage(p) /\ ~Project(p)
           /\ ~AddAccount(p) /\ ~DeleteAccount(p)
  <2>1. UNCHANGED <<account, records, numbers, runs>>
    BY <1>8 DEF EndsRun, ProcStep, Start, Opening, TakeLock, LockHeld, ReadVersion,
         ApplyMigration,
         MigrationTaken, Opened, Resolve, ResolveFails, Connect, Running, StartRefused,
         Download, ProjectNothing, ProjectFails, Accounting, FindAccount,
         CountRecords, Work, FailsOutright, Close, Crash, archiveVars
  <2> QED
    BY <2>1 DEF NoOrphans, Referenced
<1> QED
  BY <1>2, <1>3, <1>4, <1>5, <1>6, <1>7, <1>8

\* No page, no number and no run is left without its account, although account
\* remove takes no lock and looks before it deletes (RemoveAccount, StartRun,
\* ProjectNumbers, the foreign keys).
THEOREM NoOrphanRows == Spec => []NoOrphans
<1>1. Init => NoOrphans
  BY DEF Init, NoOrphans, Referenced
<1>2. TypeInv /\ TypeInv' /\ NoOrphans /\ [Next]_vars => NoOrphans'
  <2>1. ASSUME NoOrphans, UNCHANGED vars
        PROVE  NoOrphans'
    BY <2>1 DEF vars, archiveVars, NoOrphans, Referenced
  <2> QED
    BY <2>1, SomeoneSteps, OrphanStep
<1>3. TypeInv /\ [Next]_vars => TypeInv'
  BY TypeStep
<1> QED
  BY TypeInit, <1>1, <1>2, <1>3, PTL DEF Spec

----------------------------------------------------------------------------
(* The exit codes.                                                         *)

\* The exit code q is to leave with, against the outcome of its run.
Tells(q, outcome) ==
    /\ q.code = exitOK => outcome = "ok"
    /\ q.code \in {exitBudget, Killed} \/ outcome # "budget"
    /\ q.code = exitBudget => outcome = "budget"
    /\ outcome = "open" => q.code \in {exitConfig, Killed}

\* A run that reads, or probes, and has not closed its row.
Underway(p) == proc[p].pc \in {"probing", "reading"}

\* A run's row is written by one process, whose code tells of it once it is closed.
ExitInv ==
    \A p \in Processes :
        /\ ~At(p, "out") => proc[p].code # Killed
        /\ proc[p].row # 0 =>
              /\ \A q \in Processes \ {p} : proc[q].row # proc[p].row
              /\ IF Underway(p) THEN Outcome(p) = "open" ELSE Tells(proc[p], Outcome(p))

\* A row that is there before a step is there after it, as it was, unless it is
\* that of the process that closes its run.
LEMMA RowsStay ==
    ASSUME TypeInv, NEW p \in Processes, ProcStep(p), NEW n \in 1..Len(runs)
    PROVE  /\ runs'[n].account = runs[n].account /\ runs'[n].mode = runs[n].mode
           /\ runs'[n].outcome # runs[n].outcome => n = proc[p].row /\ EndsRun(p)
<1>1. /\ proc[p] \in Proc /\ Placed(p) /\ runs \in Seq(RunRow) /\ Len(runs) \in Nat
      /\ runs[n] \in RunRow
  BY ProcFields, ElementOfSeq DEF TypeInv, TypeOK
<1>2. CASE StartRun(p)
  <2>1. NewRow(p) \in RunRow
    BY <1>2, NewRowType DEF StartRun
  <2>2. runs' = Append(runs, NewRow(p))
    BY <1>2 DEF StartRun
  <2>3. runs'[n] = runs[n]
    BY <1>1, <2>1, <2>2
  <2> QED
    BY <2>3
<1>3. CASE EndsRun(p)
  <2>1. n \in DOMAIN runs
    BY <1>1
  <2> QED
    BY <1>3, <2>1, RunEnds
<1>4. CASE ~StartRun(p) /\ ~EndsRun(p)
  <2>1. runs' = runs
    BY <1>4 DEF EndsRun, ProcStep, Start, Opening, TakeLock, LockHeld, ReadVersion, ApplyMigration,
         MigrationTaken, Opened, Resolve, ResolveFails, Connect, Running, StartRefused,
         ArchivePage, Download, Project, ProjectNothing, ProjectFails, Accounting, AddAccount,
         FindAccount, CountRecords, DeleteAccount, Work, FailsOutright, Close, Crash, archiveVars
  <2> QED
    BY <2>1
<1> QED
  BY <1>2, <1>3, <1>4

LEMMA ExitCodesApart ==
    /\ exitOK = 0 /\ exitPartial = 1 /\ exitConfig = 2 /\ exitLockHeld = 3
    /\ exitBudget = 4 /\ Killed = 9
  BY DEF exitOK, exitPartial, exitConfig, exitLockHeld, exitBudget, Killed

\* The later passes of a pull only make its code worse, and never hide a budget.
LEMMA WorseTells ==
    ASSUME TypeInv, NEW p \in Processes, NEW outcome, Tells(proc[p], outcome),
           NEW code \in {exitOK, exitPartial, exitConfig}, Download(p, code),
           proc[p].code # Killed
    PROVE  Tells(proc'[p], outcome)
<1>1. /\ proc[p] \in Proc /\ proc \in [Processes -> Proc] /\ proc[p].code \in ExitCodes
  BY ProcFields DEF TypeInv, TypeOK
<1>2. proc'[p].code = worse(proc[p].code, code)
  BY <1>1 DEF Download, Proc
<1> QED
  BY <1>1, <1>2, ExitCodesApart DEF Tells, worse, ExitCodes

\* What the step of p makes of its own row, when it is not the one it gets.
LEMMA OwnRow ==
    ASSUME TypeInv, TypeInv', ExitInv, NEW p \in Processes, ProcStep(p), ~StartRun(p),
           proc'[p].row # 0
    PROVE  /\ proc'[p].row = proc[p].row
           /\ IF Underway(p)' THEN Outcome(p)' = "open" ELSE Tells(proc'[p], Outcome(p)')
<1>1. /\ proc[p] \in Proc /\ proc \in [Processes -> Proc] /\ Placed(p) /\ Placed(p)'
      /\ proc[p].row \in 0..Len(runs) /\ Len(runs) \in Nat /\ runs \in Seq(RunRow)
  BY ProcFields DEF TypeInv, TypeOK
<1>2. proc'[p].row = proc[p].row
  <2>1. ASSUME NEW cmd \in Commands, NEW knows \in 1..Newest, Start(p, cmd, knows)
        PROVE  FALSE
    BY <1>1, <2>1 DEF Start, Outside
  <2>2. CASE Opening(p)
    BY <1>1, <2>2 DEF Opening, TakeLock, LockHeld, ReadVersion, ApplyMigration, MigrationTaken,
                      Opened, Resolve, ResolveFails, Connect, Reach, Leave, Proc
  <2>3. CASE Running(p)
    BY <1>1, <2>3 DEF Running, StartRefused, ArchivePage, FinishRun, ProbeOver, Download, Project,
                      ProjectNothing, ProjectFails, Leave, Proc
  <2>4. CASE Accounting(p)
    BY <1>1, <2>4 DEF Accounting, AddAccount, FindAccount, CountRecords, DeleteAccount,
                      Reach, Leave, Proc
  <2>5. CASE \/ \E code \in {exitOK, exitPartial, exitConfig} : Work(p, code)
             \/ FailsOutright(p) \/ Close(p) \/ Crash(p)
    BY <1>1, <2>5 DEF Work, FailsOutright, Close, Crash, Reach, Leave, Proc
  <2> QED
    BY <2>1, <2>2, <2>3, <2>4, <2>5 DEF ProcStep
<1>3. /\ proc[p].pc \in {"probing", "reading", "downloading", "projecting", "closing", "out"}
      /\ proc[p].row \in 1..Len(runs) /\ proc[p].cmd.verb \in Recorded
      /\ proc[p].pc = "projecting" => proc[p].cmd.verb = "pull"
  BY <1>1, <1>2 DEF Placed
<1>4. IF Underway(p) THEN Outcome(p) = "open" ELSE Tells(proc[p], Outcome(p))
  BY <1>2 DEF ExitInv
<1>5. CASE \E outcome \in {"ok", "partial", "budget"} : FinishRun(p, outcome)
  <2>1. PICK outcome \in {"ok", "partial", "budget"} : FinishRun(p, outcome)
    BY <1>5
  <2>2. /\ proc'[p].code = exitFor[outcome] /\ proc'[p].pc = "downloading"
    BY <1>1, <2>1 DEF FinishRun, Proc
  <2>4. runs'[proc[p].row].outcome = outcome
    BY <1>3, <2>1, ClosedType DEF FinishRun
  <2>5. exitFor.ok = exitOK /\ exitFor.partial = exitPartial /\ exitFor.budget = exitBudget
    BY DEF exitFor
  <2>6. Outcome(p)' = outcome
    BY <1>2, <2>4 DEF Outcome
  <2>7. Tells(proc'[p], outcome)
    BY <2>2, <2>5, ExitCodesApart DEF Tells
  <2> QED
    BY <1>2, <2>2, <2>6, <2>7 DEF Underway
<1>6. CASE \E code \in {exitOK, exitPartial} : ProbeOver(p, code)
  <2>1. PICK code \in {exitOK, exitPartial} : ProbeOver(p, code)
    BY <1>6
  <2>2. proc'[p].code = code /\ proc'[p].pc \in {"closing", "out"}
    BY <1>1, <2>1 DEF ProbeOver, Leave, Proc
  <2>3. runs'[proc[p].row].outcome = "ok"
    BY <1>3, <2>1, ClosedType DEF ProbeOver
  <2>4. Tells(proc'[p], "ok")
    BY <2>2, ExitCodesApart DEF Tells
  <2> QED
    BY <1>2, <2>2, <2>3, <2>4 DEF Underway, Outcome
<1>7. CASE ~EndsRun(p)
  <2>1. Outcome(p)' = Outcome(p)
    BY <1>2, <1>3, <1>7, RowsStay DEF Outcome
  <2>2. CASE ArchivePage(p)
    BY <1>2, <1>4, <2>1, <2>2 DEF ArchivePage, Underway
  <2>3. ASSUME NEW code \in {exitOK, exitPartial, exitConfig}, Download(p, code)
        PROVE  IF Underway(p)' THEN Outcome(p)' = "open" ELSE Tells(proc'[p], Outcome(p)')
    <3>1. proc[p].pc = "downloading" /\ proc'[p].pc \in {"projecting", "closing"}
      BY <1>1, <2>3 DEF Download, At, Proc
    <3>2. Tells(proc'[p], Outcome(p))
      BY <1>4, <2>3, <3>1, WorseTells DEF ExitInv, At, Underway
    <3> QED
      BY <2>1, <3>1, <3>2 DEF Underway
  <2>4. CASE Project(p) \/ ProjectNothing(p) \/ ProjectFails(p) \/ Close(p)
    <3>1. /\ proc'[p].code = proc[p].code
          /\ ~Underway(p) /\ ~Underway(p)'
      BY <1>1, <1>3, <2>4 DEF Underway, Project, ProjectNothing, ProjectFails, Close, Leave, Reach, At, Proc
    <3> QED
      BY <1>2, <1>4, <2>1, <3>1 DEF Tells
  <2>5. CASE FailsOutright(p)
    <3>1. /\ proc'[p].code = exitConfig
          /\ Underway(p) /\ ~Underway(p)'
      BY <1>1, <1>3, <2>5 DEF Underway, FailsOutright, Leave, Proc
    <3> QED
      BY <1>2, <1>4, <2>1, <3>1, ExitCodesApart DEF Tells
  <2>6. CASE Crash(p)
    <3>1. proc'[p].code = Killed /\ proc'[p].pc = "out"
      BY <1>1, <2>6 DEF Crash, Proc
    <3> QED
      BY <1>2, <3>1, ExitCodesApart DEF Tells, Underway
  <2>7. \/ ArchivePage(p)
        \/ \E code \in {exitOK, exitPartial, exitConfig} : Download(p, code)
        \/ Project(p) \/ ProjectNothing(p) \/ ProjectFails(p) \/ Close(p)
        \/ FailsOutright(p) \/ Crash(p)
    <3>1. ASSUME NEW cmd \in Commands, NEW knows \in 1..Newest, Start(p, cmd, knows)
          PROVE  FALSE
      BY <1>1, <3>1 DEF Start, Outside
    <3>2. ~Opening(p) /\ ~Accounting(p) /\ ~StartRefused(p)
          /\ ~\E code \in {exitOK, exitPartial, exitConfig} : Work(p, code)
      BY <1>3 DEF Opening, TakeLock, LockHeld, ReadVersion, ApplyMigration, MigrationTaken,
                  Opened, Resolve, ResolveFails, Connect, Accounting, AddAccount, FindAccount,
                  CountRecords, DeleteAccount, StartRefused, Work, At
    <3> QED
      BY <1>7, <3>1, <3>2 DEF EndsRun, ProcStep, Running
  <2> QED
    BY <1>2, <2>2, <2>3, <2>4, <2>5, <2>6, <2>7
<1> QED
  BY <1>5, <1>6, <1>7 DEF EndsRun

LEMMA NotKilled ==
    ASSUME TypeInv, ExitInv, NEW p \in Processes, ProcStep(p), ~At(p, "out")'
    PROVE  proc'[p].code # Killed
<1>1. /\ proc[p] \in Proc /\ proc \in [Processes -> Proc] /\ proc[p].code \in ExitCodes
      /\ ~At(p, "out") => proc[p].code # Killed
  BY ProcFields DEF TypeInv, TypeOK, ExitInv
<1>2. ASSUME NEW cmd \in Commands, NEW knows \in 1..Newest, Start(p, cmd, knows)
      PROVE  proc'[p].code # Killed
  BY <1>1, <1>2, ExitCodesApart DEF Start, Outside
<1>3. CASE Opening(p)
  <2>1. CASE TakeLock(p) \/ Opened(p) \/ Connect(p) \/ ApplyMigration(p)
    BY <1>1, <2>1 DEF TakeLock, Opened, Connect, ApplyMigration, Reach, At, Proc
  <2>2. CASE LockHeld(p) \/ MigrationTaken(p) \/ ResolveFails(p)
    BY <1>1, <2>2, ExitCodesApart DEF LockHeld, MigrationTaken, ResolveFails, Leave, Proc
  <2>3. CASE ReadVersion(p)
    BY <1>1, <2>3, ExitCodesApart DEF ReadVersion, Leave, At, Proc
  <2>4. CASE Resolve(p)
    BY <1>1, <2>4 DEF Resolve, At, Proc
  <2> QED
    BY <1>3, <2>1, <2>2, <2>3, <2>4 DEF Opening
<1>4. ASSUME NEW code \in {exitOK, exitPartial, exitConfig}, Download(p, code)
      PROVE  proc'[p].code # Killed
  BY <1>1, <1>4, ExitCodesApart DEF Download, worse, At, Proc
<1>5. CASE StartRun(p) \/ StartRefused(p) \/ ArchivePage(p) \/ Project(p)
           \/ ProjectNothing(p) \/ ProjectFails(p)
  BY <1>1, <1>5, ExitCodesApart
  DEF StartRun, StartRefused, ArchivePage, Project, ProjectNothing, ProjectFails, Leave, At, Proc
<1>6. ASSUME NEW outcome \in {"ok", "partial", "budget"}, FinishRun(p, outcome)
      PROVE  proc'[p].code # Killed
  <2>1. proc'[p].code = exitFor[outcome]
    BY <1>1, <1>6 DEF FinishRun, Proc
  <2>2. exitFor.ok = exitOK /\ exitFor.partial = exitPartial /\ exitFor.budget = exitBudget
    BY DEF exitFor
  <2> QED
    BY <2>1, <2>2, ExitCodesApart
<1>7. CASE Accounting(p)
  BY <1>1, <1>7, ExitCodesApart
  DEF Accounting, AddAccount, FindAccount, CountRecords, DeleteAccount, Reach, Leave, At, Proc
<1>8. CASE (\E code \in {exitOK, exitPartial, exitConfig} : Work(p, code))
           \/ FailsOutright(p) \/ Close(p)
  BY <1>1, <1>8, ExitCodesApart DEF Work, FailsOutright, Close, Reach, Leave, At, Proc
<1>9. ASSUME NEW code \in {exitOK, exitPartial}, ProbeOver(p, code)
       PROVE  proc'[p].code # Killed
  BY <1>1, <1>9, ExitCodesApart DEF ProbeOver, Leave, Proc
<1>10. ~Crash(p)
  BY <1>1 DEF Crash, At, Proc
<1> QED
  BY <1>2, <1>3, <1>4, <1>5, <1>6, <1>7, <1>8, <1>9, <1>10 DEF ProcStep, Running

LEMMA ExitStep ==
    ASSUME TypeInv, TypeInv', ExitInv, NEW p \in Processes, ProcStep(p)
    PROVE  ExitInv'
<1>1. \A q \in Processes \ {p} : proc'[q] = proc[q]
  BY OthersStay
<1>2. /\ proc[p] \in Proc /\ proc \in [Processes -> Proc] /\ Placed(p)
      /\ runs \in Seq(RunRow) /\ Len(runs) \in Nat
      /\ \A q \in Processes : proc[q].row \in 0..Len(runs)
  BY ProcFields DEF TypeInv, TypeOK
<1>3. ASSUME NEW q \in Processes \ {p}, proc[q].row # 0
      PROVE  Outcome(q)' = Outcome(q)
  <2>1. proc[q].row \in 1..Len(runs) /\ proc[q].row # proc[p].row
    BY <1>2, <1>3 DEF ExitInv
  <2> QED
    BY <1>1, <1>3, <2>1, RowsStay DEF Outcome
<1>4. CASE StartRun(p)
  <2>1. NewRow(p) \in RunRow /\ NewRow(p).outcome = "open"
    BY <1>4, NewRowType DEF StartRun
  <2>2. runs' = Append(runs, NewRow(p))
    BY <1>4 DEF StartRun
  <2>3. proc'[p].row = Len(runs) + 1 /\ Underway(p)'
    BY <1>2, <1>4 DEF StartRun, Underway, Proc
  <2>4. runs'[Len(runs) + 1] = NewRow(p)
    BY <1>2, <2>1, <2>2
  <2>5. Outcome(p)' = "open"
    BY <2>1, <2>3, <2>4 DEF Outcome
  <2>6. \A q \in Processes \ {p} : proc'[q].row # proc'[p].row /\ proc'[p].row # proc'[q].row
    BY <1>1, <1>2, <2>3
  <2> QED
    BY <1>1, <1>3, <2>3, <2>5, <2>6, NotKilled DEF ExitInv, At, Underway
<1>5. CASE ~StartRun(p)
  <2>1. proc'[p].row # 0 =>
          /\ proc'[p].row = proc[p].row
          /\ IF Underway(p)' THEN Outcome(p)' = "open" ELSE Tells(proc'[p], Outcome(p)')
    BY <1>5, OwnRow
  <2>2. ASSUME NEW q \in Processes
        PROVE  /\ ~At(q, "out")' => proc'[q].code # Killed
               /\ proc'[q].row # 0 =>
                     \A s \in Processes \ {q} : proc'[s].row # proc'[q].row
    BY <1>1, <2>1, NotKilled DEF ExitInv, At, Underway
  <2>3. ASSUME NEW q \in Processes, proc'[q].row # 0
        PROVE  IF Underway(q)' THEN Outcome(q)' = "open" ELSE Tells(proc'[q], Outcome(q)')
    BY <1>1, <1>3, <2>1, <2>3 DEF ExitInv, Underway
  <2> QED
    BY <2>2, <2>3 DEF ExitInv
<1> QED
  BY <1>4, <1>5

\* What the exit code of a pull or a probe says of its run is true, whichever of
\* its passes failed and whatever ran beside it (exitFor, worse, Pull, Probe).
THEOREM ExitCodeTells == Spec => []ExitTells
<1>1. Init => ExitInv
  BY DEF Init, ExitInv, At, Outside
<1>2. TypeInv /\ TypeInv' /\ ExitInv /\ [Next]_vars => ExitInv'
  <2>1. ASSUME ExitInv, UNCHANGED vars
        PROVE  ExitInv'
    BY <2>1 DEF vars, archiveVars, ExitInv, At, Underway, Outcome
  <2> QED
    BY <2>1, SomeoneSteps, ExitStep
<1>3. ExitInv => ExitTells
  BY DEF ExitInv, ExitTells, Tells, At, Underway
<1>4. TypeInv /\ [Next]_vars => TypeInv'
  BY TypeStep
<1> QED
  BY TypeInit, <1>1, <1>2, <1>3, <1>4, PTL DEF Spec

----------------------------------------------------------------------------
(* The numbers of a pull that has closed its run.                          *)

\* p has exited, or is about to, with a projection behind it and no newer pull.
Settled(p) ==
    /\ proc[p].pc \in {"closing", "out"}
    /\ proc[p].cmd.verb = "pull" /\ proc[p].cmd.files
    /\ ~proc[p].warned /\ proc[p].code # Killed
    /\ Outcome(p) # "open" /\ LastPull(proc[p].row)

\* The row of p says which account it is of, and what command wrote it.
RowOf(p) ==
    /\ runs[proc[p].row].account = proc[p].id
    /\ runs[proc[p].row].mode = proc[p].cmd.verb

\* What holds of a process that has a run: the row is its own, the newest
\* there is while it reads, and what it projected still is what is archived.
NumbersInv ==
    \A p \in Processes : proc[p].row # 0 =>
        /\ RowOf(p)
        /\ At(p, "reading") => proc[p].row = Len(runs)
        /\ Settled(p) => numbers[proc[p].id] = records[proc[p].id]

\* Only the process that has the lock starts a run or reads.
LEMMA OneReads ==
    ASSUME TypeInv, LockInv, NEW p \in Processes, NEW q \in Processes,
           proc[p].pc \in {"starting", "reading"}, proc[q].pc \in {"starting", "reading"}
    PROVE  p = q
  BY DEF LockInv, Engaged, TypeInv, Placed

\* Only StartRun makes the runs more.
LEMMA RunsGrow ==
    ASSUME TypeInv, NEW p \in Processes, ProcStep(p)
    PROVE  /\ runs \in Seq(RunRow) /\ Len(runs) \in Nat
           /\ DOMAIN runs = 1..Len(runs) /\ 1..Len(runs) \subseteq DOMAIN runs'
           /\ ~StartRun(p) => Len(runs') = Len(runs)
<1>1. runs \in Seq(RunRow) /\ Len(runs) \in Nat /\ DOMAIN runs = 1..Len(runs)
  BY DEF TypeInv, TypeOK
<1>2. CASE StartRun(p)
  <2>1. NewRow(p) \in RunRow /\ runs' = Append(runs, NewRow(p))
    BY <1>2, NewRowType DEF StartRun
  <2>2. DOMAIN runs' = 1..(Len(runs) + 1)
    BY <1>1, <2>1
  <2> QED
    BY <1>1, <1>2, <2>2
<1>3. CASE EndsRun(p)
  BY <1>1, <1>3, RunEnds
<1>4. CASE ~StartRun(p) /\ ~EndsRun(p)
  <2>1. runs' = runs
    BY <1>4, ZenonT(30)
    DEF EndsRun, ProcStep, Start, Opening, TakeLock, LockHeld, ReadVersion, ApplyMigration,
         MigrationTaken, Opened, Resolve, ResolveFails, Connect, Running, StartRefused,
         ArchivePage, Download, Project, ProjectNothing, ProjectFails, Accounting, AddAccount,
         FindAccount, CountRecords, DeleteAccount, Work, FailsOutright, Close, Crash, archiveVars
  <2> QED
    BY <1>1, <2>1
<1> QED
  BY <1>2, <1>3, <1>4

\* What is the last run of its account was so before.
LEMMA LastBefore ==
    ASSUME TypeInv, NEW p \in Processes, ProcStep(p), NEW n \in 1..Len(runs), LastPull(n)'
    PROVE  LastPull(n)
<1> SUFFICES ASSUME NEW m \in DOMAIN runs, runs[m].account = runs[n].account,
                    runs[m].mode = "pull"
             PROVE  m <= n
  BY DEF LastPull
<1>1. m \in 1..Len(runs) /\ m \in DOMAIN runs'
  BY RunsGrow
<1>2. runs'[m].account = runs'[n].account /\ runs'[m].mode = "pull"
  BY <1>1, RowsStay
<1> QED
  BY <1>1, <1>2 DEF LastPull

\* Which steps touch the pages and the numbers, and where.
LEMMA CountsStay ==
    ASSUME TypeInv, NEW p \in Processes, ProcStep(p), NEW i \in Ids
    PROVE  \/ records'[i] = records[i] /\ numbers'[i] = numbers[i]
           \/ numbers'[i] = records'[i]
           \/ At(p, "reading") /\ i = proc[p].id
<1>1. records \in [Ids -> Nat] /\ numbers \in [Ids -> Nat] /\ Placed(p)
  BY DEF TypeInv, TypeOK
<1>2. CASE ArchivePage(p)
  BY <1>1, <1>2 DEF ArchivePage, At
<1>3. CASE Project(p)
  BY <1>1, <1>3 DEF Project, Projected
<1>4. CASE ~ArchivePage(p) /\ ~Project(p)
  <2>1. UNCHANGED <<records, numbers>>
    BY <1>4, ZenonT(30)
    DEF ProcStep, Start, Opening, TakeLock, LockHeld, ReadVersion, ApplyMigration,
         MigrationTaken, Opened, Resolve, ResolveFails, Connect, Running, StartRun,
         StartRefused, FinishRun, ProbeOver, Download, ProjectNothing, ProjectFails, Accounting,
         AddAccount, FindAccount, CountRecords, DeleteAccount, Work, FailsOutright, Close,
         Crash, archiveVars
  <2> QED
    BY <2>1
<1> QED
  BY <1>2, <1>3, <1>4

\* A command keeps its account for as long as it has its run.
LEMMA AccountStays ==
    ASSUME TypeInv, NEW p \in Processes, ProcStep(p), proc'[p].row # 0
    PROVE  proc'[p].id = proc[p].id /\ proc'[p].cmd = proc[p].cmd
<1>1. proc[p] \in Proc /\ proc \in [Processes -> Proc] /\ Placed(p)
  BY ProcFields DEF TypeInv, TypeOK
<1>2. ASSUME NEW cmd \in Commands, NEW knows \in 1..Newest, Start(p, cmd, knows)
      PROVE  FALSE
  BY <1>1, <1>2 DEF Start, Outside
<1>3. CASE Opening(p)
  <2>1. CASE Resolve(p)
    BY <1>1, <2>1 DEF Resolve, At, Placed, Proc
  <2>2. CASE ~Resolve(p)
    BY <1>1, <1>3, <2>2 DEF Opening, TakeLock, LockHeld, ReadVersion, ApplyMigration,
         MigrationTaken, Opened, ResolveFails, Connect, Reach, Leave, Proc
  <2> QED
    BY <2>1, <2>2
<1>4. CASE Running(p)
  BY <1>1, <1>4 DEF Running, StartRun, StartRefused, ArchivePage, FinishRun, ProbeOver, Download, Project,
                    ProjectNothing, ProjectFails, Leave, Proc
<1>5. CASE Accounting(p)
  <2>1. CASE FindAccount(p)
    BY <1>1, <2>1 DEF FindAccount, Leave, At, Placed, Proc
  <2>2. CASE ~FindAccount(p)
    BY <1>1, <1>5, <2>2 DEF Accounting, AddAccount, CountRecords, DeleteAccount, Reach, Leave,
         Proc
  <2> QED
    BY <2>1, <2>2
<1>6. CASE \/ \E code \in {exitOK, exitPartial, exitConfig} : Work(p, code)
           \/ FailsOutright(p) \/ Close(p) \/ Crash(p)
  BY <1>1, <1>6 DEF Work, FailsOutright, Close, Crash, Reach, Leave, Proc
<1> QED
  BY <1>2, <1>3, <1>4, <1>5, <1>6 DEF ProcStep

\* Where a process can have come from that has a run, and reads or has ended.
LEMMA WayOut ==
    ASSUME TypeInv, NEW p \in Processes, ProcStep(p), ~StartRun(p),
           proc'[p].row # 0, proc'[p].row = proc[p].row
    PROVE  /\ At(p, "reading")' => At(p, "reading")
           /\ proc'[p].pc \in {"closing", "out"} =>
                 \/ Close(p) \/ Crash(p) \/ Project(p) \/ ProjectNothing(p) \/ ProjectFails(p)
                 \/ proc[p].pc \in {"probing", "reading"} /\ FailsOutright(p)
                 \/ ~proc[p].cmd.files \/ proc[p].cmd.verb = "probe"
<1>1. proc[p] \in Proc /\ proc \in [Processes -> Proc] /\ Placed(p)
      /\ proc[p].pc \in {"probing", "reading", "downloading", "projecting", "closing", "out"}
      /\ proc[p].cmd.verb \in Recorded
  BY ProcFields DEF TypeInv, TypeOK, Placed
<1>2. ASSUME NEW cmd \in Commands, NEW knows \in 1..Newest, Start(p, cmd, knows)
      PROVE  FALSE
  BY <1>1, <1>2 DEF Start, Outside
<1>3. ~Opening(p) /\ ~Accounting(p) /\ ~StartRefused(p)
      /\ ~\E code \in {exitOK, exitPartial, exitConfig} : Work(p, code)
  BY <1>1 DEF Opening, TakeLock, LockHeld, ReadVersion, ApplyMigration, MigrationTaken,
              Opened, Resolve, ResolveFails, Connect, Accounting, AddAccount, FindAccount,
              CountRecords, DeleteAccount, StartRefused, Work, At
<1>4. CASE ArchivePage(p) \/ Close(p) \/ Crash(p)
  BY <1>1, <1>4 DEF ArchivePage, Close, Crash, Reach, At, Proc
<1>5. CASE \/ \E outcome \in {"ok", "partial", "budget"} : FinishRun(p, outcome)
           \/ \E code \in {exitOK, exitPartial, exitConfig} : Download(p, code)
  BY <1>1, <1>5 DEF FinishRun, Download, At, Proc
<1>6. CASE Project(p) \/ ProjectNothing(p) \/ ProjectFails(p)
  BY <1>1, <1>6 DEF Project, ProjectNothing, ProjectFails, Leave, At, Proc
<1>7. CASE FailsOutright(p)
  BY <1>1, <1>7 DEF FailsOutright, Leave, At, Proc
<1>8. CASE \E code \in {exitOK, exitPartial} : ProbeOver(p, code)
  BY <1>1, <1>8 DEF ProbeOver, Leave, At, Placed, Proc
<1> QED
  BY <1>2, <1>3, <1>4, <1>5, <1>6, <1>7, <1>8 DEF ProcStep, Running

\* What the step of p does to the numbers of another pull.
LEMMA NumbersOfOthers ==
    ASSUME TypeInv, LockInv, ExitInv, NumbersInv, NEW p \in Processes, ProcStep(p),
           NEW q \in Processes, q # p, proc'[q].row # 0
    PROVE  /\ RowOf(q)'
           /\ At(q, "reading")' => proc'[q].row = Len(runs')
           /\ Settled(q)' => numbers'[proc'[q].id] = records'[proc'[q].id]
<1>1. /\ proc'[q] = proc[q] /\ proc[q].row \in 1..Len(runs) /\ proc[q].id \in Ids
      /\ proc[p].row \in 0..Len(runs) /\ Len(runs) \in Nat
      /\ proc[p].row # 0 => proc[p].row # proc[q].row
  BY OthersStay, ProcFields DEF TypeInv, Placed, ExitInv
<1>2. /\ RowOf(q)
      /\ At(q, "reading") => proc[q].row = Len(runs)
      /\ Settled(q) => numbers[proc[q].id] = records[proc[q].id]
  BY <1>1 DEF NumbersInv
<1>3. RowOf(q)'
  BY <1>1, <1>2, RowsStay DEF RowOf
<1>4. At(q, "reading")' => proc'[q].row = Len(runs')
  <2>1. ASSUME At(q, "reading") PROVE ~StartRun(p)
    BY <2>1, OneReads DEF StartRun, At
  <2> QED
    BY <1>1, <1>2, <2>1, RunsGrow DEF At
<1>5. ASSUME Settled(q)'
      PROVE  numbers'[proc'[q].id] = records'[proc'[q].id]
  <2>1. Outcome(q)' = Outcome(q)
    BY <1>1, RowsStay DEF Outcome
  <2>2. LastPull(proc[q].row)
    BY <1>1, <1>5, LastBefore DEF Settled
  <2>3. numbers[proc[q].id] = records[proc[q].id]
    BY <1>1, <1>2, <1>5, <2>1, <2>2 DEF Settled
  <2>4. ~(At(p, "reading") /\ proc[q].id = proc[p].id)
    <3> SUFFICES ASSUME At(p, "reading"), proc[q].id = proc[p].id PROVE FALSE
      OBVIOUS
    <3>1. proc[p].row # 0 /\ proc[p].row = Len(runs)
          /\ runs[proc[p].row].account = runs[proc[q].row].account
          /\ runs[proc[p].row].mode = "pull"
      <4>1. proc[p].row # 0 /\ proc[p].cmd.verb = "pull"
        BY DEF TypeInv, Placed, At
      <4> QED
        BY <1>2, <4>1 DEF NumbersInv, RowOf
    <3>2. proc[p].row \in DOMAIN runs
      BY <1>1, <3>1, RunsGrow
    <3> QED
      BY <1>1, <2>2, <3>1, <3>2 DEF LastPull
  <2> QED
    BY <1>1, <2>3, <2>4, CountsStay
<1> QED
  BY <1>3, <1>4, <1>5

\* What it does to its own.
LEMMA OwnNumbers ==
    ASSUME TypeInv, TypeInv', NoOrphans, ExitInv, NumbersInv,
           NEW p \in Processes, ProcStep(p), ~StartRun(p), proc'[p].row # 0
    PROVE  /\ RowOf(p)'
           /\ At(p, "reading")' => proc'[p].row = Len(runs')
           /\ Settled(p)' => numbers'[proc'[p].id] = records'[proc'[p].id]
<1>1. /\ proc'[p].row = proc[p].row /\ proc'[p].id = proc[p].id
      /\ proc[p].row \in 1..Len(runs) /\ proc[p].id \in Ids
      /\ proc'[p].cmd = proc[p].cmd
      /\ proc[p] \in Proc /\ proc \in [Processes -> Proc]
      /\ numbers \in [Ids -> Nat]
  <2>1. /\ proc'[p].row = proc[p].row /\ proc'[p].id = proc[p].id
        /\ proc'[p].cmd = proc[p].cmd
    BY OwnRow, AccountStays
  <2>2. proc[p].row \in 1..Len(runs) /\ proc[p] \in Proc
    BY <2>1, ProcFields DEF TypeInv
  <2>3. Placed(p) /\ proc[p].row # 0
    BY <2>1 DEF TypeInv
  <2>4. proc[p].id \in Ids
    BY <2>3 DEF Placed
  <2> QED
    BY <2>1, <2>2, <2>4 DEF TypeInv, TypeOK
<1>2. /\ RowOf(p)
      /\ At(p, "reading") => proc[p].row = Len(runs)
      /\ Settled(p) => numbers[proc[p].id] = records[proc[p].id]
  BY <1>1 DEF NumbersInv
<1>3. RowOf(p)'
  BY <1>1, <1>2, RowsStay DEF RowOf
<1>4. At(p, "reading")' => proc'[p].row = Len(runs')
  BY <1>1, <1>2, WayOut, RunsGrow
<1>5. ASSUME Settled(p)'
      PROVE  numbers'[proc'[p].id] = records'[proc'[p].id]
  <2>1. CASE Close(p)
    <3>1. /\ proc[p].pc = "closing" /\ proc'[p].warned = proc[p].warned
          /\ proc'[p].code = proc[p].code
          /\ UNCHANGED <<runs, records, numbers>>
      BY <1>1, <2>1 DEF Close, Reach, At, archiveVars, Proc
    <3>2. Settled(p)
      BY <1>1, <1>5, <3>1 DEF Settled, Outcome, LastPull
    <3> QED
      BY <1>1, <1>2, <3>1, <3>2
  <2>2. CASE Crash(p)
    BY <1>1, <1>5, <2>2 DEF Crash, Settled, Proc
  <2>3. CASE Project(p)
    BY <1>1, <2>3 DEF Project, Projected
  <2>4. CASE ProjectNothing(p)
    <3>1. Referenced(proc[p].id)
      BY <1>1, <1>2, RunsGrow DEF Referenced, RowOf
    <3> QED
      BY <1>1, <2>4, <3>1 DEF ProjectNothing, KeyHolds, NoOrphans
  <2>5. CASE ProjectFails(p)
    BY <1>1, <1>5, <2>5 DEF ProjectFails, Settled, Proc
  <2>6. CASE proc[p].pc \in {"probing", "reading"} /\ FailsOutright(p)
    <3>1. Outcome(p) = "open" /\ runs' = runs
      BY <1>1, <2>6 DEF ExitInv, Underway, FailsOutright, archiveVars
    <3> QED
      BY <1>1, <1>5, <3>1 DEF Settled, Outcome
  <2> QED
    BY <1>1, <1>5, <2>1, <2>2, <2>3, <2>4, <2>5, <2>6, WayOut DEF Settled
<1> QED
  BY <1>3, <1>4, <1>5

LEMMA NumbersStep ==
    ASSUME TypeInv, TypeInv', LockInv, NoOrphans, ExitInv, NumbersInv,
           NEW p \in Processes, ProcStep(p)
    PROVE  NumbersInv'
<1>1. CASE StartRun(p)
  <2>1. /\ proc[p].id \in Ids /\ runs \in Seq(RunRow) /\ Len(runs) \in Nat
        /\ proc[p] \in Proc /\ proc \in [Processes -> Proc]
    BY <1>1, ProcFields DEF StartRun, At, TypeInv, TypeOK, Placed
  <2>2. /\ NewRow(p) \in RunRow /\ NewRow(p).account = proc[p].id
        /\ NewRow(p).mode = proc[p].cmd.verb
    BY <1>1, NewRowType DEF StartRun
  <2>3. runs' = Append(runs, NewRow(p))
    BY <1>1 DEF StartRun
  <2>4. Len(runs') = Len(runs) + 1 /\ runs'[Len(runs) + 1] = NewRow(p)
    BY <2>1, <2>2, <2>3
  <2>5. /\ proc'[p].row = Len(runs) + 1 /\ proc'[p].id = proc[p].id
        /\ proc'[p].cmd = proc[p].cmd /\ proc'[p].pc \in {"probing", "reading"}
    BY <1>1, <2>1 DEF StartRun, Proc
  <2>6. ~Settled(p)'
    BY <2>5 DEF Settled
  <2> QED
    BY <2>2, <2>4, <2>5, <2>6, NumbersOfOthers DEF NumbersInv, RowOf
<1>2. CASE ~StartRun(p)
  BY <1>2, OwnNumbers, NumbersOfOthers DEF NumbersInv
<1> QED
  BY <1>1, <1>2

\* The numbers of an account stay those of its archive from the exit of a pull
\* without --no-files that closed its run to the next pull, whatever else is on the data directory
\* (derivedAfterPull, ProjectNumbers, a reproject without the lock).
THEOREM NumbersAreCurrent == Spec => []NumbersCurrent
<1>1. Init => LockInv /\ NoOrphans /\ ExitInv /\ NumbersInv
  BY SessionAssumption
  DEF Init, LockInv, Engaged, NoOrphans, Referenced, ExitInv, NumbersInv, At, Outside,
      SessionAssumption
<1>2. TypeInv /\ TypeInv' /\ LockInv /\ NoOrphans /\ ExitInv /\ NumbersInv /\ [Next]_vars
      => LockInv' /\ NoOrphans' /\ ExitInv' /\ NumbersInv'
  <2>1. ASSUME LockInv, NoOrphans, ExitInv, NumbersInv, UNCHANGED vars
        PROVE  LockInv' /\ NoOrphans' /\ ExitInv' /\ NumbersInv'
    <3>1. LockInv' /\ NoOrphans'
      BY <2>1 DEF vars, archiveVars, LockInv, Engaged, NoOrphans, Referenced, At
    <3>2. ExitInv' /\ NumbersInv'
      BY <2>1 DEF vars, archiveVars, ExitInv, Underway, NumbersInv, RowOf, Settled, LastPull, Outcome, At
    <3> QED
      BY <3>1, <3>2
  <2> QED
    BY <2>1, SomeoneSteps, LockStep, OrphanStep, ExitStep, NumbersStep
<1>3. NumbersInv => NumbersCurrent
  BY DEF NumbersInv, NumbersCurrent, Settled, At
<1>4. TypeInv /\ [Next]_vars => TypeInv'
  BY TypeStep
<1> QED
  BY TypeInit, <1>1, <1>2, <1>3, <1>4, PTL DEF Spec
=============================================================================
