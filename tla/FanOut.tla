------------------------------- MODULE FanOut -------------------------------
(***************************************************************************)
(* Two families in one engine run: one whose records are scopes (bank      *)
(* accounts, contacts and projects, users) and one the API only lists      *)
(* scope by scope (bank transactions, notes, tax returns).  Engine.plan    *)
(* takes the scopes from the archive, before the same run reads them anew, *)
(* and the sweep of the scoped family covers whatever the plan held.       *)
(*                                                                         *)
(* Pull models a family's walk in full; here a record is only listed or    *)
(* not, and moved since its cursor or not, so that two families, the plan  *)
(* and the probe fit beside each other.                                    *)
(***************************************************************************)
EXTENDS Integers, FiniteSets

CONSTANTS
    Parents,        \* the records that are scopes
    Children,       \* the records listed below them
    ParentOf,       \* the scope that lists a child
    Options,        \* the commands the engine is started for
    Ignores,        \* the families whose endpoint ignores updated_since
    Workers         \* Options.Concurrency

CONSTANTS           \* what the surroundings may do
    MaxChanges,     \* bound: changes at the far end in a behaviour
    MaxFaults       \* bound: failures and crashes in a behaviour

Rec      == Parents \cup Children
Families == {"parents", "children"}

\* The scope column of sync_state: "" for the family that has none.
Plain    == ""
Scopes   == {Plain} \cup Parents

\* The records a scope lists, the family it belongs to, and its scopes.
RecordsOf(s) == IF s = Plain THEN Parents ELSE {c \in Children : ParentOf[c] = s}
Family(f)    == IF f = "parents" THEN Parents ELSE Children

\* SelectFamilies, Mode and Reconcile of a command; probe is fasync probe.
Commands ==
    [families : SUBSET Families, full : BOOLEAN, sweep : BOOLEAN, probe : BOOLEAN]

NoCommand == [families |-> {}, full |-> FALSE, sweep |-> FALSE, probe |-> FALSE]

ASSUME FanOutAssumption ==
    /\ IsFiniteSet(Rec)
    /\ Parents \cap Children = {}
    /\ Plain \notin Rec
    /\ ParentOf \in [Children -> Parents]
    /\ Options \subseteq Commands
    /\ Ignores \subseteq Families
    /\ Workers \in Nat \ {0}
    /\ MaxChanges \in Nat /\ MaxFaults \in Nat

VARIABLES
    there,      \* the records the company has
    moved,      \* those that changed since the cursor of their scope
    live,       \* records: the rows that are not deleted
    cursor,     \* sync_state: the scopes that have a cursor
    support,    \* sync_state: supports_updated_since, at the scope ""
    run,        \* the run in progress
    job,        \* its jobs, by scope
    calm,       \* auxiliary: clean sweeping runs since the company last changed
    changes,    \* auxiliary: changes so far, bounded by MaxChanges
    faults      \* auxiliary: failures so far, bounded by MaxFaults

dbVars  == <<live, cursor, support>>
farVars == <<there, moved, changes>>
vars    == <<farVars, dbVars, run, job, calm, faults>>

----------------------------------------------------------------------------
(* Types                                                                   *)

Phases == {"idle", "planning", "listing", "reading", "probing",
           "sweeping parents", "sweeping children", "finishing"}

Run ==
    [phase : Phases, opt : Commands,
     scopes : SUBSET Parents,   \* what plan fans out over
     owed : SUBSET Parents,     \* what the listing of the parents still has to list
     untried : SUBSET Families, \* families the probe has not settled yet
     shown : SUBSET Families,   \* those whose first request listed a record
     err : BOOLEAN,             \* a family has an error
     gone : SUBSET Rec,         \* auxiliary: not listed at some time of this run
     steady : BOOLEAN]          \* auxiliary: nothing has changed since it began

NoRun ==
    [phase |-> "idle", opt |-> NoCommand, scopes |-> {}, owed |-> {},
     untried |-> {}, shown |-> {}, err |-> FALSE, gone |-> {}, steady |-> FALSE]

JobSteps == {"none", "queued", "reading", "done"}

Job ==
    [pc : JobSteps, full : BOOLEAN,
     owed : SUBSET Rec,     \* what the walk still has to list
     asked : SUBSET Rec,    \* auxiliary: what it set out to list, unchanged since
     read : SUBSET Rec,     \* what it has archived
     ok : BOOLEAN, unavailable : BOOLEAN]

NoJob ==
    [pc |-> "none", full |-> FALSE, owed |-> {}, asked |-> {}, read |-> {},
     ok |-> FALSE, unavailable |-> FALSE]

\* Type correctness of the two families, the run and its jobs.
TypeOK ==
    /\ there \subseteq Rec /\ moved \subseteq Rec /\ live \subseteq Rec
    /\ cursor \subseteq Scopes
    /\ support \in [Families -> {"unknown", "honoured", "ignored"}]
    /\ run \in Run
    /\ job \in [Scopes -> Job]
    /\ calm \in 0..2
    /\ changes \in Nat /\ faults \in Nat

Init ==
    /\ there \in SUBSET Rec
    /\ moved = {}
    /\ live = {} /\ cursor = {}
    /\ support = [f \in Families |-> "unknown"]
    /\ run = NoRun
    /\ job = [s \in Scopes |-> NoJob]
    /\ calm = 0 /\ changes = 0 /\ faults = 0

----------------------------------------------------------------------------
(* The far end.                                                            *)

\* A child is only ever listed through its parent.
ListedIn(company) ==
    {r \in company : r \in Children => ParentOf[r] \in company}

Listed == ListedIn(there)

\* A change in the company; asked is emptied of what it touches, so that the
\* overlap of the cursor covers it.
Change(company, touched) ==
    /\ changes < MaxChanges
    /\ changes' = changes + 1
    /\ there' = company
    /\ moved' = moved \cup touched
    /\ run' = IF run.phase = "idle" THEN run
              ELSE [run EXCEPT !.gone = @ \cup (Rec \ ListedIn(company)),
                               !.steady = FALSE]
    /\ calm' = 0
    /\ UNCHANGED <<dbVars, faults>>

Untouched(r) == [s \in Scopes |-> [job[s] EXCEPT !.asked = @ \ {r}]]

Create(r) ==
    /\ r \notin there
    /\ Change(there \cup {r}, {r})
    /\ job' = Untouched(r)

\* Pages are numbered, so a parent that goes may shift another off the walk.
Remove(r) ==
    /\ r \in there
    /\ Change(there \ {r}, {})
    /\ \/ UNCHANGED job
       \/ /\ r \in job[Plain].read
          /\ \E missed \in job[Plain].owed :
                job' = [job EXCEPT ![Plain].owed = @ \ {missed}]

----------------------------------------------------------------------------
(* Planning: StartRun, scopesFor and bankScopes.                           *)

Fault   == faults < MaxFaults /\ faults' = faults + 1
NoFault == UNCHANGED faults

EndRun ==
    /\ run' = NoRun
    /\ job' = [s \in Scopes |-> NoJob]

StartRun(opt) ==
    /\ run.phase = "idle"
    /\ run' = [NoRun EXCEPT !.phase = "planning", !.opt = opt,
                            !.gone = Rec \ Listed, !.steady = TRUE]
    /\ UNCHANGED <<farVars, dbVars, job, calm, faults>>

\* Mutated: a record that was deleted is still a scope.
AnyRefs == {p \in Parents : p \in live \/ p \in cursor}

\* Mutated: the records are read without their family.
AnyFamily == live

\* archivedBankAccounts, archivedRefs.
ArchivedRefs == live \cap Parents

\* probeScope: the first of the scopes will do to ask about a family.
ProbeScopes(refs) == IF refs = {} THEN {{}} ELSE {{p} : p \in refs}

\* The jobs of a plan, or what a probe is to ask, once the scopes are known.
Planned(refs) ==
    IF run.opt.probe
    THEN /\ \E few \in ProbeScopes(refs) :
               run' = [run EXCEPT !.phase = "probing", !.scopes = few, !.owed = {},
                                  !.untried = run.opt.families]
         /\ UNCHANGED job
    ELSE /\ run' = [run EXCEPT !.phase = "reading", !.scopes = refs, !.owed = {}]
         /\ job' = [s \in Scopes |->
                      IF \/ s = Plain /\ "parents" \in run.opt.families
                         \/ s \in refs
                      THEN [NoJob EXCEPT !.pc = "queued"]
                      ELSE NoJob]

Plan ==
    /\ run.phase = "planning"
    /\ "children" \notin run.opt.families \/ ArchivedRefs # {}
    /\ Planned(IF "children" \in run.opt.families THEN ArchivedRefs ELSE {})
    /\ UNCHANGED <<farVars, dbVars, calm, faults>>

\* None archived yet: the parents are listed there and then.
ListParents ==
    /\ run.phase = "planning"
    /\ "children" \in run.opt.families /\ ArchivedRefs = {}
    /\ run' = [run EXCEPT !.phase = "listing", !.owed = Listed \cap Parents]
    /\ UNCHANGED <<farVars, dbVars, job, calm, faults>>

ListPage ==
    /\ run.phase = "listing"
    /\ \E p \in run.owed \cap Listed :
          /\ live' = live \cup {p}
          /\ run' = [run EXCEPT !.owed = @ \ {p}]
    /\ UNCHANGED <<farVars, cursor, support, job, calm, faults>>

PlanListed ==
    /\ run.phase = "listing"
    /\ run.owed \cap Listed = {}
    /\ Planned(ArchivedRefs)
    /\ UNCHANGED <<farVars, dbVars, calm, faults>>

\* A request or a statement failed: Pull returns, and so does Probe.
PlanFails ==
    /\ run.phase \in {"planning", "listing"}
    /\ Fault
    /\ EndRun
    /\ UNCHANGED <<farVars, dbVars, calm>>

----------------------------------------------------------------------------
(* The jobs: one for the parents, one for each scope of the children.      *)

Reading == Cardinality({s \in Scopes : job[s].pc = "reading"})

\* listOptions; the state of a scope is looked up under the scope, where the
\* probe has left nothing.
FullScan(s) ==
    \/ run.opt.full
    \/ s \notin cursor
    \/ s = Plain /\ support["parents"] = "ignored"

FamilyOf(s) == IF s = Plain THEN "parents" ELSE "children"

\* What the endpoint answers: without the filter, or ignoring it, everything.
Answer(s, full) ==
    {r \in RecordsOf(s) \cap Listed : full \/ FamilyOf(s) \in Ignores \/ r \in moved}

JobStart(s) ==
    /\ run.phase = "reading" /\ job[s].pc = "queued" /\ Reading < Workers
    /\ job' = [job EXCEPT ![s] =
                 [NoJob EXCEPT !.pc = "reading", !.full = FullScan(s),
                               !.owed = Answer(s, FullScan(s)),
                               !.asked = Answer(s, FullScan(s))]]
    /\ UNCHANGED <<farVars, dbVars, run, calm, faults>>

\* UpsertRecords of a page; what was created meanwhile may be listed too.
ReadPage(s) ==
    /\ job[s].pc = "reading"
    /\ \E r \in Answer(s, job[s].full) \ job[s].read :
          /\ live' = live \cup {r}
          /\ job' = [job EXCEPT ![s].owed = @ \ {r}, ![s].read = @ \cup {r}]
    /\ UNCHANGED <<farVars, cursor, support, run, calm, faults>>

\* A walk that saw a record leaves a cursor behind it.
JobEnds(s) ==
    /\ job[s].pc = "reading"
    /\ job[s].owed \cap Listed = {}
    /\ IF job[s].read # {}
       THEN cursor' = cursor \cup {s} /\ moved' = moved \ job[s].asked
       ELSE UNCHANGED <<cursor, moved>>
    /\ job' = [job EXCEPT ![s].pc = "done", ![s].ok = TRUE,
                          ![s].owed = {}, ![s].asked = {}]
    /\ UNCHANGED <<there, changes, live, support, run, calm, faults>>

\* A scope that is gone answers 404, unless it answers with an empty list; any
\* may be refused.  On a later page that is Pull's PageForbidden.
JobUnavailable(s) ==
    /\ job[s].pc = "reading" /\ job[s].read = {}
    /\ IF s \in Parents \ there THEN NoFault ELSE Fault
    /\ job' = [job EXCEPT ![s] = [NoJob EXCEPT !.pc = "done", !.full = job[s].full,
                                               !.ok = TRUE, !.unavailable = TRUE]]
    /\ UNCHANGED <<farVars, dbVars, run, calm>>

\* A request or a statement failed, or the budget ran out.
JobFails(s) ==
    /\ job[s].pc \in {"queued", "reading"}
    /\ Fault
    /\ job' = [job EXCEPT ![s].pc = "done", ![s].owed = {}, ![s].asked = {}]
    /\ run' = [run EXCEPT !.err = TRUE]
    /\ UNCHANGED <<farVars, dbVars, calm>>

----------------------------------------------------------------------------
(* The sweeps, family by family.                                           *)

Results(f) == {s \in Scopes : FamilyOf(s) = f /\ job[s].pc = "done"}

\* Mutated: an unavailable scope holds nothing.
CoveredAvailable(f) == \A s \in Results(f) : job[s].ok /\ job[s].full

\* readCoveredFamily
Covered(f) == \A s \in Results(f) : job[s].ok /\ job[s].full /\ ~job[s].unavailable

Seen == UNION {job[s].read : s \in Scopes}

After == [p \in {"sweeping parents", "sweeping children"} |->
             IF p = "sweeping parents" THEN "sweeping children" ELSE "finishing"]

Sweeping(f) ==
    run.phase = IF f = "parents" THEN "sweeping parents" ELSE "sweeping children"

ReadingOver ==
    /\ run.phase = "reading"
    /\ \A s \in Scopes : job[s].pc \in {"none", "done"}
    /\ run' = [run EXCEPT !.phase = "sweeping parents"]
    /\ UNCHANGED <<farVars, dbVars, job, calm, faults>>

Swept(f) == run.opt.sweep /\ Results(f) # {} /\ Covered(f)

\* Not asked for, no jobs, or a scope that was not read.
SweepNot(f) ==
    /\ Sweeping(f) /\ ~Swept(f)
    /\ run' = [run EXCEPT !.phase = After[run.phase]]
    /\ UNCHANGED <<farVars, dbVars, job, calm, faults>>

\* SoftDeleteUnseen knows no scopes: it takes whatever no job of the family saw.
Sweep(f) ==
    /\ Sweeping(f) /\ Swept(f)
    /\ live' = {r \in live : r \in Family(f) => r \in Seen}
    /\ run' = [run EXCEPT !.phase = After[run.phase]]
    /\ UNCHANGED <<farVars, cursor, support, job, calm, faults>>

\* Refused by the bound, or a statement failed.
SweepFails(f) ==
    /\ Sweeping(f) /\ Swept(f)
    /\ Fault
    /\ run' = [run EXCEPT !.phase = After[run.phase], !.err = TRUE]
    /\ UNCHANGED <<farVars, dbVars, job, calm>>

----------------------------------------------------------------------------
(* fasync probe: two requests for each family.                             *)

ProbeScope(f) == IF f = "parents" THEN Plain ELSE CHOOSE s \in run.scopes : TRUE

Probing(f) == run.phase = "probing" /\ f \in run.untried

Askable(f) == f = "parents" \/ run.scopes # {}

\* What countFirstPage lists, and whether it may be refused.
FirstPage(f)   == RecordsOf(ProbeScope(f)) \cap Listed
MayRefuse(f)   == ProbeScope(f) \in Parents \ there

\* Mutated: one request is thought to settle it.
ShownByDefault(f) ==
    /\ Probing(f) /\ f \notin run.shown /\ Askable(f)
    /\ run' = [run EXCEPT !.shown = @ \cup {f}]
    /\ UNCHANGED <<farVars, dbVars, job, calm, faults>>

\* The first request: does the family have any record at all.
ProbeFirst(f) ==
    /\ Probing(f) /\ f \notin run.shown /\ Askable(f)
    /\ FirstPage(f) # {}
    /\ run' = [run EXCEPT !.shown = @ \cup {f}]
    /\ UNCHANGED <<farVars, dbVars, job, calm, faults>>

\* The second asks for what changed after probeHorizon, which nothing did: a
\* record that comes back all the same proves that the filter is ignored.
ProbeSecond(f) ==
    /\ Probing(f) /\ f \in run.shown
    /\ support' = [support EXCEPT ![f] =
          IF f \in Ignores /\ FirstPage(f) # {} THEN "ignored" ELSE "honoured"]
    /\ run' = [run EXCEPT !.untried = @ \ {f}]
    /\ UNCHANGED <<farVars, live, cursor, job, calm, faults>>

\* Nothing to scope the request by, no record, or a scope that is gone: nothing
\* is concluded.  The same when a request fails, or saving what was found.
ProbeUntold(f) ==
    /\ Probing(f)
    /\ \/ ~Askable(f) /\ NoFault
       \/ Askable(f) /\ f \notin run.shown /\ FirstPage(f) = {} /\ NoFault
       \/ f \in run.shown /\ MayRefuse(f) /\ NoFault
       \/ Fault
    /\ run' = [run EXCEPT !.untried = @ \ {f}]
    /\ UNCHANGED <<farVars, dbVars, job, calm>>

ProbeOver ==
    /\ run.phase = "probing" /\ run.untried = {}
    /\ run' = [run EXCEPT !.phase = "finishing"]
    /\ UNCHANGED <<farVars, dbVars, job, calm, faults>>

----------------------------------------------------------------------------
(* The end of a run.                                                       *)

\* A run that reads and sweeps both families without an error or a refusal, of
\* a company that does not change while it does.
Clean ==
    /\ \A s \in Scopes : job[s].unavailable => s \in Parents \ there
    /\ run.opt.full /\ run.opt.sweep /\ run.opt.families = Families
    /\ ~run.opt.probe /\ ~run.err /\ run.steady

FinishRun ==
    /\ run.phase = "finishing"
    /\ calm' = IF Clean /\ calm < 2 THEN calm + 1 ELSE calm
    /\ EndRun
    /\ UNCHANGED <<farVars, dbVars, faults>>

Crash ==
    /\ run.phase # "idle"
    /\ Fault
    /\ EndRun
    /\ UNCHANGED <<farVars, dbVars, calm>>

----------------------------------------------------------------------------

JobStep(s) ==
    JobStart(s) \/ ReadPage(s) \/ JobEnds(s) \/ JobUnavailable(s) \/ JobFails(s)

Next ==
    \/ \E r \in Rec : Create(r) \/ Remove(r)
    \/ \E opt \in Options : StartRun(opt)
    \/ Plan \/ ListParents \/ ListPage \/ PlanListed \/ PlanFails
    \/ \E s \in Scopes : JobStep(s)
    \/ ReadingOver
    \/ \E f \in Families : SweepNot(f) \/ Sweep(f) \/ SweepFails(f)
    \/ \E f \in Families : ProbeFirst(f) \/ ProbeSecond(f) \/ ProbeUntold(f)
    \/ ProbeOver \/ FinishRun \/ Crash

Spec == Init /\ [][Next]_vars

----------------------------------------------------------------------------
(* What makes the fan-out correct.                                         *)

\* Two clean runs are enough: whatever scopes the plans of earlier runs missed
\* or kept, whatever a sweep took on their account and wherever a listing of the
\* scopes broke off, the archive holds what the company lists, as long as the
\* company has a scope at all (bankScopes, recordRefs, sweepFamilies).
TwoRunsMirror ==
    calm = 2 /\ there \cap Parents # {} => live = Listed

\* A sweep of the scoped family takes a child only if the company did not list
\* it all through the run, or if its scope was not in the archive when the run
\* was planned (plan, readCoveredFamily, SoftDeleteUnseen).
SweptKnownGone ==
    [][\A c \in Children :
          c \in live /\ c \notin live' => c \in run.gone \/ ParentOf[c] \notin run.scopes]_vars

\* What a probe puts on record about a family is what its endpoint does, unless
\* the company changed under it: no family passes for one that honours the
\* filter because it had nothing to show (probeFamily, saveProbe).
ProbeHonest ==
    [][\A f \in Families :
          support'[f] # support[f] /\ run.steady
             => support'[f] = IF f \in Ignores THEN "ignored" ELSE "honoured"]_vars
=============================================================================
