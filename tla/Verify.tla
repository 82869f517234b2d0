------------------------------- MODULE Verify -------------------------------
(***************************************************************************)
(* fasync verify beside a pull.  The command takes no lock and no          *)
(* transaction: each of its checks reads the archive with statements of    *)
(* its own, and between any two of them the pull may commit a page, a      *)
(* sweep, a snapshot of the trial balance or a download.                   *)
(*                                                                         *)
(* The texts of the report are left out; a check comes out as its status.  *)
(***************************************************************************)
EXTENDS Integers, FiniteSets, FiniteSetsExt

CONSTANTS
    Rec,        \* the records, the transactions among them
    Att,        \* the attachments, one for each digest
    Foreign,    \* URLs of families that are not archived
    Refs,       \* the URLs each record refers to
    Txn,        \* the transactions
    Codes,      \* the nominal codes
    Code, Value, Day,   \* of each transaction
    Balances,   \* what the trial balance may say
    Windows     \* the --from and --to that may be given

CONSTANTS
    MaxCommits, \* bound: changes of the archive in a behaviour
    MaxFaults   \* bound: failing statements in a behaviour

\* A snapshot of the trial balance: the codes it has entries for and their totals,
\* and whether it decodes.
Snapshot == [from : Int, to : Int, codes : SUBSET Codes, total : [Codes -> Int],
             readable : BOOLEAN]

\* No --from and no --to; no snapshot.
NoWindow  == [from |-> 0, to |-> 0, given |-> FALSE]
NoBalance == [from |-> 0, to |-> 0, codes |-> {}, total |-> [c \in Codes |-> 0],
              readable |-> FALSE]

ASSUME VerifyAssumption ==
    /\ IsFiniteSet(Rec) /\ IsFiniteSet(Att) /\ IsFiniteSet(Codes)
    /\ Rec \cap Att = {}
    /\ Refs \in [Rec -> SUBSET (Rec \cup Att \cup Foreign)]
    /\ Txn \subseteq Rec
    /\ Code \in [Txn -> Codes] /\ Value \in [Txn -> Int] /\ Day \in [Txn -> Int]
    /\ Balances \subseteq Snapshot /\ NoBalance \notin Balances
    /\ Windows \subseteq [from : Int, to : Int, given : BOOLEAN]
    /\ MaxCommits \in Nat /\ MaxFaults \in Nat

VARIABLES
    row,        \* records: absent, live or deleted
    stored,     \* attachments: those in state stored
    intact,     \* the blob store: files that are what their name says
    balance,    \* report_snapshots: the newest trial balance
    verify,     \* the verification in progress
    standing,   \* auxiliary: what has been wrong ever since it began
    commits,    \* auxiliary: changes so far, bounded by MaxCommits
    faults      \* auxiliary: failures so far, bounded by MaxFaults

archiveVars == <<row, stored, intact, balance>>
vars        == <<archiveVars, verify, standing, commits, faults>>

----------------------------------------------------------------------------
(* Types                                                                   *)

Statuses == {"none", "pass", "fail", "advisory", "skipped"}
Checks   == {"references", "zero", "coverage", "totals", "blobs"}

Steps == {"out", "urls", "attachments", "walk", "balance",
          "coverage window", "coverage", "totals window", "totals",
          "stored", "hashing", "reported"}

Verification ==
    [pc : Steps, window : Windows \cup {NoWindow}, hash : BOOLEAN,
     urls : SUBSET (Rec \cup Att),  \* archived, as checkReferences read it
     entries : Balances \cup {NoBalance},
     from : Int, to : Int,          \* the window of localTotals
     left : SUBSET Att,             \* what is still to be hashed
     status : [Checks -> Statuses]]

NoVerify ==
    [pc |-> "out", window |-> NoWindow, hash |-> FALSE, urls |-> {},
     entries |-> NoBalance, from |-> 0, to |-> 0, left |-> {},
     status |-> [c \in Checks |-> "none"]]

\* What can be wrong: a reference to nothing, a file, a code without transactions.
Wrongs == [refs : SUBSET (Rec \X Rec), files : SUBSET Att, codes : SUBSET Codes]

\* Type correctness; and every check that was to run has come out somehow.
TypeOK ==
    /\ row \in [Rec -> {"absent", "live", "deleted"}]
    /\ stored \subseteq Att /\ intact \subseteq Att
    /\ balance \in Balances \cup {NoBalance}
    /\ verify \in Verification
    /\ verify.pc = "reported" =>
          \A c \in Checks : verify.status[c] = "none" => c = "blobs" /\ ~verify.hash
    /\ standing \in Wrongs
    /\ commits \in Nat /\ faults \in Nat

Live == {r \in Rec : row[r] = "live"}

Init ==
    /\ row \in [Rec -> {"absent", "live"}]
    /\ stored \in SUBSET Att /\ intact \in SUBSET Att
    /\ balance \in Balances \cup {NoBalance}
    /\ verify = NoVerify
    /\ standing = [refs |-> {}, files |-> {}, codes |-> {}]
    /\ commits = 0 /\ faults = 0

----------------------------------------------------------------------------
(* The pull beside it.                                                     *)

Dangling(live) ==
    {e \in Rec \X Rec : e[1] \in live /\ e[2] \in Refs[e[1]] /\ e[2] \notin live}

Damaged(held, good) == held \ good

Uncovered(live) == {c \in Codes : \A t \in Txn \cap live : Code[t] # c}

\* What is wrong in the archive as it is.
Wrong == [refs |-> Dangling(Live), files |-> Damaged(stored, intact),
          codes |-> Uncovered(Live)]

\* Of what stood so far, what is still wrong after the step.
Commit ==
    /\ commits < MaxCommits
    /\ commits' = commits + 1
    /\ standing' = [refs  |-> standing.refs \cap Wrong.refs',
                    files |-> standing.files \cap Wrong.files',
                    codes |-> standing.codes \cap Wrong.codes']
    /\ UNCHANGED <<verify, faults>>

\* A page, which may bring a record back.
ArchiveRecord(r) ==
    /\ row[r] # "live"
    /\ row' = [row EXCEPT ![r] = "live"]
    /\ UNCHANGED <<stored, intact, balance>> /\ Commit

SweepRecord(r) ==
    /\ row[r] = "live"
    /\ row' = [row EXCEPT ![r] = "deleted"]
    /\ UNCHANGED <<stored, intact, balance>> /\ Commit

\* A download: the file first, then its row.
StoreAttachment(a) ==
    /\ a \notin stored
    /\ stored' = stored \cup {a} /\ intact' = intact \cup {a}
    /\ UNCHANGED <<row, balance>> /\ Commit

\* A file is lost, or damaged.
LoseFile(a) ==
    /\ a \in intact /\ intact' = intact \ {a}
    /\ UNCHANGED <<row, stored, balance>> /\ Commit

SnapshotBalance(b) ==
    /\ balance # b /\ balance' = b
    /\ UNCHANGED <<row, stored, intact>> /\ Commit

----------------------------------------------------------------------------
(* Engine.Verify, check by check.                                          *)

\* p is the step that ran, verify becomes v.
Does(p, v) ==
    /\ verify.pc = p
    /\ verify' = v
    /\ UNCHANGED <<archiveVars, standing, commits, faults>>

Begin(window, hash) ==
    /\ verify.pc = "out"
    /\ verify' = [NoVerify EXCEPT !.pc = "urls", !.window = window, !.hash = hash]
    /\ standing' = Wrong
    /\ UNCHANGED <<archiveVars, commits, faults>>

\* Mutated: the statement without deleted_at IS NULL.
RowURLs == {r \in Rec : row[r] # "absent"}

ArchivedURLs == Live

ReadURLs ==
    Does("urls", [verify EXCEPT !.pc = "attachments", !.urls = ArchivedURLs])

ReadAttachments ==
    Does("attachments", [verify EXCEPT !.pc = "walk", !.urls = @ \cup stored])

\* Attachments and foreign families are not archivable as records.
CheckReferences ==
    Does("walk", [verify EXCEPT !.pc = "balance",
        !.status["references"] =
            IF verify.urls = {} THEN "skipped"
            ELSE IF \E r \in Live : ~(Refs[r] \cap Rec \subseteq verify.urls)
            THEN "fail" ELSE "pass"])

\* Mutated: the reason the balance cannot be looked at is not reported.
Unreported(b) == "none"

\* loadTrialBalance: no snapshot or one without entries, or one that does not decode.
Problem(b) == IF b = NoBalance \/ b.readable THEN "skipped" ELSE "fail"

SumOfTotals(b) == MapThenSumSet(LAMBDA c : b.total[c], b.codes)

CheckZero ==
    Does("balance",
        IF balance.readable /\ balance.codes # {}
        THEN [verify EXCEPT !.pc = "coverage window", !.entries = balance,
                !.status["zero"] = IF SumOfTotals(balance) = 0 THEN "pass" ELSE "fail"]
        ELSE [verify EXCEPT !.pc = "coverage window",
                !.status["zero"] = Problem(balance)])

\* localTotals takes the window of the newest snapshot, whichever that is by now.
Bounds(v) ==
    IF v.window.given
    THEN [v EXCEPT !.from = v.window.from, !.to = v.window.to]
    ELSE [v EXCEPT !.from = balance.from, !.to = balance.to]

\* Without entries neither check looks at the transactions.
NoEntries == verify.entries = NoBalance

After == [p \in {"coverage window", "totals window"} |->
             IF p = "coverage window" THEN "totals window" ELSE "stored"]

CheckOf == [p \in {"coverage window", "totals window"} |->
               IF p = "coverage window" THEN "coverage" ELSE "totals"]

ReadWindow(p) ==
    Does(p, IF NoEntries
            THEN [verify EXCEPT !.pc = After[p], !.status[CheckOf[p]] = "skipped"]
            ELSE [Bounds(verify) EXCEPT !.pc = CheckOf[p]])

\* LiveRecordBodiesInWindow, where 0 is no bound, by code.
InWindow ==
    {t \in Txn \cap Live :
        /\ verify.from = 0 \/ Day[t] >= verify.from
        /\ verify.to = 0 \/ Day[t] <= verify.to}

Mentioned == {Code[t] : t \in InWindow}

LocalTotal(c) == MapThenSumSet(LAMBDA t : Value[t], {t \in InWindow : Code[t] = c})

\* checkNominalCoverage
CheckCoverage ==
    Does("coverage", [verify EXCEPT !.pc = "totals window",
        !.status["coverage"] =
            IF InWindow = {} THEN "skipped"
            ELSE IF \A c \in verify.entries.codes :
                        verify.entries.total[c] = 0 \/ c \in Mentioned
            THEN "pass" ELSE "fail"])

\* checkTotalsAgainstTrialBalance: a difference is no failure, and a code that has
\* an entry or transactions but not both is not compared.
CheckTotals ==
    Does("totals", [verify EXCEPT !.pc = "stored",
        !.status["totals"] =
            IF InWindow = {} THEN "skipped"
            ELSE IF \A c \in Mentioned \cap verify.entries.codes :
                        LocalTotal(c) = verify.entries.total[c]
            THEN "pass" ELSE "advisory"])

\* checkBlobs reads the attachments anew.
ReadStored ==
    Does("stored",
        IF ~verify.hash THEN [verify EXCEPT !.pc = "reported"]
        ELSE IF stored = {}
        THEN [verify EXCEPT !.pc = "reported", !.status["blobs"] = "skipped"]
        ELSE [verify EXCEPT !.pc = "hashing", !.left = stored,
                            !.status["blobs"] = "pass"])

Rehash(a) ==
    /\ a \in verify.left
    /\ Does("hashing", [verify EXCEPT !.left = @ \ {a},
           !.status["blobs"] = IF a \in intact THEN @ ELSE "fail"])

Hashed ==
    /\ verify.left = {}
    /\ Does("hashing", [verify EXCEPT !.pc = "reported"])

\* A statement of checkReferences or checkBlobs fails: no report, exit 2.
Abandon ==
    /\ verify.pc \in {"urls", "attachments", "walk", "stored"}
    /\ faults < MaxFaults /\ faults' = faults + 1
    /\ verify' = NoVerify
    /\ UNCHANGED <<archiveVars, standing, commits>>

\* The newest snapshot is not read.  For its own check that is as if there were
\* none, for the window of localTotals as if no dates were asked for.
BalanceUnread ==
    /\ faults < MaxFaults /\ faults' = faults + 1
    /\ \/ /\ verify.pc = "balance"
          /\ verify' = [verify EXCEPT !.pc = "coverage window", !.status["zero"] = "skipped"]
       \/ \E p \in DOMAIN After :
             /\ verify.pc = p /\ ~NoEntries /\ ~verify.window.given
             /\ verify' = [verify EXCEPT !.pc = CheckOf[p], !.from = 0, !.to = 0]
    /\ UNCHANGED <<archiveVars, standing, commits>>

\* The transactions are not read: the check is skipped.
TotalsFail(p) ==
    /\ verify.pc = CheckOf[p]
    /\ faults < MaxFaults /\ faults' = faults + 1
    /\ verify' = [verify EXCEPT !.pc = After[p], !.status[CheckOf[p]] = "skipped"]
    /\ UNCHANGED <<archiveVars, standing, commits>>

End == Does("reported", NoVerify)

----------------------------------------------------------------------------

Pull ==
    \/ \E r \in Rec : ArchiveRecord(r) \/ SweepRecord(r)
    \/ \E a \in Att : StoreAttachment(a) \/ LoseFile(a)
    \/ \E b \in Balances : SnapshotBalance(b)

Next ==
    \/ Pull
    \/ \E w \in Windows \cup {NoWindow}, hash \in BOOLEAN : Begin(w, hash)
    \/ ReadURLs \/ ReadAttachments \/ CheckReferences \/ CheckZero
    \/ \E p \in DOMAIN After : ReadWindow(p) \/ TotalsFail(p)
    \/ BalanceUnread
    \/ CheckCoverage \/ CheckTotals
    \/ ReadStored \/ \E a \in Att : Rehash(a)
    \/ Hashed \/ Abandon \/ End

Spec == Init /\ [][Next]_vars

----------------------------------------------------------------------------
(* What a verification is worth.                                           *)

Reported(c) == verify.pc = "reported" /\ verify.status[c] # "fail"

\* Whatever a pull commits between its statements, a verification does not pass
\* over what was wrong from its beginning to its end: a live record that refers
\* to one the archive does not have, a stored file that is not what its name
\* says, or, when the codes are found covered, a code with a balance and not one
\* transaction (checkReferences, checkBlobs, checkNominalCoverage).
NoStandingGap ==
    /\ Reported("references") => standing.refs = {}
    /\ Reported("blobs") /\ verify.hash => standing.files = {}
    /\ verify.pc = "reported" /\ verify.status["coverage"] = "pass"
       => \A c \in standing.codes \cap verify.entries.codes : verify.entries.total[c] = 0
=============================================================================
