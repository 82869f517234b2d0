---------------------------- MODULE VerifyProofs ----------------------------
(***************************************************************************)
(* Theorems about Verify, for any archive and whatever is committed beside *)
(* a verification.                                                         *)
(***************************************************************************)
EXTENDS Verify, TLAPS

----------------------------------------------------------------------------
(* Types.                                                                  *)

\* The types alone, and then how far each status has got.
Types ==
    /\ row \in [Rec -> {"absent", "live", "deleted"}]
    /\ stored \subseteq Att /\ intact \subseteq Att
    /\ balance \in Balances \cup {NoBalance}
    /\ verify \in Verification
    /\ standing \in Wrongs
    /\ commits \in Nat /\ faults \in Nat

Early == {"out", "urls", "attachments", "walk"}

\* A check has come out once its step is behind.
CameOut ==
    /\ verify.status["references"] = "none" => verify.pc \in Early
    /\ verify.status["zero"] = "none" => verify.pc \in Early \cup {"balance"}
    /\ verify.status["coverage"] = "none" =>
          verify.pc \in Early \cup {"balance", "coverage window", "coverage"}
    /\ verify.status["totals"] = "none" =>
          verify.pc \in Early \cup {"balance", "coverage window", "coverage",
                                    "totals window", "totals"}
    /\ verify.status["blobs"] = "none" => verify.pc # "hashing"
    /\ verify.status["blobs"] = "none" /\ verify.pc = "reported" => ~verify.hash

LEMMA TypesGiveTypeOK == Types /\ CameOut => TypeOK
  BY DEF Types, CameOut, TypeOK, Checks, Early

LEMMA VerifyFields ==
    ASSUME Types
    PROVE  /\ verify \in Verification /\ verify.pc \in Steps
           /\ verify.window \in Windows \cup {NoWindow} /\ verify.hash \in BOOLEAN
           /\ verify.urls \subseteq Rec \cup Att
           /\ verify.entries \in Balances \cup {NoBalance}
           /\ verify.from \in Int /\ verify.to \in Int /\ verify.left \subseteq Att
           /\ verify.status \in [Checks -> Statuses]
  BY DEF Types, Verification

\* What a step of the command makes of the fields.
LEMMA Built ==
    ASSUME NEW pc \in Steps, NEW window \in Windows \cup {NoWindow}, NEW hash \in BOOLEAN,
           NEW urls \in SUBSET (Rec \cup Att), NEW entries \in Balances \cup {NoBalance},
           NEW from \in Int, NEW to \in Int, NEW left \in SUBSET Att,
           NEW status \in [Checks -> Statuses]
    PROVE  [pc |-> pc, window |-> window, hash |-> hash, urls |-> urls,
            entries |-> entries, from |-> from, to |-> to, left |-> left,
            status |-> status] \in Verification
  BY DEF Verification

LEMMA NoVerifyType == NoVerify \in Verification
<1>1. [c \in Checks |-> "none"] \in [Checks -> Statuses]
  BY DEF Statuses
<1> QED
  BY <1>1 DEF NoVerify, Steps, Verification

LEMMA WindowsTyped ==
    /\ \A w \in Windows \cup {NoWindow} : w.from \in Int /\ w.to \in Int
    /\ \A b \in Balances \cup {NoBalance} : b.from \in Int /\ b.to \in Int
  BY VerifyAssumption DEF VerifyAssumption, Snapshot, NoWindow, NoBalance

LEMMA WrongType == Types => Wrong \in Wrongs
  BY DEF Types, Wrong, Wrongs, Dangling, Damaged, Uncovered

----------------------------------------------------------------------------
(* What stands.                                                            *)

\* What is on record as standing is wrong now.
StandingInv ==
    /\ standing.refs \subseteq Dangling(Live)
    /\ standing.files \subseteq stored \ intact
    /\ standing.codes \subseteq Uncovered(Live)

\* Between its two statements checkReferences has the one end of a standing
\* reference among the URLs it read and not the other; then it has failed.
ReferencesInv ==
    /\ verify.pc \in {"attachments", "walk"} =>
          \A e \in standing.refs : e[1] \in verify.urls /\ e[2] \notin verify.urls
    /\ verify.pc \notin Early /\ verify.status["references"] # "fail" =>
          standing.refs = {}

\* A standing file is still to be hashed, or was found.
BlobsInv ==
    /\ verify.pc = "hashing" /\ verify.status["blobs"] # "fail" =>
          standing.files \subseteq verify.left
    /\ verify.pc = "reported" /\ verify.hash /\ verify.status["blobs"] # "fail" =>
          standing.files = {}

CoverageInv ==
    /\ verify.status["coverage"] = "pass" =>
          /\ verify.pc \notin Early \cup {"balance", "coverage window", "coverage"}
          /\ \A c \in standing.codes \cap verify.entries.codes :
                verify.entries.total[c] = 0

GapInv ==
    Types /\ CameOut /\ StandingInv /\ ReferencesInv /\ BlobsInv /\ CoverageInv

LEMMA GapInvSafe == GapInv => NoStandingGap
  BY DEF GapInv, ReferencesInv, BlobsInv, CoverageInv, NoStandingGap, Reported, Early

LEMMA InitGap == Init => GapInv
<1> SUFFICES ASSUME Init PROVE GapInv
  OBVIOUS
<1>1. Types
  BY NoVerifyType DEF Init, Types, Wrongs
<1>2. /\ verify.pc = "out" /\ verify.status = [c \in Checks |-> "none"]
      /\ standing.refs = {} /\ standing.files = {} /\ standing.codes = {}
  BY DEF Init, NoVerify
<1>3. CameOut
  BY <1>2 DEF CameOut, Early, Checks
<1>4. StandingInv /\ ReferencesInv /\ BlobsInv
  BY <1>2 DEF StandingInv, ReferencesInv, BlobsInv, Early
<1>5. CoverageInv
  BY <1>2 DEF CoverageInv, Checks
<1> QED
  BY <1>1, <1>3, <1>4, <1>5 DEF GapInv

\* A change of the archive: only what stands may shrink.
LEMMA PullGap ==
    ASSUME GapInv, Pull
    PROVE  GapInv'
<1>1. Commit
  BY DEF Pull, ArchiveRecord, SweepRecord, StoreAttachment, LoseFile, SnapshotBalance
<1>2. /\ row' \in [Rec -> {"absent", "live", "deleted"}]
      /\ stored' \subseteq Att /\ intact' \subseteq Att
      /\ balance' \in Balances \cup {NoBalance}
  BY DEF Pull, ArchiveRecord, SweepRecord, StoreAttachment, LoseFile, SnapshotBalance,
         GapInv, Types
<1>3. /\ standing'.refs = standing.refs \cap Dangling(Live')
      /\ standing'.files = standing.files \cap (stored' \ intact')
      /\ standing'.codes = standing.codes \cap Uncovered(Live')
      /\ standing' \in Wrongs
  <2>1. /\ standing' = [refs  |-> standing.refs \cap Wrong.refs',
                        files |-> standing.files \cap Wrong.files',
                        codes |-> standing.codes \cap Wrong.codes']
    BY <1>1 DEF Commit
  <2>2. /\ Wrong.refs' = Dangling(Live') /\ Wrong.files' = stored' \ intact'
        /\ Wrong.codes' = Uncovered(Live')
    BY DEF Wrong, Damaged, Dangling, Uncovered, Live
  <2> QED
    BY <2>1, <2>2 DEF GapInv, Types, Wrongs
<1>4. verify' = verify /\ commits' \in Nat /\ faults' \in Nat
  BY <1>1 DEF Commit, GapInv, Types
<1>5. Types'
  BY <1>2, <1>3, <1>4 DEF GapInv, Types
<1>6. CameOut'
  BY <1>4 DEF GapInv, CameOut
<1>7. StandingInv'
  BY <1>3 DEF StandingInv, Dangling, Uncovered, Live
<1>8. ReferencesInv' /\ BlobsInv' /\ CoverageInv'
  BY <1>3, <1>4 DEF GapInv, ReferencesInv, BlobsInv, CoverageInv
<1> QED
  BY <1>5, <1>6, <1>7, <1>8 DEF GapInv

----------------------------------------------------------------------------
(* The steps of a verification, one lemma for each check.                  *)

\* What a step that leaves the archive alone still has to show.
LEMMA OwnStep ==
    ASSUME GapInv, UNCHANGED <<archiveVars, standing>>, faults' \in Nat, commits' \in Nat,
           verify' \in Verification, CameOut', ReferencesInv', BlobsInv', CoverageInv'
    PROVE  GapInv'
<1>1. Types' /\ StandingInv'
  BY DEF GapInv, Types, archiveVars, StandingInv, Dangling, Uncovered, Live
<1> QED
  BY <1>1 DEF GapInv

LEMMA BeginGap ==
    ASSUME GapInv, NEW w \in Windows \cup {NoWindow}, NEW hash \in BOOLEAN, Begin(w, hash)
    PROVE  GapInv'
<1>1. /\ verify'.pc = "urls" /\ verify'.status = [c \in Checks |-> "none"]
      /\ verify' \in Verification
  BY NoVerifyType DEF Begin, NoVerify, Verification, Steps
<1>2. /\ standing' = Wrong /\ UNCHANGED archiveVars /\ faults' = faults
      /\ commits' = commits
  BY DEF Begin
<1>3. Types'
  BY <1>1, <1>2, WrongType DEF GapInv, Types, archiveVars
<1>4. CameOut' /\ ReferencesInv' /\ BlobsInv' /\ CoverageInv'
  BY <1>1 DEF CameOut, ReferencesInv, BlobsInv, CoverageInv, Early, Checks
<1>5. StandingInv'
  BY <1>2 DEF StandingInv, Wrong, Damaged, Dangling, Uncovered, Live, archiveVars
<1> QED
  BY <1>3, <1>4, <1>5 DEF GapInv

\* The verification is over, or given up.
LEMMA OverGap ==
    ASSUME GapInv, End \/ Abandon
    PROVE  GapInv'
<1>1. verify' = NoVerify /\ UNCHANGED <<archiveVars, standing, commits>> /\ faults' \in Nat
  BY DEF End, Abandon, Does, GapInv, Types
<1>2. verify'.pc = "out" /\ verify'.status = [c \in Checks |-> "none"]
  BY <1>1 DEF NoVerify
<1>3. CameOut' /\ ReferencesInv' /\ BlobsInv' /\ CoverageInv'
  BY <1>2 DEF CameOut, ReferencesInv, BlobsInv, CoverageInv, Early, Checks
<1> QED
  BY <1>1, <1>3, NoVerifyType, OwnStep DEF GapInv, Types

LEMMA ReferencesGap ==
    ASSUME GapInv, ReadURLs \/ ReadAttachments \/ CheckReferences
    PROVE  GapInv'
<1>1. /\ UNCHANGED <<archiveVars, standing, commits, faults>>
      /\ verify'.pc = CASE verify.pc = "urls" -> "attachments"
                        [] verify.pc = "attachments" -> "walk"
                        [] verify.pc = "walk" -> "balance"
      /\ verify.pc \in {"urls", "attachments", "walk"}
      /\ verify'.hash = verify.hash /\ verify'.entries = verify.entries
      /\ \A c \in Checks \ {"references"} : verify'.status[c] = verify.status[c]
  BY VerifyFields DEF ReadURLs, ReadAttachments, CheckReferences, Does, GapInv,
                      Verification
<1>2. verify' \in Verification
  <2>1. CASE ReadURLs
    BY <2>1, VerifyFields DEF ReadURLs, Does, ArchivedURLs, Live, GapInv, Verification, Steps
  <2>2. CASE ReadAttachments
    BY <2>2, VerifyFields DEF ReadAttachments, Does, GapInv, Types, Verification, Steps
  <2>3. CASE CheckReferences
    <3>1. PICK out \in Statuses :
            verify' = [verify EXCEPT !.pc = "balance", !.status["references"] = out]
      BY <2>3 DEF CheckReferences, Does, Statuses
    <3>2. [verify.status EXCEPT !["references"] = out] \in [Checks -> Statuses]
      BY VerifyFields DEF GapInv
    <3> QED
      BY <3>1, <3>2, VerifyFields DEF GapInv, Verification, Steps
  <2> QED
    BY <2>1, <2>2, <2>3
<1>3. CASE verify.pc = "urls"
  <2>1. verify'.urls = Live /\ verify'.status = verify.status /\ verify'.pc = "attachments"
    BY <1>3, VerifyFields
    DEF ReadURLs, ReadAttachments, CheckReferences, Does, ArchivedURLs, GapInv, Verification
  <2>2. \A e \in standing.refs : e[1] \in Live /\ e[2] \notin Live
    BY DEF GapInv, StandingInv, Dangling
  <2>3. ReferencesInv'
    BY <1>1, <2>1, <2>2 DEF ReferencesInv, Early
  <2> QED
    BY <1>1, <1>2, <1>3, <2>1, <2>3, OwnStep
    DEF GapInv, CameOut, BlobsInv, CoverageInv, Early, Types
<1>4. CASE verify.pc = "attachments"
  <2>1. /\ verify'.urls = verify.urls \cup stored /\ verify'.status = verify.status
        /\ verify'.pc = "walk"
    BY <1>4, VerifyFields
    DEF ReadURLs, ReadAttachments, CheckReferences, Does, GapInv, Verification
  <2>2. \A e \in standing.refs : e[2] \in Rec
    BY DEF GapInv, StandingInv, Dangling
  <2>3. stored \cap Rec = {}
    BY VerifyAssumption DEF VerifyAssumption, GapInv, Types
  <2>4. ReferencesInv'
    BY <1>1, <1>4, <2>1, <2>2, <2>3 DEF GapInv, ReferencesInv, Early
  <2> QED
    BY <1>1, <1>2, <1>4, <2>1, <2>4, OwnStep
    DEF GapInv, CameOut, BlobsInv, CoverageInv, Early, Types
<1>5. CASE verify.pc = "walk"
  <2>1. /\ verify'.pc = "balance"
        /\ verify'.status["references"] =
              IF verify.urls = {} THEN "skipped"
              ELSE IF \E r \in Live : ~(Refs[r] \cap Rec \subseteq verify.urls)
              THEN "fail" ELSE "pass"
    <3>1. CheckReferences
      BY <1>5 DEF ReadURLs, ReadAttachments, Does
    <3>2. "references" \in Checks
      BY DEF Checks
    <3> QED
      BY <3>1, <3>2, VerifyFields DEF CheckReferences, Does, GapInv, Verification
  <2>2. \A e \in standing.refs : /\ e[1] \in Live /\ e[2] \in Refs[e[1]] \cap Rec
                                /\ e[1] \in verify.urls /\ e[2] \notin verify.urls
    BY <1>5 DEF GapInv, StandingInv, Dangling, ReferencesInv
  <2>3. ReferencesInv'
    BY <1>1, <2>1, <2>2 DEF ReferencesInv, Early
  <2>4. CameOut'
    BY <1>1, <1>5, <2>1 DEF GapInv, CameOut, Early, Checks
  <2>5. BlobsInv' /\ CoverageInv'
    BY <1>1, <1>5, <2>1 DEF GapInv, BlobsInv, CoverageInv, Early, Checks
  <2> QED
    BY <1>1, <1>2, <2>3, <2>4, <2>5, OwnStep DEF GapInv, Types
<1> QED
  BY <1>1, <1>3, <1>4, <1>5

\* One check comes out, or a window is read; nothing else changes.
LEMMA StatusSet ==
    ASSUME Types, NEW p \in Steps, NEW c \in Checks, NEW out \in Statuses,
           verify' = [verify EXCEPT !.pc = p, !.status[c] = out]
    PROVE  /\ verify' \in Verification /\ verify'.pc = p /\ verify'.hash = verify.hash
           /\ verify'.urls = verify.urls /\ verify'.left = verify.left
           /\ verify'.entries = verify.entries /\ verify'.status[c] = out
           /\ \A d \in Checks \ {c} : verify'.status[d] = verify.status[d]
<1>1. [verify.status EXCEPT ![c] = out] \in [Checks -> Statuses]
  BY VerifyFields
<1> QED
  BY <1>1, VerifyFields DEF Verification

LEMMA WindowSet ==
    ASSUME Types, NEW p \in Steps, NEW from \in Int, NEW to \in Int,
           verify' = [verify EXCEPT !.pc = p, !.from = from, !.to = to]
    PROVE  /\ verify' \in Verification /\ verify'.pc = p
           /\ verify'.hash = verify.hash /\ verify'.status = verify.status
           /\ verify'.entries = verify.entries
  BY VerifyFields DEF Verification

LEMMA ZeroGap ==
    ASSUME GapInv, CheckZero
    PROVE  GapInv'
<1>1. /\ verify.pc = "balance" /\ UNCHANGED <<archiveVars, standing, commits, faults>>
  BY DEF CheckZero, Does
<1>2. PICK out \in Statuses \ {"none"} :
         \/ verify' = [verify EXCEPT !.pc = "coverage window", !.entries = balance,
                                     !.status["zero"] = out]
         \/ verify' = [verify EXCEPT !.pc = "coverage window", !.status["zero"] = out]
  <2>1. \A b : Problem(b) \in Statuses \ {"none"}
    BY DEF Problem, Statuses
  <2>2. \A n : (IF n = 0 THEN "pass" ELSE "fail") \in Statuses \ {"none"}
    BY DEF Statuses
  <2> QED
    BY <2>1, <2>2 DEF CheckZero, Does
<1>3. [verify.status EXCEPT !["zero"] = out] \in [Checks -> Statuses]
  BY VerifyFields DEF GapInv
<1>4. /\ verify' \in Verification /\ verify'.pc = "coverage window"
      /\ verify'.hash = verify.hash /\ verify'.status["zero"] = out
      /\ \A d \in Checks \ {"zero"} : verify'.status[d] = verify.status[d]
  <2>1. balance \in Balances \cup {NoBalance} /\ "coverage window" \in Steps
    BY DEF GapInv, Types, Steps
  <2>2. CASE verify' = [verify EXCEPT !.pc = "coverage window", !.entries = balance,
                                      !.status["zero"] = out]
    BY <1>3, <2>1, <2>2, VerifyFields DEF GapInv, Verification, Checks
  <2>3. CASE verify' = [verify EXCEPT !.pc = "coverage window", !.status["zero"] = out]
    BY <1>3, <2>1, <2>3, VerifyFields DEF GapInv, Verification, Checks
  <2> QED
    BY <1>2, <2>2, <2>3
<1>5. CameOut' /\ ReferencesInv' /\ BlobsInv' /\ CoverageInv'
  BY <1>1, <1>4
  DEF GapInv, CameOut, ReferencesInv, BlobsInv, CoverageInv, Early, Checks
<1> QED
  BY <1>1, <1>4, <1>5, OwnStep DEF GapInv, Types

\* The balance is not read for the check of its own.
LEMMA UnreadGap ==
    ASSUME GapInv, BalanceUnread
    PROVE  GapInv'
<1>1. UNCHANGED <<archiveVars, standing, commits>> /\ faults' \in Nat
  <2>1. UNCHANGED <<archiveVars, standing, commits>>
    BY Zenon DEF BalanceUnread
  <2>2. faults' = faults + 1
    BY Zenon DEF BalanceUnread
  <2> QED
    BY <2>1, <2>2 DEF GapInv, Types
<1>2. CASE /\ verify.pc = "balance"
           /\ verify' = [verify EXCEPT !.pc = "coverage window", !.status["zero"] = "skipped"]
  <2>1. /\ verify' \in Verification /\ verify'.pc = "coverage window"
        /\ verify'.hash = verify.hash /\ verify'.status["zero"] = "skipped"
        /\ \A d \in Checks \ {"zero"} : verify'.status[d] = verify.status[d]
    BY <1>2, StatusSet DEF GapInv, Checks, Steps, Statuses
  <2>2. CameOut' /\ ReferencesInv' /\ BlobsInv' /\ CoverageInv'
    BY <1>1, <1>2, <2>1
    DEF GapInv, CameOut, ReferencesInv, BlobsInv, CoverageInv, Early, Checks
  <2> QED
    BY <1>1, <2>1, <2>2, OwnStep DEF GapInv, Types
<1>3. ASSUME NEW p \in DOMAIN After, verify.pc = p,
             verify' = [verify EXCEPT !.pc = CheckOf[p], !.from = 0, !.to = 0]
      PROVE  GapInv'
  <2>1. /\ p \in {"coverage window", "totals window"}
        /\ CheckOf[p] = IF p = "coverage window" THEN "coverage" ELSE "totals"
        /\ CheckOf[p] \in Steps
    BY DEF After, CheckOf, Steps
  <2>2. /\ verify' \in Verification /\ verify'.pc = CheckOf[p]
        /\ verify'.hash = verify.hash /\ verify'.status = verify.status
        /\ verify'.entries = verify.entries
    <3>1. PICK zero \in Int : zero = 0
      BY SMT
    <3>2. verify' = [verify EXCEPT !.pc = CheckOf[p], !.from = zero, !.to = zero]
      BY <1>3, <3>1, Zenon
    <3> QED
      BY <2>1, <3>2, WindowSet DEF GapInv
  <2>3. CameOut' /\ ReferencesInv' /\ BlobsInv' /\ CoverageInv'
    BY <1>1, <1>3, <2>1, <2>2
    DEF GapInv, CameOut, ReferencesInv, BlobsInv, CoverageInv, Early, Checks
  <2> QED
    BY <1>1, <2>2, <2>3, OwnStep DEF GapInv, Types
<1> QED
  BY <1>2, <1>3 DEF BalanceUnread

\* The window of localTotals, or the transactions in it, are read or are not.
LEMMA WindowGap ==
    ASSUME GapInv, NEW p \in DOMAIN After, ReadWindow(p) \/ TotalsFail(p)
    PROVE  GapInv'
<1>1. UNCHANGED <<archiveVars, standing, commits>> /\ faults' \in Nat
  BY DEF ReadWindow, TotalsFail, Does, GapInv, Types
<1>2. /\ p \in {"coverage window", "totals window"}
      /\ CheckOf[p] = IF p = "coverage window" THEN "coverage" ELSE "totals"
      /\ After[p] = IF p = "coverage window" THEN "totals window" ELSE "stored"
  BY DEF After, CheckOf
<1>3. CASE verify' = [verify EXCEPT !.pc = After[p], !.status[CheckOf[p]] = "skipped"]
  <2>1. After[p] \in Steps /\ CheckOf[p] \in Checks /\ "skipped" \in Statuses
    BY <1>2 DEF Steps, Checks, Statuses
  <2>2. /\ verify' \in Verification /\ verify'.pc = After[p] /\ verify'.hash = verify.hash
        /\ verify'.status[CheckOf[p]] = "skipped"
        /\ verify'.entries = verify.entries
        /\ \A d \in Checks \ {CheckOf[p]} : verify'.status[d] = verify.status[d]
    BY <1>3, <2>1, StatusSet DEF GapInv
  <2>3. verify.pc \in {p, CheckOf[p]}
    BY DEF ReadWindow, TotalsFail, Does
  <2>4. CASE p = "coverage window"
    <3>1. CameOut' /\ ReferencesInv' /\ BlobsInv' /\ CoverageInv'
      BY <1>1, <1>2, <2>2, <2>3, <2>4
      DEF GapInv, CameOut, ReferencesInv, BlobsInv, CoverageInv, Early, Checks
    <3> QED
      BY <1>1, <2>2, <3>1, OwnStep DEF GapInv, Types
  <2>5. CASE p = "totals window"
    <3>1. CameOut' /\ ReferencesInv' /\ BlobsInv' /\ CoverageInv'
      BY <1>1, <1>2, <2>2, <2>3, <2>5
      DEF GapInv, CameOut, ReferencesInv, BlobsInv, CoverageInv, Early, Checks
    <3> QED
      BY <1>1, <2>2, <3>1, OwnStep DEF GapInv, Types
  <2> QED
    BY <1>2, <2>4, <2>5
<1>4. CASE verify' = [Bounds(verify) EXCEPT !.pc = CheckOf[p]] /\ verify.pc = p
  <2>1. PICK from \in Int, to \in Int :
           Bounds(verify) = [verify EXCEPT !.from = from, !.to = to]
    BY WindowsTyped, VerifyFields DEF Bounds, GapInv, Types
  <2>2. /\ verify' \in Verification /\ verify'.pc = CheckOf[p]
        /\ verify'.hash = verify.hash /\ verify'.status = verify.status
        /\ verify'.entries = verify.entries
    BY <1>2, <1>4, <2>1, VerifyFields DEF GapInv, Verification, Steps
  <2>3. CameOut' /\ ReferencesInv' /\ BlobsInv' /\ CoverageInv'
    BY <1>1, <1>2, <1>4, <2>2
    DEF GapInv, CameOut, ReferencesInv, BlobsInv, CoverageInv, Early, Checks
  <2> QED
    BY <1>1, <2>2, <2>3, OwnStep DEF GapInv, Types
<1> QED
  BY <1>3, <1>4 DEF ReadWindow, TotalsFail, Does

LEMMA CoverageGap ==
    ASSUME GapInv, CheckCoverage
    PROVE  GapInv'
<1>1. verify.pc = "coverage" /\ UNCHANGED <<archiveVars, standing, commits, faults>>
  BY DEF CheckCoverage, Does
<1>2. PICK out \in Statuses \ {"none"} :
        /\ verify' = [verify EXCEPT !.pc = "totals window", !.status["coverage"] = out]
        /\ out = "pass" => \A c \in verify.entries.codes :
                              verify.entries.total[c] = 0 \/ c \in Mentioned
  <2> DEFINE covered == \A c \in verify.entries.codes :
                            verify.entries.total[c] = 0 \/ c \in Mentioned
             found == IF InWindow = {} THEN "skipped"
                      ELSE IF covered THEN "pass" ELSE "fail"
  <2>1. found \in Statuses \ {"none"} /\ (found = "pass" => covered)
    BY Zenon DEF Statuses
  <2>2. verify' = [verify EXCEPT !.pc = "totals window", !.status["coverage"] = found]
    BY DEF CheckCoverage, Does
  <2> QED
    BY <2>1, <2>2, Zenon
<1>3. /\ verify' \in Verification /\ verify'.pc = "totals window"
      /\ verify'.hash = verify.hash /\ verify'.status["coverage"] = out
      /\ verify'.entries = verify.entries
      /\ \A d \in Checks \ {"coverage"} : verify'.status[d] = verify.status[d]
  BY <1>2, StatusSet DEF GapInv, Checks, Steps
<1>4. \A c \in standing.codes : c \in Codes /\ c \notin Mentioned
  BY DEF GapInv, StandingInv, Uncovered, Mentioned, InWindow
<1>5. CoverageInv'
  BY <1>1, <1>2, <1>3, <1>4 DEF CoverageInv, Early
<1>6. CameOut' /\ ReferencesInv' /\ BlobsInv'
  BY <1>1, <1>3 DEF GapInv, CameOut, ReferencesInv, BlobsInv, Early, Checks
<1> QED
  BY <1>1, <1>3, <1>5, <1>6, OwnStep DEF GapInv, Types

LEMMA TotalsGap ==
    ASSUME GapInv, CheckTotals
    PROVE  GapInv'
<1>1. verify.pc = "totals" /\ UNCHANGED <<archiveVars, standing, commits, faults>>
  BY DEF CheckTotals, Does
<1>2. PICK out \in Statuses \ {"none"} :
        verify' = [verify EXCEPT !.pc = "stored", !.status["totals"] = out]
  <2> DEFINE agree == \A c \in Mentioned \cap verify.entries.codes :
                         LocalTotal(c) = verify.entries.total[c]
             found == IF InWindow = {} THEN "skipped"
                      ELSE IF agree THEN "pass" ELSE "advisory"
  <2>1. found \in Statuses \ {"none"}
    BY Zenon DEF Statuses
  <2>2. verify' = [verify EXCEPT !.pc = "stored", !.status["totals"] = found]
    BY DEF CheckTotals, Does
  <2> QED
    BY <2>1, <2>2, Zenon
<1>3. /\ verify' \in Verification /\ verify'.pc = "stored"
      /\ verify'.hash = verify.hash /\ verify'.status["totals"] = out
      /\ verify'.entries = verify.entries
      /\ \A d \in Checks \ {"totals"} : verify'.status[d] = verify.status[d]
  BY <1>2, StatusSet DEF GapInv, Checks, Steps
<1>4. CameOut' /\ ReferencesInv' /\ BlobsInv' /\ CoverageInv'
  BY <1>1, <1>3
  DEF GapInv, CameOut, ReferencesInv, BlobsInv, CoverageInv, Early, Checks
<1> QED
  BY <1>1, <1>3, <1>4, OwnStep DEF GapInv, Types

LEMMA StoredGap ==
    ASSUME GapInv, ReadStored
    PROVE  GapInv'
<1>1. verify.pc = "stored" /\ UNCHANGED <<archiveVars, standing, commits, faults>>
  BY DEF ReadStored, Does
<1>2. standing.files \subseteq stored /\ stored \subseteq Att
  BY DEF GapInv, StandingInv, Types
<1>3. CASE ~verify.hash
  <2>1. verify' = [verify EXCEPT !.pc = "reported"]
    BY <1>3 DEF ReadStored, Does
  <2>2. /\ verify' \in Verification /\ verify'.pc = "reported"
        /\ verify'.hash = verify.hash /\ verify'.status = verify.status
        /\ verify'.entries = verify.entries
    BY <2>1, VerifyFields DEF GapInv, Verification, Steps
  <2>3. CameOut' /\ ReferencesInv' /\ BlobsInv' /\ CoverageInv'
    BY <1>1, <1>3, <2>2
    DEF GapInv, CameOut, ReferencesInv, BlobsInv, CoverageInv, Early, Checks
  <2> QED
    BY <1>1, <2>2, <2>3, OwnStep DEF GapInv, Types
<1>4. CASE verify.hash /\ stored = {}
  <2>1. verify' = [verify EXCEPT !.pc = "reported", !.status["blobs"] = "skipped"]
    BY <1>4 DEF ReadStored, Does
  <2>2. /\ verify' \in Verification /\ verify'.pc = "reported"
        /\ verify'.hash = verify.hash /\ verify'.status["blobs"] = "skipped"
        /\ verify'.entries = verify.entries
        /\ \A d \in Checks \ {"blobs"} : verify'.status[d] = verify.status[d]
    BY <2>1, StatusSet DEF GapInv, Checks, Steps, Statuses
  <2>3. standing.files = {}
    BY <1>2, <1>4
  <2>4. CameOut' /\ ReferencesInv' /\ BlobsInv' /\ CoverageInv'
    BY <1>1, <2>2, <2>3
    DEF GapInv, CameOut, ReferencesInv, BlobsInv, CoverageInv, Early, Checks
  <2> QED
    BY <1>1, <2>2, <2>4, OwnStep DEF GapInv, Types
<1>5. CASE verify.hash /\ stored # {}
  <2>1. verify' = [verify EXCEPT !.pc = "hashing", !.left = stored,
                                 !.status["blobs"] = "pass"]
    BY <1>5 DEF ReadStored, Does
  <2>2. [verify.status EXCEPT !["blobs"] = "pass"] \in [Checks -> Statuses]
    BY VerifyFields DEF GapInv, Statuses
  <2>3. /\ verify' \in Verification /\ verify'.pc = "hashing"
        /\ verify'.hash = verify.hash /\ verify'.status["blobs"] = "pass"
        /\ verify'.entries = verify.entries /\ verify'.left = stored
        /\ \A d \in Checks \ {"blobs"} : verify'.status[d] = verify.status[d]
    BY <1>2, <2>1, <2>2, VerifyFields DEF GapInv, Verification, Checks, Steps
  <2>4. CameOut' /\ ReferencesInv' /\ BlobsInv' /\ CoverageInv'
    BY <1>1, <1>2, <2>3
    DEF GapInv, CameOut, ReferencesInv, BlobsInv, CoverageInv, Early, Checks
  <2> QED
    BY <1>1, <2>3, <2>4, OwnStep DEF GapInv, Types
<1> QED
  BY <1>3, <1>4, <1>5

LEMMA HashGap ==
    ASSUME GapInv, Hashed \/ \E a \in Att : Rehash(a)
    PROVE  GapInv'
<1>1. verify.pc = "hashing" /\ UNCHANGED <<archiveVars, standing, commits, faults>>
  BY DEF Hashed, Rehash, Does
<1>2. CASE Hashed
  <2>1. verify' = [verify EXCEPT !.pc = "reported"] /\ verify.left = {}
    BY <1>2 DEF Hashed, Does
  <2>2. /\ verify' \in Verification /\ verify'.pc = "reported"
        /\ verify'.hash = verify.hash /\ verify'.status = verify.status
        /\ verify'.entries = verify.entries
    BY <2>1, VerifyFields DEF GapInv, Verification, Steps
  <2>3. CameOut' /\ ReferencesInv' /\ BlobsInv' /\ CoverageInv'
    BY <1>1, <2>1, <2>2
    DEF GapInv, CameOut, ReferencesInv, BlobsInv, CoverageInv, Early, Checks
  <2> QED
    BY <1>1, <2>2, <2>3, OwnStep DEF GapInv, Types
<1>3. ASSUME NEW a \in Att, Rehash(a)
      PROVE  GapInv'
  <2>1. PICK out \in Statuses :
          /\ verify' = [verify EXCEPT !.left = @ \ {a}, !.status["blobs"] = out]
          /\ out = IF a \in intact THEN verify.status["blobs"] ELSE "fail"
    BY <1>3, VerifyFields DEF Rehash, Does, Statuses, Checks, GapInv
  <2>2. [verify.status EXCEPT !["blobs"] = out] \in [Checks -> Statuses]
    BY VerifyFields DEF GapInv
  <2>3. /\ verify' \in Verification /\ verify'.pc = verify.pc
        /\ verify'.hash = verify.hash /\ verify'.status["blobs"] = out
        /\ verify'.entries = verify.entries /\ verify'.left = verify.left \ {a}
        /\ \A d \in Checks \ {"blobs"} : verify'.status[d] = verify.status[d]
    BY <2>1, <2>2, VerifyFields DEF GapInv, Verification, Checks
  <2>4. BlobsInv'
    BY <1>1, <2>1, <2>3 DEF GapInv, StandingInv, BlobsInv
  <2> out # "none"
    BY <1>1, <2>1 DEF GapInv, CameOut
  <2>5. CameOut' /\ ReferencesInv' /\ CoverageInv'
    BY <1>1, <2>1, <2>3
    DEF GapInv, CameOut, ReferencesInv, CoverageInv, Early, Checks
  <2> QED
    BY <1>1, <2>3, <2>4, <2>5, OwnStep DEF GapInv, Types
<1> QED
  BY <1>2, <1>3

LEMMA GapStep ==
    ASSUME GapInv, [Next]_vars
    PROVE  GapInv'
<1>1. CASE UNCHANGED vars
  BY <1>1 DEF vars, archiveVars, GapInv, Types, CameOut, StandingInv, ReferencesInv,
              BlobsInv, CoverageInv, Dangling, Uncovered, Live
<1> QED
  BY <1>1, PullGap, BeginGap, OverGap, ReferencesGap, ZeroGap, UnreadGap, WindowGap,
     CoverageGap, TotalsGap, StoredGap, HashGap DEF Next

LEMMA GapInvariant == Spec => []GapInv
<1>1. GapInv /\ [Next]_vars => GapInv'
  BY GapStep
<1> QED
  BY InitGap, <1>1, PTL DEF Spec

\* The archive and a verification keep their types, and every check that was to
\* run has come out when it reports, whatever is committed in between.
THEOREM TypeCorrect == Spec => []TypeOK
<1>1. GapInv => TypeOK
  BY TypesGiveTypeOK DEF GapInv
<1> QED
  BY GapInvariant, <1>1, PTL

\* No verification passes over what was wrong from its beginning to its end,
\* however many records, files and codes there are and whatever a pull commits
\* between its statements.
THEOREM GapsAreFound == Spec => []NoStandingGap
  BY GapInvariant, GapInvSafe, PTL
=============================================================================
