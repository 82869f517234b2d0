---------------------------- MODULE BlobsProofs ----------------------------
(***************************************************************************)
(* Blobs, for any attachments, workers, limits and numbers of passes: the  *)
(* types, what a stored attachment and a clean exit mean, and that the     *)
(* attachment pass implements Vault.                                       *)
(***************************************************************************)
EXTENDS Blobs, TLAPS

----------------------------------------------------------------------------
(* Types.                                                                  *)

\* A row that a failure or a download leaves behind.
LEMMA RowsWritten ==
    ASSUME MaxAttempts \in Nat, NEW r \in Row, NEW sha \in Digest
    PROVE  FailedRow(r) \in Row /\ LinkedRow(r, sha) \in Row
<1> DEFINE failed == [r EXCEPT !.state = "failed"]
           stored == [r EXCEPT !.state = "stored"]
<1>1. failed \in Row /\ stored \in Row
  BY DEF Row
<1>2. [failed EXCEPT !.attempts = CountUp(failed.attempts)] \in Row
  <2> HIDE DEF failed
  <2>1. CountUp(failed.attempts) \in 0..MaxAttempts
    BY <1>1 DEF CountUp, Row
  <2> QED
    BY <1>1, <2>1 DEF Row
<1>3. [stored EXCEPT !.sha = sha] \in Row
  <2> HIDE DEF stored
  <2> QED
    BY <1>1 DEF Row
<1>4. failed.attempts = r.attempts
  BY DEF Row
<1> QED
  BY <1>2, <1>3, <1>4 DEF FailedRow, LinkedRow

\* An archive before its first pull.
LEMMA InitTypes == Init => TypeOK
  BY BlobsAssumption DEF Init, TypeOK, NoRow, NoPass, Row, Pass, Stage, NoDigest

\* Every variable of the pass keeps its type.
THEOREM TypeCorrect == Spec => []TypeOK
<1>1. Init => TypeOK
  BY InitTypes
<1>2. TypeOK /\ [Next]_vars => TypeOK'
  <2> SUFFICES ASSUME TypeOK, [Next]_vars PROVE TypeOK'
    OBVIOUS
  <2> USE BlobsAssumption DEF TypeOK, Row, Pass, Stage, Working
  <2>1. ASSUME NEW seen \in SUBSET Attachments, Sight(seen) PROVE TypeOK'
    <3>1. \A r \in Row : Sighted(r) \in Row
      BY DEF Sighted
    <3>2. row' \in [Attachments -> Row]
      <4> HIDE DEF Row
      <4> QED
        BY <2>1, <3>1 DEF Sight
    <3> QED
      BY <2>1, <3>2 DEF Sight
  <2>2. ASSUME NEW limit \in Limits, NEW timed \in BOOLEAN, BeginPass(limit, timed)
        PROVE TypeOK'
    <3>1. PICK batch \in SUBSET Attachments :
            /\ pass' = [NoPass EXCEPT !.running = TRUE, !.timed = timed, !.batch = batch]
            /\ job' = [a \in Attachments |-> IF a \in batch THEN "queued" ELSE "idle"]
      BY <2>2 DEF BeginPass, Batch, Outstanding, Known
    <3>2. pass' = [running |-> TRUE, timed |-> timed, stop |-> "no", batch |-> batch,
                   failed |-> FALSE]
      BY <3>1 DEF NoPass
    <3>3. pass' \in Pass
      BY <3>2
    <3> QED
      BY <2>2, <3>1, <3>3 DEF BeginPass
  <2>3. CASE EndPass
    <3>1. row' = row /\ blobs' = blobs /\ files' = files
      BY <2>3 DEF EndPass
    <3>2. pass' \in Pass /\ job' \in [Attachments -> Stage]
      BY <2>3 DEF EndPass
    <3>3. code' \in {"ok", "partial", "config"}
      <4>1. CASE pass.failed
        BY <2>3, <4>1 DEF EndPass
      <4>2. CASE ~pass.failed
        BY <2>3, <4>2 DEF EndPass
      <4> QED
        BY <4>1, <4>2
    <3>4. faults' \in 0..MaxFaults
      BY <2>3 DEF EndPass, Fails, Fault
    <3> QED
      BY <3>1, <3>2, <3>3, <3>4
  <2>4. ASSUME NEW a \in Attachments, Offer(a) PROVE TypeOK'
    BY <2>4 DEF Offer
  <2>5. ASSUME NEW a \in Attachments, Take(a) \/ Resolve(a) \/ Request(a) PROVE TypeOK'
    BY <2>5 DEF Take, Resolve, Request
  <2>6. ASSUME NEW a \in Attachments, Put(a) PROVE TypeOK'
    BY <2>6 DEF Put, Received, Digest
  <2>7. ASSUME NEW a \in Attachments, Breaks(a) PROVE TypeOK'
    BY <2>7 DEF Breaks, Fails, Fault
  <2>8. ASSUME NEW a \in Attachments, StoreBlob(a) PROVE TypeOK'
    <3>1. Content[a] \in Digest
      BY DEF Digest
    <3>2. LinkedRow(row[a], Content[a]) \in Row
      BY <3>1, RowsWritten
    <3> QED
      BY <2>8, <3>1, <3>2 DEF StoreBlob
  <2>9. ASSUME NEW a \in Attachments, StoreFails(a) PROVE TypeOK'
    <3>1. pass' \in Pass
      BY <2>9 DEF StoreFails
    <3> QED
      BY <2>9, <3>1 DEF StoreFails, Fails, Fault
  <2>10. ASSUME NEW a \in Attachments, RecordFailure(a) PROVE TypeOK'
    <3>1. FailedRow(row[a]) \in Row
      BY RowsWritten, Content[a] \in Digest DEF Digest
    <3>2. row' \in [Attachments -> Row] /\ faults' \in 0..MaxFaults
      BY <2>10, <3>1 DEF RecordFailure, Fails, Fault
    <3>3. pass' \in Pass
      BY <2>10 DEF RecordFailure
    <3> QED
      BY <2>10, <3>2, <3>3 DEF RecordFailure
  <2>11. ASSUME NEW a \in Attachments, Expire(a) PROVE TypeOK'
    BY <2>11 DEF Expire, Fault
  <2>12. CASE PassDeadline \/ Cancel \/ Crash
    <3>1. pass' \in Pass
      <4>1. CASE PassDeadline
        BY <4>1 DEF PassDeadline
      <4>2. CASE Cancel
        BY <4>2 DEF Cancel
      <4>3. CASE Crash
        BY <4>3 DEF Crash, NoPass
      <4> QED
        BY <2>12, <4>1, <4>2, <4>3
    <3>2. faults' \in 0..MaxFaults /\ UNCHANGED <<row, blobs, files, code>>
      BY <2>12 DEF PassDeadline, Cancel, Crash, Fault
    <3>3. job' \in [Attachments -> Stage]
      BY <2>12 DEF PassDeadline, Cancel, Crash
    <3> QED
      BY <3>1, <3>2, <3>3
  <2>13. CASE UNCHANGED vars
    BY <2>13 DEF vars
  <2> QED
    BY <2>1, <2>2, <2>3, <2>4, <2>5, <2>6, <2>7, <2>8, <2>9, <2>10, <2>11, <2>12,
       <2>13 DEF Next, Begins, JobStep
<1> QED
  BY <1>1, <1>2, PTL DEF Spec

----------------------------------------------------------------------------
(* What is stored is held, and a clean exit means what it says.            *)

\* Put comes before StoreBlob, and a pass works on what is outstanding only.
PlacedIsHeld ==
    \A a \in Attachments :
        /\ job[a] = "placed" => Content[a] \in files
        /\ job[a] # "idle" => a \in Outstanding

\* An attachment a pass took on is stored, or in work, or its failure counted.
NoneDropped ==
    /\ code = "ok" => ~pass.running
    /\ pass.running /\ ~pass.failed =>
         \A a \in pass.batch : row[a].state = "stored" \/ job[a] # "idle"

IInv == TypeOK /\ StoredIsHeld /\ PlacedIsHeld /\ NoneDropped /\ OkMeansFetched

\* What the properties say of the states of the rows.
LEMMA OutstandingSays ==
    ASSUME NEW a \in Attachments
    PROVE  a \in Outstanding <=> row[a].state \notin {"none", "stored"}
  BY DEF Outstanding, Known

\* A pull only makes rows outstanding.
LEMMA SightInv ==
    ASSUME IInv, NEW seen \in SUBSET Attachments, Sight(seen)
    PROVE  StoredIsHeld' /\ PlacedIsHeld' /\ NoneDropped' /\ OkMeansFetched'
<1>1. ASSUME NEW a \in Attachments
      PROVE  /\ row'[a].state = "stored" <=> row[a].state = "stored"
             /\ row'[a].sha = row[a].sha
             /\ row[a].state # "none" => row'[a].state = row[a].state
  BY DEF IInv, TypeOK, Row, Sight, Sighted
<1>2. UNCHANGED <<blobs, files, job, pass, code>>
  BY DEF Sight
<1> QED
  BY <1>1, <1>2 DEF IInv, StoredIsHeld, PlacedIsHeld, NoneDropped, OkMeansFetched,
                    Outstanding, Known, TypeOK, Pass

\* A pass begins with outstanding attachments only, and without a code.
LEMMA BeginPassInv ==
    ASSUME IInv, NEW limit \in Limits, NEW timed \in BOOLEAN, BeginPass(limit, timed)
    PROVE  StoredIsHeld' /\ PlacedIsHeld' /\ NoneDropped' /\ OkMeansFetched'
<1>1. PICK batch \in SUBSET Outstanding :
        /\ pass' = [NoPass EXCEPT !.running = TRUE, !.timed = timed, !.batch = batch]
        /\ job' = [a \in Attachments |-> IF a \in batch THEN "queued" ELSE "idle"]
  BY DEF BeginPass, Batch
<1>2. pass'.batch = batch /\ batch \subseteq Attachments
  BY <1>1 DEF NoPass, Outstanding, Known
<1>3. code' = "none" /\ UNCHANGED <<row, blobs, files>>
  BY DEF BeginPass
<1> QED
  BY <1>1, <1>2, <1>3 DEF IInv, StoredIsHeld, PlacedIsHeld, NoneDropped, OkMeansFetched,
                          Outstanding, Known

\* A pass that was not stopped ends with nothing in hand.
LEMMA EndPassInv ==
    ASSUME IInv, EndPass
    PROVE  StoredIsHeld' /\ PlacedIsHeld' /\ NoneDropped' /\ OkMeansFetched'
<1>1. pass.stop = "no" => \A a \in Attachments : job[a] = "idle"
  BY DEF EndPass, In, IInv, TypeOK
<1>2. /\ ~pass'.running /\ pass'.batch = pass.batch /\ pass'.stop = pass.stop
      /\ code' = "ok" => ~pass.failed
      /\ job' = [a \in Attachments |-> "idle"]
      /\ pass.running /\ UNCHANGED <<row, blobs, files>>
  BY DEF EndPass, IInv, TypeOK, Pass
<1>3. pass.batch \subseteq Attachments
  BY DEF IInv, TypeOK, Pass
<1> QED
  BY <1>1, <1>2, <1>3 DEF IInv, StoredIsHeld, PlacedIsHeld, NoneDropped, OkMeansFetched,
                          Outstanding, Known

\* A job that moves on without touching its row, or only its attempts and link.
LEMMA WorkInv ==
    ASSUME IInv, NEW a \in Attachments,
           Offer(a) \/ Take(a) \/ Resolve(a) \/ Request(a) \/ Put(a) \/ Breaks(a)
    PROVE  StoredIsHeld' /\ PlacedIsHeld' /\ NoneDropped' /\ OkMeansFetched'
<1>1. /\ job[a] # "idle" /\ job' = [job EXCEPT ![a] = job'[a]] /\ job'[a] # "idle"
      /\ files \subseteq files'
      /\ UNCHANGED <<blobs, pass, code>>
  BY DEF Offer, Take, Resolve, Request, Put, Breaks, IInv, TypeOK
<1>2. job'[a] = "placed" => Content[a] \in files'
  <2>1. CASE Put(a)
    BY <2>1 DEF Put, Received, IInv, TypeOK
  <2> QED
    BY <2>1 DEF Offer, Take, Resolve, Request, Breaks, IInv, TypeOK
<1>3. \A b \in Attachments : row'[b].state = row[b].state /\ row'[b].sha = row[b].sha
  BY DEF Offer, Take, Resolve, Request, Put, Breaks, IInv, TypeOK, Row
<1> QED
  BY <1>1, <1>2, <1>3 DEF IInv, StoredIsHeld, PlacedIsHeld, NoneDropped, OkMeansFetched,
                          Outstanding, Known, TypeOK, Pass

\* The file is there when the row says so.
LEMMA StoreBlobInv ==
    ASSUME IInv, NEW a \in Attachments, StoreBlob(a)
    PROVE  StoredIsHeld' /\ PlacedIsHeld' /\ NoneDropped' /\ OkMeansFetched'
<1>1. /\ row'[a].state = "stored" /\ row'[a].sha = Content[a]
      /\ \A b \in Attachments \ {a} : row'[b] = row[b]
  BY DEF StoreBlob, LinkedRow, IInv, TypeOK, Row
<1>2. /\ job[a] = "placed" /\ job'[a] = "idle"
      /\ \A b \in Attachments \ {a} : job'[b] = job[b]
  BY DEF StoreBlob, IInv, TypeOK
<1>3. blobs' = blobs \cup {Content[a]} /\ UNCHANGED <<files, pass, code>>
  BY DEF StoreBlob
<1>4. \A b \in Attachments : job'[b] # "idle" => b # a /\ row'[b] = row[b]
  BY <1>1, <1>2
<1> QED
  BY <1>1, <1>2, <1>3, <1>4
     DEF IInv, StoredIsHeld, PlacedIsHeld, NoneDropped, OkMeansFetched, Outstanding,
         Known, TypeOK, Pass

\* A failure is counted, and never of an attachment that is stored.
LEMMA FailureInv ==
    ASSUME IInv, NEW a \in Attachments, StoreFails(a) \/ RecordFailure(a)
    PROVE  StoredIsHeld' /\ PlacedIsHeld' /\ NoneDropped' /\ OkMeansFetched'
<1>1. /\ row[a].state \notin {"none", "stored"} /\ row'[a].state \notin {"none", "stored"}
      /\ \A b \in Attachments \ {a} : row'[b] = row[b]
  <2>1. row[a].state \notin {"none", "stored"}
    BY OutstandingSays DEF StoreFails, RecordFailure, IInv, PlacedIsHeld
  <2>2. FailedRow(row[a]).state = "failed"
    BY DEF FailedRow, IInv, TypeOK, Row
  <2>3. row' = row \/ row' = [row EXCEPT ![a] = FailedRow(row[a])]
    BY DEF StoreFails, RecordFailure
  <2> QED
    BY <2>1, <2>2, <2>3 DEF IInv, TypeOK
<1>2. /\ job'[a] = "idle"
      /\ \A b \in Attachments \ {a} : job'[b] = job[b]
  BY DEF StoreFails, RecordFailure, IInv, TypeOK
<1>3. /\ pass'.failed /\ pass'.running = pass.running
      /\ pass'.batch = pass.batch /\ pass'.stop = pass.stop
  BY DEF StoreFails, RecordFailure, IInv, TypeOK, Pass
<1>4. UNCHANGED <<blobs, files, code>>
  BY DEF StoreFails, RecordFailure
<1> QED
  BY <1>1, <1>2, <1>3, <1>4
     DEF IInv, StoredIsHeld, PlacedIsHeld, NoneDropped, OkMeansFetched, Outstanding,
         Known, TypeOK, Pass

\* Nothing from outside touches a state, a file or what was counted.
LEMMA OutsideInv ==
    ASSUME IInv,
           \/ \E a \in Attachments : Expire(a)
           \/ PassDeadline \/ Cancel \/ Crash
           \/ UNCHANGED vars
    PROVE  StoredIsHeld' /\ PlacedIsHeld' /\ NoneDropped' /\ OkMeansFetched'
<1>1. /\ \A b \in Attachments : row'[b].state = row[b].state /\ row'[b].sha = row[b].sha
      /\ UNCHANGED <<blobs, files, code>>
  BY DEF Expire, PassDeadline, Cancel, Crash, vars, IInv, TypeOK, Row
<1>2. CASE Crash
  BY <1>1, <1>2 DEF Crash, NoPass, IInv, StoredIsHeld, PlacedIsHeld, NoneDropped,
                    OkMeansFetched, TypeOK
<1>3. CASE PassDeadline \/ Cancel
  <2>1. /\ pass.running /\ pass'.running /\ pass'.batch = pass.batch
        /\ pass'.failed = pass.failed /\ pass'.stop # "no"
        /\ job' = job
    BY <1>3 DEF PassDeadline, Cancel, IInv, TypeOK, Pass
  <2> QED
    BY <1>1, <2>1 DEF IInv, StoredIsHeld, PlacedIsHeld, NoneDropped, OkMeansFetched,
                      Outstanding, Known, TypeOK, Pass
<1>4. CASE UNCHANGED <<job, pass>>
  BY <1>1, <1>4 DEF IInv, StoredIsHeld, PlacedIsHeld, NoneDropped, OkMeansFetched,
                    Outstanding, Known, TypeOK, Pass
<1> QED
  BY <1>2, <1>3, <1>4 DEF Expire, vars

\* The inductive invariant.
THEOREM Invariance == Spec => []IInv
<1>1. Init => IInv
  <2> SUFFICES ASSUME Init PROVE IInv
    OBVIOUS
  <2>1. \A a \in Attachments : row[a].state = "none" /\ job[a] = "idle"
    BY DEF Init, NoRow
  <2>2. ~pass.running /\ pass.batch = {} /\ code = "none"
    BY DEF Init, NoPass
  <2>3. TypeOK
    BY InitTypes
  <2> QED
    BY <2>1, <2>2, <2>3 DEF IInv, StoredIsHeld, PlacedIsHeld, NoneDropped, OkMeansFetched
<1>2. TypeOK /\ IInv /\ TypeOK' /\ [Next]_vars => IInv'
  <2> SUFFICES ASSUME IInv, TypeOK', [Next]_vars
               PROVE  StoredIsHeld' /\ PlacedIsHeld' /\ NoneDropped' /\ OkMeansFetched'
    BY DEF IInv
  <2>1. CASE \E seen \in SUBSET Attachments : Sight(seen)
    BY <2>1, SightInv
  <2>2. CASE Begins
    BY <2>2, BeginPassInv DEF Begins
  <2>3. CASE EndPass
    BY <2>3, EndPassInv
  <2>4. CASE \E a \in Attachments : Offer(a) \/ JobStep(a)
    BY <2>4, WorkInv, StoreBlobInv, FailureInv DEF JobStep
  <2> QED
    BY <2>1, <2>2, <2>3, <2>4, OutsideInv DEF Next
<1> QED
  BY <1>1, <1>2, TypeCorrect, PTL DEF Spec

\* An attachment recorded as stored has its blob row and its own bytes on disk,
\* wherever passes were interrupted.
THEOREM StoredAreHeld == Spec => []StoredIsHeld
<1>1. IInv => StoredIsHeld
  BY DEF IInv
<1> QED
  BY <1>1, Invariance, PTL

\* A pass that was not stopped and exits 0 stored everything it took on.
THEOREM CleanMeansFetched == Spec => []OkMeansFetched
<1>1. IInv => OkMeansFetched
  BY DEF IInv
<1> QED
  BY <1>1, Invariance, PTL

----------------------------------------------------------------------------
(* Refinement: the attachment pass implements Vault.                       *)

\* Kept is what the rows call stored.
LEMMA KeptIsStored ==
    ASSUME StoredIsHeld
    PROVE  Kept = {a \in Attachments : row[a].state = "stored"}
  BY DEF Kept, StoredIsHeld

\* A step that takes no row from or to "none" or "stored" is no step of Vault.
LEMMA SameStates ==
    ASSUME StoredIsHeld, StoredIsHeld',
           \A a \in Attachments : /\ row'[a].state = "stored" <=> row[a].state = "stored"
                                  /\ row'[a].state = "none" <=> row[a].state = "none"
    PROVE  UNCHANGED <<Known, Kept>>
<1>1. Kept = {a \in Attachments : row[a].state = "stored"}
  BY KeptIsStored
<1>2. Kept' = {a \in Attachments : row'[a].state = "stored"}
  BY DEF Kept, StoredIsHeld
<1> QED
  BY <1>1, <1>2 DEF Known

\* No step of a pass, a pull, a crash or a cancellation forgets an attachment.
THEOREM NothingIsForgotten == Spec => NothingForgotten
<1>1. Init => V!VaultInit
  BY DEF Init, NoRow, V!VaultInit, Known, Kept
<1>2. IInv /\ IInv' /\ [Next]_vars => [V!VaultNext]_<<Known, Kept>>
  <2> SUFFICES ASSUME IInv, IInv', [Next]_vars PROVE [V!VaultNext]_<<Known, Kept>>
    OBVIOUS
  <2> USE DEF IInv, TypeOK
  <2>1. ASSUME NEW seen \in SUBSET Attachments, Sight(seen)
        PROVE  [V!VaultNext]_<<Known, Kept>>
    <3>1. Known' = Known \cup seen
      BY <2>1 DEF Sight, Sighted, Known, Row
    <3>2. \A a \in Attachments : row'[a].state = "stored" <=> row[a].state = "stored"
      BY <2>1 DEF Sight, Sighted, Row
    <3>3. Kept' = Kept
      BY <3>2, KeptIsStored DEF Kept, StoredIsHeld
    <3> QED
      BY <3>1, <3>3 DEF V!VaultNext, V!Learn
  <2>2. ASSUME NEW a \in Attachments, StoreBlob(a) PROVE [V!VaultNext]_<<Known, Kept>>
    <3>1. a \in Outstanding
      BY <2>2 DEF StoreBlob, PlacedIsHeld
    <3>2. /\ row'[a].state = "stored"
          /\ \A b \in Attachments \ {a} : row'[b] = row[b]
      BY <2>2 DEF StoreBlob, LinkedRow, Row
    <3>3. Kept' = Kept \cup {a} /\ a \notin Kept
      BY <3>1, <3>2, OutstandingSays, KeptIsStored DEF Kept, StoredIsHeld
    <3>4. Known' = Known /\ a \in Known
      BY <3>1, <3>2 DEF Known, Outstanding
    <3> QED
      BY <3>3, <3>4 DEF V!VaultNext, V!Keep
  <2>3. ASSUME NEW a \in Attachments, RecordFailure(a)
        PROVE  [V!VaultNext]_<<Known, Kept>>
    <3>1. row[a].state \notin {"none", "stored"}
      BY <2>3, OutstandingSays DEF RecordFailure, PlacedIsHeld
    <3>2. FailedRow(row[a]).state = "failed"
      BY DEF FailedRow, Row
    <3>3. row' = row \/ row' = [row EXCEPT ![a] = FailedRow(row[a])]
      BY <2>3 DEF RecordFailure
    <3> QED
      BY <3>1, <3>2, <3>3, SameStates
  <2>4. CASE \E a \in Attachments : Resolve(a) \/ Expire(a)
    <3>1. \A a \in Attachments : row'[a].state = row[a].state
      BY <2>4 DEF Resolve, Expire, Row
    <3> QED
      BY <3>1, SameStates
  <2>5. CASE UNCHANGED row
    BY <2>5, SameStates
  <2> QED
    BY <2>1, <2>2, <2>3, <2>4, <2>5
       DEF Next, Begins, BeginPass, EndPass, Offer, JobStep, Take, Request, Put, Breaks,
           StoreFails, PassDeadline, Cancel, Crash, vars
<1> QED
  BY <1>1, <1>2, Invariance, PTL DEF Spec, NothingForgotten, V!VaultSafe, V!vaultVars

============================================================================
