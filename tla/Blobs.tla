------------------------------- MODULE Blobs -------------------------------
(***************************************************************************)
(* The attachment pass: FetchBlobs of engine/blobs.go with the attachment  *)
(* rows it keeps (store/attachments.go) and the content-addressed files it *)
(* writes (blob/blob.go).                                                  *)
(*                                                                         *)
(* Every transaction, request and rename is a step of its own, so that a   *)
(* crash, a cancellation, a link that expires or another worker can come   *)
(* between any two of them.  All commands that run a pass, and every pull, *)
(* hold the lock: there is at most one pass, and none during a pull.       *)
(***************************************************************************)
EXTENDS Naturals, FiniteSets

CONSTANTS Attachments,
          Content,       \* the digest of the bytes of each attachment
          Truncated,     \* the digest of bytes that stop too early
          Oversize,      \* attachments over maxAttachmentBytes
          Broken,        \* attachments whose download may fail for ever
          Workers,       \* BlobOptions.Concurrency
          Limits,        \* the values --limit is given; 0 is no limit
          DefaultLimit,  \* what OutstandingAttachments takes for no limit
          MayBeTimed,    \* whether passes have a deadline
          MaxAttempts,   \* attempts are counted up to here
          MaxFaults      \* bounds failures, crashes, cancellations, deadlines

ASSUME BlobsAssumption ==
    /\ Oversize \subseteq Attachments /\ Broken \subseteq Attachments
    /\ Workers \in Nat \ {0} /\ DefaultLimit \in Nat \ {0}
    /\ Limits \subseteq Nat
    /\ MayBeTimed \in BOOLEAN
    /\ MaxAttempts \in Nat /\ MaxFaults \in Nat

VARIABLES row,    \* the attachments table
          blobs,  \* the digests with a row in the blobs table
          files,  \* the digests with a file in the blob store
          job,    \* where the pass is with each attachment
          pass,   \* the pass itself, in memory
          code,   \* the exit code of the last pass
          faults

vars == <<row, blobs, files, job, pass, code, faults>>

NoDigest == "none"
Digest   == {Content[a] : a \in Attachments} \cup {Truncated}

Row  == [state : {"none", "pending", "failed", "stored"}, sha : Digest \cup {NoDigest},
         attempts : 0..MaxAttempts, link : {"good", "expired"}]

\* In FetchBlobs: waiting in pending, blocked in the send, then with a worker.
Working == {"resolving", "linked", "streaming", "placed", "failing"}
Stage   == {"idle", "queued", "offered"} \cup Working

Pass == [running : BOOLEAN, timed : BOOLEAN, stop : {"no", "deadline", "cancelled"},
         batch : SUBSET Attachments, failed : BOOLEAN]

NoRow  == [state |-> "none", sha |-> NoDigest, attempts |-> 0, link |-> "expired"]
NoPass == [running |-> FALSE, timed |-> FALSE, stop |-> "no", batch |-> {}, failed |-> FALSE]

TypeOK ==
    /\ row \in [Attachments -> Row]
    /\ blobs \subseteq Digest /\ files \subseteq Digest
    /\ job \in [Attachments -> Stage]
    /\ pass \in Pass
    /\ code \in {"none", "ok", "partial", "config"}
    /\ faults \in 0..MaxFaults

Init ==
    /\ row = [a \in Attachments |-> NoRow]
    /\ blobs = {} /\ files = {}
    /\ job = [a \in Attachments |-> "idle"]
    /\ pass = NoPass
    /\ code = "none" /\ faults = 0

Cancelled == pass.stop = "cancelled"

Fault == faults < MaxFaults /\ faults' = faults + 1

\* A request or statement fails: always once cancelled, else by a fault.
Fails == IF Cancelled THEN UNCHANGED faults ELSE Fault

----------------------------------------------------------------------------
(* The rows.                                                               *)

Known       == {a \in Attachments : row[a].state # "none"}
Outstanding == {a \in Known : row[a].state # "stored"}

\* Mutated: a sighting queues the attachment again.
SightedAnew(r) == [r EXCEPT !.state = "pending", !.link = "good"]

Sighted(r) == [r EXCEPT !.state = IF @ = "none" THEN "pending" ELSE @, !.link = "good"]

CountUp(n) == IF n < MaxAttempts THEN n + 1 ELSE n

\* Mutated: a failure is given a state that is not one of the three.
FailedRowExhausted(r) == [r EXCEPT !.state = "exhausted", !.attempts = CountUp(@)]

FailedRow(r) == [r EXCEPT !.state = "failed", !.attempts = CountUp(@)]

LinkedRow(r, sha) == [r EXCEPT !.state = "stored", !.sha = sha]

\* Mutated: in no order that depends on the attempts.
AnyOrder(a, b) == TRUE

\* a may come before b; rows with equal attempts come in any order.
Before(a, b) == row[a].attempts <= row[b].attempts

Limited(limit) == IF limit = 0 THEN DefaultLimit ELSE limit

\* What OutstandingAttachments may return.
Batch(limit) ==
    {batch \in SUBSET Outstanding :
        /\ Cardinality(batch) <= Limited(limit)
        /\ batch # Outstanding => Cardinality(batch) = Limited(limit)
        /\ \A a \in batch, b \in Outstanding \ batch : Before(a, b)}

\* UpsertAttachments, by a pull.
Sight(seen) ==
    /\ ~pass.running
    /\ row' = [a \in Attachments |-> IF a \in seen THEN Sighted(row[a]) ELSE row[a]]
    /\ UNCHANGED <<blobs, files, job, pass, code, faults>>

----------------------------------------------------------------------------
(* The pass.                                                               *)

BeginPass(limit, timed) ==
    /\ ~pass.running
    /\ \E batch \in Batch(limit) :
        /\ pass' = [NoPass EXCEPT !.running = TRUE, !.timed = timed, !.batch = batch]
        /\ job' = [a \in Attachments |-> IF a \in batch THEN "queued" ELSE "idle"]
    /\ code' = "none"
    /\ UNCHANGED <<row, blobs, files, faults>>

In(stages) == {a \in Attachments : job[a] \in stages}

\* The loop over pending checks the context and the deadline, then sends.
Offer(a) ==
    /\ job[a] = "queued" /\ pass.stop = "no" /\ In({"offered"}) = {}
    /\ \A b \in In({"queued"}) : Before(a, b)
    /\ job' = [job EXCEPT ![a] = "offered"]
    /\ UNCHANGED <<row, blobs, files, pass, code, faults>>

\* A worker receives it, after a stop too, and looks at the expiry.
Take(a) ==
    /\ job[a] = "offered" /\ Cardinality(In(Working)) < Workers
    /\ job' = [job EXCEPT ![a] = IF row[a].link = "expired" THEN "resolving" ELSE "linked"]
    /\ UNCHANGED <<row, blobs, files, pass, code, faults>>

\* refreshAttachment, its request and RefreshAttachmentSource.
Resolve(a) ==
    /\ job[a] = "resolving" /\ ~Cancelled
    /\ row' = [row EXCEPT ![a].link = "good"]
    /\ job' = [job EXCEPT ![a] = "linked"]
    /\ UNCHANGED <<blobs, files, pass, code, faults>>

\* The content host answers the download.
Request(a) ==
    /\ job[a] = "linked" /\ ~Cancelled
    /\ job' = [job EXCEPT ![a] = IF row[a].link = "expired" THEN "failing" ELSE "streaming"]
    /\ UNCHANGED <<row, blobs, files, pass, code, faults>>

Received(a) == IF a \in Oversize THEN Truncated ELSE Content[a]

\* Mutated: a body that breaks off is taken for a whole one.
PutWhatCame(a) ==
    /\ job[a] = "streaming"
    /\ \E sha \in {Received(a), Truncated} : files' = files \cup {sha}
    /\ job' = [job EXCEPT ![a] = IF a \in Oversize THEN "failing" ELSE "placed"]
    /\ UNCHANGED <<row, blobs, pass, code, faults>>

\* Put renames the staged file, unless it is held; the cap is looked at after.
Put(a) ==
    /\ job[a] = "streaming"
    /\ files' = files \cup {Received(a)}
    /\ job' = [job EXCEPT ![a] = IF a \in Oversize THEN "failing" ELSE "placed"]
    /\ UNCHANGED <<row, blobs, pass, code, faults>>

\* Resolving, the request or the body breaks off; staged bytes are removed.
Breaks(a) ==
    /\ job[a] \in {"resolving", "linked", "streaming"}
    /\ IF a \in Broken THEN UNCHANGED faults ELSE Fails
    /\ job' = [job EXCEPT ![a] = "failing"]
    /\ UNCHANGED <<row, blobs, files, pass, code>>

StoreBlob(a) ==
    /\ job[a] = "placed" /\ ~Cancelled
    /\ blobs' = blobs \cup {Content[a]}
    /\ row' = [row EXCEPT ![a] = LinkedRow(@, Content[a])]
    /\ job' = [job EXCEPT ![a] = "idle"]
    /\ UNCHANGED <<files, pass, code, faults>>

\* Mutated: an attachment whose row could not be written is not a failure.
StoreFailsUncounted(a) ==
    /\ job[a] = "placed" /\ Fails
    /\ job' = [job EXCEPT ![a] = "idle"]
    /\ UNCHANGED <<row, blobs, files, pass, code>>

\* Its transaction rolls back: fetchOne counts no attempt.
StoreFails(a) ==
    /\ job[a] = "placed" /\ Fails
    /\ job' = [job EXCEPT ![a] = "idle"]
    /\ pass' = [pass EXCEPT !.failed = TRUE]
    /\ UNCHANGED <<row, blobs, files, code>>

\* recordFailure; without the row when FailAttachment fails itself.
RecordFailure(a) ==
    /\ job[a] = "failing"
    /\ \/ ~Cancelled /\ row' = [row EXCEPT ![a] = FailedRow(@)] /\ UNCHANGED faults
       \/ Fails /\ UNCHANGED row
    /\ job' = [job EXCEPT ![a] = "idle"]
    /\ pass' = [pass EXCEPT !.failed = TRUE]
    /\ UNCHANGED <<blobs, files, code>>

\* What is still queued is skipped.  reportBlobs fails when it cannot count, and
\* after a pull is not called when nothing was attempted.
EndPass ==
    /\ pass.running /\ In(Stage \ {"idle", "queued"}) = {}
    /\ pass.stop = "no" => In({"queued"}) = {}
    /\ pass' = [pass EXCEPT !.running = FALSE]
    /\ job' = [a \in Attachments |-> "idle"]
    /\ \/ Fails /\ code' = "config"
       \/ /\ Cancelled => In({"queued"}) = pass.batch
          /\ code' = (IF pass.failed THEN "partial" ELSE "ok") /\ UNCHANGED faults
    /\ UNCHANGED <<row, blobs, files>>

----------------------------------------------------------------------------
(* What happens to the pass.                                               *)

\* A link in a worker's hands expires before it is used: a fault, as links
\* outlive a download.
Expire(a) ==
    /\ row[a].link = "good"
    /\ row' = [row EXCEPT ![a].link = "expired"]
    /\ IF job[a] \in {"linked", "resolving"} THEN Fault ELSE UNCHANGED faults
    /\ UNCHANGED <<blobs, files, job, pass, code>>

PassDeadline ==
    /\ pass.running /\ pass.timed /\ pass.stop = "no" /\ Fault
    /\ pass' = [pass EXCEPT !.stop = "deadline"]
    /\ UNCHANGED <<row, blobs, files, job, code>>

Cancel ==
    /\ pass.running /\ ~Cancelled /\ Fault
    /\ pass' = [pass EXCEPT !.stop = "cancelled"]
    /\ UNCHANGED <<row, blobs, files, job, code>>

\* Staged files stay behind, under names nothing reads.
Crash ==
    /\ pass.running /\ Fault
    /\ pass' = NoPass
    /\ job' = [a \in Attachments |-> "idle"]
    /\ UNCHANGED <<row, blobs, files, code>>

----------------------------------------------------------------------------

JobStep(a) ==
    \/ Take(a) \/ Resolve(a) \/ Request(a) \/ Put(a) \/ Breaks(a)
    \/ StoreBlob(a) \/ StoreFails(a) \/ RecordFailure(a)

Begins == \E limit \in Limits, timed \in BOOLEAN :
              (timed => MayBeTimed) /\ BeginPass(limit, timed)

Next ==
    \/ \E seen \in SUBSET Attachments : Sight(seen)
    \/ Begins \/ EndPass
    \/ \E a \in Attachments : Offer(a) \/ JobStep(a) \/ Expire(a)
    \/ PassDeadline \/ Cancel \/ Crash

Spec == Init /\ [][Next]_vars

\* cron begins passes for ever; a pass waits only for requests and statements.
FairSpec ==
    /\ Spec
    /\ WF_vars(Begins) /\ WF_vars(EndPass)
    /\ WF_vars(\E a \in Attachments : Offer(a))
    /\ \A a \in Attachments : WF_vars(JobStep(a))

----------------------------------------------------------------------------
(* Properties.                                                             *)

\* An attachment recorded as stored has a blob row and its own bytes on disk,
\* wherever a pass was interrupted: Put and StoreBlob come in that order.
StoredIsHeld ==
    \A a \in Attachments :
        row[a].state = "stored" =>
            row[a].sha = Content[a] /\ Content[a] \in blobs /\ Content[a] \in files

\* A pass that was not stopped and exits 0 stored everything it took on.
OkMeansFetched ==
    code = "ok" /\ pass.stop = "no" => \A a \in pass.batch : row[a].state = "stored"

Kept == {a \in Attachments :
            /\ row[a].state = "stored" /\ row[a].sha = Content[a]
            /\ Content[a] \in blobs \cap files}

V == INSTANCE Vault WITH Obtainable <- Attachments \ (Broken \cup Oversize),
                         known <- Known, kept <- Kept

\* A file once downloaded stays so: neither reading its parent again, nor a
\* failure, nor a crash sends it back (UpsertAttachments, FailAttachment).
NothingForgotten == V!VaultSafe

\* And whatever the host serves is downloaded some day, however small the
\* limit and whatever never succeeds beside it (OutstandingAttachments).
EverythingKept == V!VaultSpec
============================================================================
