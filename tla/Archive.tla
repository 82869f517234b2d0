------------------------------ MODULE Archive ------------------------------
(***************************************************************************)
(* The tables of the archive the pull engine writes, as pure operators:    *)
(* one row of records (store/records.go) and one row of sync_runs          *)
(* (store/state.go).                                                       *)
(*                                                                         *)
(* The body of a record is abstracted to the updated_at of the edit that   *)
(* produced it, so equal digests are equal numbers and "changed" is        *)
(* inequality.  Instants are natural numbers; 0 is NULL.                   *)
(***************************************************************************)
EXTENDS Naturals, FiniteSets

RowStates == {"absent", "live", "deleted"}

\* "deleted" is a row whose deleted_at is set: rows are never removed.
Row == [state : RowStates, upd : Nat, seen : Nat]

NoRow == [state |-> "absent", upd |-> 0, seen |-> 0]

LiveRow(row) == row.state = "live"

----------------------------------------------------------------------------
(* Upserts: upsertOne with insertRecord, touchRecord and updateRecord.  The *)
(* three leave the row as if it had been written anew, which is what makes *)
(* reading a record twice harmless.                                        *)

\* Whether the upsert counts as Inserted or Restored: the row becomes live.
MadeLive(row) == row.state # "live"

\* Mutated: only the body and the instant are written, a deleted row stays deleted.
UpsertWithoutRestore(row, upd, now) ==
    [row EXCEPT !.state = IF @ = "deleted" THEN @ ELSE "live", !.upd = upd, !.seen = now]

Upsert(row, upd, now) ==
    [row EXCEPT !.state = "live", !.upd = upd, !.seen = now]

----------------------------------------------------------------------------
(* The sweep: unseenPredicate, CountUnseen and SoftDeleteUnseen.           *)

Unseen(row, start) == LiveRow(row) /\ row.seen < start

SweptRow(row, start) ==
    IF Unseen(row, start) THEN [row EXCEPT !.state = "deleted"] ELSE row

----------------------------------------------------------------------------
(* One row of sync_runs: open between StartRun and FinishRun, then the     *)
(* outcome.  A fifth, failed, is declared, and no run is ever closed with   *)
(* it: a failure on the way to FinishRun leaves the row open.              *)

Outcomes == {"ok", "partial", "budget-exhausted", "cancelled"}
RunRows  == {"none", "open"} \cup Outcomes

\* Mutated: a run with an error is closed as failed.
OutcomeUnknown(cancelled, budgetHit, failed) ==
    IF cancelled THEN "cancelled"
    ELSE IF budgetHit THEN "budget-exhausted"
    ELSE IF failed THEN "failed"
    ELSE "ok"

\* outcomeFor
Outcome(cancelled, budgetHit, failed) ==
    IF cancelled THEN "cancelled"
    ELSE IF budgetHit THEN "budget-exhausted"
    ELSE IF failed THEN "partial"
    ELSE "ok"

=============================================================================
