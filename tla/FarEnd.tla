------------------------------- MODULE FarEnd -------------------------------
(***************************************************************************)
(* The FreeAgent side of a pull: the records of one family as the API      *)
(* lists them.  None of this is code of the repository; it is what         *)
(* engine/engine.go and api/pager.go assume of the service they read.      *)
(*                                                                         *)
(* An edit stamps a record with the instant it is made (updated_at) and    *)
(* becomes visible to the API at most Lag later: "any lag between a        *)
(* record's updated_at and its visibility" is what DefaultOverlap says it  *)
(* absorbs.                                                                *)
(***************************************************************************)
EXTENDS Integers

CONSTANTS
    Rec,        \* the urls of the family's records
    Lag,        \* an edit is visible at most this long after its updated_at
    MaxClock    \* bound of the model: the instants are 1..MaxClock

ASSUME FarEndAssumption ==
    /\ Lag \in Nat
    /\ MaxClock \in Nat

VARIABLES
    clock,      \* the time, the same at both ends
    far,        \* what the API answers for a record: is it listed, and its body
    hid         \* the updated_at of an edit not yet visible; 0 when there is none

farVars == <<clock, far, hid>>

FarRecord == [live : BOOLEAN, upd : Nat]

FarType ==
    /\ clock \in Nat
    /\ far \in [Rec -> FarRecord]
    /\ hid \in [Rec -> Nat]

FarInit ==
    /\ clock = 1
    /\ far = [r \in Rec |-> [live |-> FALSE, upd |-> 0]]
    /\ hid = [r \in Rec |-> 0]

\* Time passes, but never beyond the instant a hidden edit has to be visible at.
FarTick ==
    /\ clock < MaxClock
    /\ \A r \in Rec : hid[r] # 0 => clock < hid[r] + Lag
    /\ clock' = clock + 1
    /\ UNCHANGED <<far, hid>>

\* Somebody creates, edits or brings back a record.  Two edits of one record
\* have different instants, which is what lets updated_at stand for the body.
FarEdit(r) ==
    /\ hid[r] = 0
    /\ far[r].upd < clock
    /\ hid' = [hid EXCEPT ![r] = clock]
    /\ UNCHANGED <<clock, far>>

\* The edit becomes visible.
FarPublish(r) ==
    /\ hid[r] # 0
    /\ far' = [far EXCEPT ![r] = [live |-> TRUE, upd |-> hid[r]]]
    /\ hid' = [hid EXCEPT ![r] = 0]
    /\ UNCHANGED clock

\* Somebody deletes a record.  There is no deletions feed: it just stops being
\* listed.
FarDelete(r) ==
    /\ far[r].live
    /\ clock < MaxClock
    /\ far' = [far EXCEPT ![r].live = FALSE]
    /\ hid' = [hid EXCEPT ![r] = 0]
    /\ UNCHANGED clock
=============================================================================
