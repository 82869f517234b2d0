------------------------------- MODULE Mirror -------------------------------
(***************************************************************************)
(* What the archive promises about the records of a family: to be a copy   *)
(* that may be behind the far end but is never anything else.  It takes    *)
(* only what is listed now, queues the attachments of what it holds, and   *)
(* it moves a cursor, gives up a row or dates a sweep only when that loses *)
(* nothing.  Pull implements it: there are no runs here, no jobs, no       *)
(* pages, no failures and no crashes.                                      *)
(***************************************************************************)
EXTENDS Integers

CONSTANTS Rec, Scope, ScopeOf, Lag, Overlap

VARIABLES
    clock,
    far,        \* what is listed, and its body
    copy,       \* the row of each record: its state, its body, when it was seen
    queue,      \* the body whose attachments were queued last
    cursor,     \* how far each scope has been read
    swept       \* when the family was last swept

mirrorVars == <<clock, far, copy, queue, cursor, swept>>

Held(r) == copy[r].state = "live"

\* What is listed and behind a cursor at c, overlap included: nobody asks for it
\* again.
Passed(s, c) ==
    {r \in Rec : ScopeOf[r] = s /\ far[r].live /\ far[r].upd + Overlap < c}

UpToDate(r) == Held(r) /\ copy[r].upd = far[r].upd /\ queue[r] = far[r].upd

MirrorInit ==
    /\ clock = 1
    /\ far = [r \in Rec |-> [live |-> FALSE, upd |-> 0]]
    /\ copy = [r \in Rec |-> [state |-> "absent", upd |-> 0, seen |-> 0]]
    /\ queue = [r \in Rec |-> 0]
    /\ cursor = [s \in Scope |-> 0]
    /\ swept = 0

\* Time passes, and a record may be deleted, or show an edit at most Lag old.
FarMoves ==
    /\ clock' \in Nat /\ clock <= clock'
    /\ \A r \in Rec :
          \/ far'[r] = far[r]
          \/ ~far'[r].live /\ far'[r].upd = far[r].upd
          \/ /\ far'[r].live /\ far'[r].upd \in (far[r].upd + 1)..clock
             /\ clock <= far'[r].upd + Lag
    /\ UNCHANGED <<copy, queue, cursor, swept>>

\* Records are copied as they are listed now.
Take(recs) ==
    /\ \A r \in recs : far[r].live
    /\ copy' = [r \in Rec |-> IF r \in recs
                              THEN [state |-> "live", upd |-> far[r].upd, seen |-> clock]
                              ELSE copy[r]]
    /\ UNCHANGED <<clock, far, queue, cursor, swept>>

\* The attachments of rows that are held are queued, those of the body held.
Attach(recs) ==
    /\ \A r \in recs : Held(r)
    /\ queue' = [r \in Rec |-> IF r \in recs THEN copy[r].upd ELSE queue[r]]
    /\ UNCHANGED <<clock, far, copy, cursor, swept>>

\* A cursor moves to an instant that nothing listed is behind and missing.
Advance(s, c) ==
    /\ c <= clock
    /\ \A r \in Passed(s, c) : UpToDate(r)
    /\ cursor' = [cursor EXCEPT ![s] = c]
    /\ UNCHANGED <<clock, far, copy, queue, swept>>

\* What was not seen since an instant is given up: of what is listed, only what
\* changed too late to be listed at that instant, and no cursor has passed.
GiveUp(since) ==
    LET unseen == {r \in Rec : Held(r) /\ copy[r].seen < since} IN
    /\ since <= clock
    /\ \A r \in unseen :
          far[r].live => /\ far[r].upd + Lag >= since
                         /\ r \notin Passed(ScopeOf[r], cursor[ScopeOf[r]])
    /\ copy' = [r \in Rec |-> IF r \in unseen THEN [copy[r] EXCEPT !.state = "deleted"]
                                              ELSE copy[r]]
    /\ UNCHANGED <<clock, far, queue, cursor, swept>>

\* The date of a sweep: all that is held has been seen since.
Date(since) ==
    /\ since <= clock
    /\ \A r \in Rec : Held(r) => copy[r].seen >= since
    /\ swept' = since
    /\ UNCHANGED <<clock, far, copy, queue, cursor>>

MirrorNext ==
    \/ FarMoves
    \/ \E recs \in SUBSET Rec : Take(recs) \/ Attach(recs)
    \/ \E s \in Scope, c \in 0..clock : Advance(s, c)
    \/ \E since \in 0..clock : GiveUp(since) \/ Date(since)

MirrorSafe == MirrorInit /\ [][MirrorNext]_mirrorVars
=============================================================================
