------------------------------ MODULE MCVerify ------------------------------
(* A bill that refers to a contact, two transactions, an attachment.        *)
EXTENDS Verify, TLC

CONSTANTS bill, contact, t1, t2, a1, currency, sales, bank

MCRefs == bill :> {contact, a1, currency} @@ contact :> {} @@ t1 :> {} @@ t2 :> {}
MCCode == t1 :> sales @@ t2 :> bank
MCValue == t1 :> 1 @@ t2 :> -1
MCDay == t1 :> 1 @@ t2 :> 2

Of(s, b) == sales :> s @@ bank :> b

\* A balance of day 1 and 2 that agrees, one with a single entry, which does not,
\* one without entries, and one that does not decode.
MCBalances ==
    {[from |-> 1, to |-> 2, codes |-> {sales, bank}, total |-> Of(1, -1),
      readable |-> TRUE],
     [from |-> 1, to |-> 1, codes |-> {sales}, total |-> Of(2, 0), readable |-> TRUE],
     [from |-> 2, to |-> 2, codes |-> {}, total |-> Of(0, 0), readable |-> TRUE],
     [from |-> 1, to |-> 2, codes |-> {}, total |-> Of(0, 0), readable |-> FALSE]}

MCWindows == {[from |-> 2, to |-> 0, given |-> TRUE]}
============================================================================
