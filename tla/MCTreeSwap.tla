----------------------------- MODULE MCTreeSwap -----------------------------
(* Two archives that share an entry: neither is a part or a remainder of   *)
(* the other, and a mixture of both is none.                               *)
EXTENDS TreeSwap

CONSTANTS r1, r2, r3, pull, reconcile, rebuild

TwoArchives == {{r1, r2}, {r2, r3}}

============================================================================
