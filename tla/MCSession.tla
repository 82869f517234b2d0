------------------------------ MODULE MCSession -----------------------------
(* A pull and what is typed beside it.                                      *)
EXTENDS Session, TLC

CONSTANTS p1, p2, acme, beta

\* The two processes are interchangeable.
Alike == Permutations(Processes)

Line(verb, slug) == [verb |-> verb, slug |-> slug, files |-> TRUE]

Commandlines ==
    {Line("pull", acme), [Line("pull", Unnamed) EXCEPT !.files = FALSE]}
    \cup {Line(verb, Unnamed) : verb \in {"probe", "fetch", "reproject", "status"}}
    \cup {Line(verb, slug) : verb \in {"add", "remove"}, slug \in {acme, beta}}
============================================================================
