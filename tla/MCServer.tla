------------------------------ MODULE MCServer ------------------------------
EXTENDS Server, TLC

CONSTANTS n1, n2, p1, p2, p3, p4

\* A writer on one node, three connections of the other.
MCNodeOf == (p1 :> n1) @@ (p2 :> n2) @@ (p3 :> n2) @@ (p4 :> n2)

\* A second update, a fourth connection and a restart are met one at a time.
Crowded  == \A p \in {p2, p3, p4} : at[p].phase # "away"
OneExtra ==
    \/ produced < 2 /\ ~Crowded
    \/ produced < 2 /\ restarts = 0
    \/ ~Crowded /\ restarts = 0

Sym == Permutations(Handler) \cup Permutations({p2, p3, p4})
=============================================================================
