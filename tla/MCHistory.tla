----------------------------- MODULE MCHistory -----------------------------
(* History for TLC: authors are alike, and so are nodes. *)
EXTENDS History, TLC

Symmetry == Permutations(Author) \cup Permutations(Node)
=============================================================================
